---------------------------- MODULE ThreadEvent ----------------------------
(***************************************************************************)
(* OThreadEvent (src/stdpkg/threads/waitevent.dqi, the Linux branch): a    *)
(* 32-bit sequence number, a count of registered waiters, and the kernel's *)
(* futex queue of the sequence number's address.  The operators are the    *)
(* indivisible steps of Signal and WaitUntilNanos; the module that         *)
(* composes them keeps the program counters.                               *)
(***************************************************************************)
EXTENDS Naturals, FiniteSets

CONSTANTS Threads,
          Events,       (* the OThreadEvent objects                        *)
          SeqMod        (* the sequence number wraps at SeqMod (2^32)      *)

VARIABLE event

EventTypeOK ==
  event \in [Events -> [m_sequence : 0 .. SeqMod - 1,
                        m_waiters  : Nat,
                        sleeping   : SUBSET Threads]]

EventInit ==
  event = [e \in Events |-> [m_sequence |-> 0, m_waiters |-> 0, sleeping |-> {}]]

Snapshot(e) == event[e].m_sequence

(* Signal: m_sequence.Add(1).                                              *)
SignalAdd(e) ==
  event' = [event EXCEPT ![e].m_sequence = (@ + 1) % SeqMod]

(* Signal: m_waiters.Load() <> 0.                                          *)
HasWaiters(e) == event[e].m_waiters # 0

(* Signal: FUTEX_WAKE_PRIVATE of one waiter, if one sleeps.                *)
Wake(e) ==
  \/ event[e].sleeping = {} /\ UNCHANGED event
  \/ \E t \in event[e].sleeping :
       event' = [event EXCEPT ![e].sleeping = @ \ {t}]

(* WaitUntilNanos: m_waiters.Add(1) and m_waiters.Add(0xFFFFFFFF).         *)
Register(e)   == event' = [event EXCEPT ![e].m_waiters = @ + 1]
Unregister(e) == event' = [event EXCEPT ![e].m_waiters = @ - 1]

(* FUTEX_WAIT: the kernel compares and queues the thread in one step.      *)
FutexSleep(e, t, expected) ==
  /\ event[e].m_sequence = expected
  /\ event' = [event EXCEPT ![e].sleeping = @ \cup {t}]

FutexAgain(e, expected) ==
  /\ event[e].m_sequence # expected
  /\ UNCHANGED event

(* A deadline or a signal handler takes a sleeping thread off the queue.   *)
FutexLeave(e, t) ==
  /\ t \in event[e].sleeping
  /\ event' = [event EXCEPT ![e].sleeping = @ \ {t}]
=============================================================================
