---------------------------- MODULE BoundedFifo ----------------------------
(***************************************************************************)
(* What OMsgChannel promises its callers (src/stdpkg/threads/docs): a      *)
(* bounded first-in first-out channel.  Every call takes effect at one     *)
(* instant between its invocation and its return: it appends or removes a  *)
(* message, or it finds the channel full (empty).  A waiting call that     *)
(* found the channel full (empty) may look again; only a call that waits   *)
(* without a deadline may never return FALSE.                              *)
(***************************************************************************)
EXTENDS Naturals, Sequences

CONSTANTS Threads,     (* the threads that call the channel                *)
          Messages,    (* the values of SChMsg                             *)
          Capacity,    (* acapacity of OMsgChannel.Create                  *)
          NoMessage    (* an out parameter no call has written             *)

VARIABLES queue,       (* the messages put and not yet got, oldest first   *)
          client       (* each thread's view of its current call           *)

Ops   == {"Put", "Get"}
Waits == {"once", "deadline", "forever"}   (* timeout zero, > 0, negative  *)

Idle == [phase |-> "idle", op |-> "Get", wait |-> "once", msg |-> NoMessage]

(* The channel never holds more than its capacity.                         *)
TypeOK ==
  /\ queue \in Seq(Messages)
  /\ Len(queue) <= Capacity
  /\ client \in [Threads -> [phase : {"idle", "pending", "failed", "done"},
                             op    : Ops,
                             wait  : Waits,
                             msg   : Messages \cup {NoMessage}]]

Init ==
  /\ queue  = << >>
  /\ client = [t \in Threads |-> Idle]

Invoke(t) ==
  /\ client[t].phase = "idle"
  /\ \E w \in Waits :
       \/ \E m \in Messages :
            client' = [client EXCEPT ![t] =
              [phase |-> "pending", op |-> "Put", wait |-> w, msg |-> m]]
       \/ client' = [client EXCEPT ![t] =
              [phase |-> "pending", op |-> "Get", wait |-> w, msg |-> NoMessage]]
  /\ UNCHANGED queue

Put(t) ==
  /\ client[t].phase = "pending" /\ client[t].op = "Put"
  /\ Len(queue) < Capacity
  /\ queue'  = Append(queue, client[t].msg)
  /\ client' = [client EXCEPT ![t].phase = "done"]

Get(t) ==
  /\ client[t].phase = "pending" /\ client[t].op = "Get"
  /\ queue # << >>
  /\ queue'  = Tail(queue)
  /\ client' = [client EXCEPT ![t].phase = "done", ![t].msg = Head(queue)]

(* The call finds the channel full, or empty: the queue does not change.   *)
Refuse(t) ==
  /\ client[t].phase = "pending"
  /\ \/ client[t].op = "Put" /\ Len(queue) = Capacity
     \/ client[t].op = "Get" /\ queue = << >>
  /\ client' = [client EXCEPT ![t].phase = "failed"]
  /\ UNCHANGED queue

Retry(t) ==
  /\ client[t].phase = "failed" /\ client[t].wait # "once"
  /\ client' = [client EXCEPT ![t].phase = "pending"]
  /\ UNCHANGED queue

Return(t) ==
  /\ \/ client[t].phase = "done"
     \/ client[t].phase = "failed" /\ client[t].wait # "forever"
  /\ client' = [client EXCEPT ![t] = Idle]
  /\ UNCHANGED queue

Next == \E t \in Threads :
          Invoke(t) \/ Put(t) \/ Get(t) \/ Refuse(t) \/ Retry(t) \/ Return(t)

Spec == Init /\ [][Next]_<<queue, client>>
=============================================================================
