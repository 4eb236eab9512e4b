-------------------------- MODULE HttpServerProofs --------------------------
(***************************************************************************)
(* For any number of clients and requests, files and buffers of any size:  *)
(* the types are right, no event is handled on a deleted connection, and   *)
(* clients that wait for an answer before they ask again get what is due.  *)
(* While there are events to handle, the connections they are about are    *)
(* open or closed, the only step that deletes such connections runs when   *)
(* no event is left, and no event is left while the loop waits (IInv).     *)
(* What a client has read, what is on its way and what waits to be sent    *)
(* are together always a beginning of what is due to it, as every step     *)
(* either moves units along this line, or drops its end with the           *)
(* connection, or adds the next parts of the answer to the last request    *)
(* (Answering); and while there is something to send, an output handler    *)
(* is set or is running (Attended).                                        *)
(***************************************************************************)
EXTENDS HttpServer, SequenceTheorems, TLAPS

LEMMA Appended ==
  ASSUME NEW S, NEW s \in Seq(S), NEW e \in S
  PROVE  /\ Append(s, e) \in Seq(S) /\ Append(s, e) # <<>>
         /\ DOMAIN s \subseteq DOMAIN Append(s, e)
         /\ Len(s) + 1 \in DOMAIN Append(s, e)
         /\ DOMAIN Append(s, e) = 1..(Len(s) + 1) /\ DOMAIN s = 1..Len(s)
         /\ \A i \in 1..Len(s) : Append(s, e)[i] = s[i]
         /\ Append(s, e)[Len(s) + 1] = e
  OBVIOUS

(* The connections the server makes and the changes of state of one.       *)
LEMMA NewConnections ==
  /\ NewConnection \in Connection
  /\ \A st \in {"open", "deleted"} : [NewConnection EXCEPT !.st = st] \in Connection
  <1>1. <<>> \in Seq(Unit) /\ 0 \in 0..FileUnits
    BY HttpAssumption
  <1>2. QED
    BY <1>1 DEF NewConnection, Connection, NoFile

LEMMA Closed ==
  ASSUME NEW o \in Connection
  PROVE  /\ CloseConnection(o) \in Connection
         /\ CloseConnection(o).st = "closed" /\ ~CloseConnection(o).out
         /\ CloseConnection(o).inbuf = o.inbuf
         /\ CloseConnection(o).file_obj = o.file_obj
         /\ CloseConnection(o).file_remaining = o.file_remaining
  BY DEF CloseConnection, Connection

LEMMA FileClosed ==
  ASSUME NEW o \in Connection
  PROVE  /\ CloseFileFd(o) \in Connection
         /\ CloseFileFd(o).st = o.st /\ CloseFileFd(o).out = o.out
         /\ CloseFileFd(o).inbuf = o.inbuf
         /\ CloseFileFd(o).file_remaining = 0
  <1>1. 0 \in 0..FileUnits
    BY HttpAssumption
  <1>2. QED
    BY <1>1 DEF CloseFileFd, Connection, NoFile

LEMMA Rest ==
  ASSUME NEW s \in Seq(Unit), NEW k \in Nat
  PROVE  /\ SubSeq(s, k + 1, Len(s)) \in Seq(Unit)
         /\ \A i \in DOMAIN SubSeq(s, k + 1, Len(s)) :
              \E j \in DOMAIN s : SubSeq(s, k + 1, Len(s))[i] = s[j]
  OBVIOUS

LEMMA First ==
  ASSUME NEW s \in Seq(Unit), NEW k \in 0..Len(s)
  PROVE  SubSeq(s, 1, k) \in Seq(Unit) /\ Len(SubSeq(s, 1, k)) = k
  OBVIOUS

(* Between batches nothing is left of the last one.                        *)
BatchDone == pc = "wait" => batch = {} /\ ~event.in /\ ~event.out

(* What is still to be done in this batch: a connection has one event in   *)
(* it, is open before its event is handled and not deleted after it.       *)
Busy == AtHand \/ pc \in {"process", "send"}

BatchOpen ==
  /\ \A e \in batch : e.sock \in Clients => conn[e.sock].st = "open"
  /\ \A e \in batch : e.out => e.sock \in Clients
  /\ \A e, f \in batch : e.sock = f.sock => e = f
  /\ Busy => \A e \in batch : e.sock # event.sock

EventAlive ==
  /\ Busy /\ event.sock \in Clients => conn[event.sock].st \in {"open", "closed"}
  /\ event.out => event.sock \in Clients /\ conn[event.sock].st = "open"
  /\ pc \in {"process", "send"} =>
       event.sock \in Clients /\ conn[event.sock].st = "open" /\ ~event.out

IInv == TypeOK /\ BatchDone /\ BatchOpen /\ EventAlive

LEMMA InitIInv == Init => IInv
  <1> SUFFICES ASSUME Init PROVE IInv
    OBVIOUS
  <1> USE HttpAssumption DEF Init, NewConnection
  <1>2. TypeOK
    BY NewConnections DEF TypeOK, Consistent, Event, NoFile
  <1>3. BatchDone /\ BatchOpen /\ EventAlive
    BY DEF BatchDone, BatchOpen, EventAlive, Busy, AtHand
  <1>4. QED
    BY <1>2, <1>3 DEF IInv

(* A handler that leaves the batch alone and changes only the connection   *)
(* of the event at hand, which it may close.                               *)
LEMMA OwnConnection ==
  ASSUME IInv, NEW o \in Connection,
         event.sock \in Clients, Become(event.sock, o), UNCHANGED batch,
         event' = event \/ event' = [event EXCEPT !.in = FALSE],
         Busy, ~event.out, o.st \in {"open", "closed"},
         pc' = "event" \/ (pc' \in {"process", "send"} /\ o.st = "open")
  PROVE  /\ conn' \in [Clients -> Connection]
         /\ conn'[event.sock] = o
         /\ \A d \in Clients \ {event.sock} : conn'[d] = conn[d]
         /\ BatchDone' /\ BatchOpen' /\ EventAlive'
         /\ event' \in Event /\ pc' \in {"event", "process", "send"}
  <1> DEFINE c == event.sock
  <1>1. /\ conn' \in [Clients -> Connection]
        /\ conn'[c] = o
        /\ \A d \in Clients \ {c} : conn'[d] = conn[d]
    BY DEF Become, IInv, TypeOK
  <1>2. /\ event' \in Event /\ event'.sock = c
        /\ event'.out = event.out /\ (event'.in => event.in)
    BY DEF IInv, TypeOK, Event
  <1>3. pc' \in {"event", "process", "send"}
    OBVIOUS
  <1>4. BatchDone'
    BY <1>3 DEF BatchDone
  <1>5. BatchOpen'
    BY <1>1, <1>2 DEF IInv, BatchOpen
  <1>6. EventAlive'
    BY <1>1, <1>2 DEF EventAlive
  <1>7. QED
    BY <1>1, <1>2, <1>3, <1>4, <1>5, <1>6

(* The clients do not touch the server.                                    *)
LEMMA ClientIInv ==
  ASSUME IInv, NEW c \in Clients,
         Connect(c) \/ Ask(c) \/ AskRest(c) \/ Read(c) \/ HangUp(c)
  PROVE  IInv'
  <1>1. TypeOK'
    <2> USE HttpAssumption DEF IInv, TypeOK, Consistent
    <2>1. CASE Connect(c)
      BY <2>1 DEF Connect
    <2>2. CASE Ask(c)
      <3>1. PICK kind \in Kinds[c], keep \in BOOLEAN :
              asked' = [asked EXCEPT ![c] = Append(@, [kind |-> kind, keep |-> keep])]
        BY <2>2 DEF Ask
      <3>2. /\ asked' \in [Clients -> Seq(Request)]
            /\ \A d \in Clients : DOMAIN asked[d] \subseteq DOMAIN asked'[d]
            /\ Len(asked[c]) + 1 \in DOMAIN asked'[c]
        <4>1. PICK r \in Request : asked' = [asked EXCEPT ![c] = Append(@, r)]
          BY <3>1 DEF Request
        <4>2. asked[c] \in Seq(Request)
          OBVIOUS
        <4>3. asked'[c] = Append(asked[c], r) /\ \A d \in Clients \ {c} : asked'[d] = asked[d]
          BY <4>1
        <4>4. asked' = [d \in Clients |-> asked'[d]]
          BY <4>1
        <4>5. /\ asked'[c] \in Seq(Request)
              /\ DOMAIN asked[c] \subseteq DOMAIN asked'[c]
              /\ Len(asked[c]) + 1 \in DOMAIN asked'[c]
          BY <4>2, <4>3, Appended
        <4>6. \A d \in Clients \ {c} : asked'[d] \in Seq(Request)
          BY <4>3
        <4>7. QED
          BY <4>3, <4>4, <4>5, <4>6
      <3>3. /\ up' \in [Clients -> Seq(Unit)]
            /\ \A i \in DOMAIN up'[c] :
                 \/ i \in DOMAIN up[c] /\ up'[c][i] = up[c][i]
                 \/ up'[c][i][1] = Len(asked[c]) + 1
            /\ \A d \in Clients \ {c} : up'[d] = up[d]
        <4> DEFINE n == Len(asked[c]) + 1
        <4>1. n \in Nat /\ <<n, 1>> \in Unit /\ <<n, 2>> \in Unit
          BY DEF Unit
        <4>2. CASE up' = [up EXCEPT ![c] = @ \o <<<<n, 1>>, <<n, 2>>>>]
          <5>1. <<<<n, 1>>, <<n, 2>>>> \in Seq(Unit)
            BY <4>1
          <5>2. QED
            BY <4>2, <5>1
        <4>3. CASE up' = [up EXCEPT ![c] = Append(@, <<n, 1>>)]
          BY <4>1, <4>3
        <4>4. QED
          BY <2>2, <4>2, <4>3 DEF Ask
      <3>4. client' \in [Clients -> {"new", "connected", "asking", "gone"}]
        BY <2>2 DEF Ask
      <3>5. UNCHANGED <<pc, batch, event, conn, down>>
        BY <2>2 DEF Ask
      <3>6. \A d \in Clients :
              /\ \A i \in DOMAIN up'[d] : up'[d][i][1] \in DOMAIN asked'[d]
              /\ client'[d] = "asking" => asked'[d] # <<>>
        <4>1. ASSUME NEW d \in Clients, NEW i \in DOMAIN up'[d]
              PROVE  up'[d][i][1] \in DOMAIN asked'[d]
          <5>1. CASE d # c
            BY <5>1, <4>1, <3>2, <3>3
          <5>2. CASE d = c /\ i \in DOMAIN up[c] /\ up'[c][i] = up[c][i]
            BY <5>2, <3>2
          <5>3. CASE d = c /\ up'[c][i][1] = Len(asked[c]) + 1
            BY <5>3, <3>2
          <5>4. QED
            BY <5>1, <5>2, <5>3, <4>1, <3>3
        <4>2. ASSUME NEW d \in Clients, client'[d] = "asking"
              PROVE  asked'[d] # <<>>
          <5>1. asked'[c] # <<>>
            BY <3>2
          <5>2. CASE d # c
            BY <5>2, <4>2, <2>2 DEF Ask
          <5>3. QED
            BY <5>1, <5>2
        <4>3. QED
          BY <4>1, <4>2
      <3>7. \A d \in Clients : \A i \in DOMAIN conn'[d].inbuf :
              conn'[d].inbuf[i][1] \in DOMAIN asked'[d]
        <4>1. \A d \in Clients : \A i \in DOMAIN conn[d].inbuf :
                conn[d].inbuf[i][1] \in DOMAIN asked[d]
          OBVIOUS
        <4> HIDE DEF IInv, TypeOK
        <4>2. QED
          BY <4>1, <3>2, <3>5
      <3>8. \A d \in Clients :
              /\ conn'[d].out => conn'[d].st = "open"
              /\ conn'[d].file_obj = NoFile => conn'[d].file_remaining = 0
              /\ Len(down'[d]) <= SendBuffer
        BY <3>5
      <3>9. \A d \in Clients : Consistent(d)'
        <4> HIDE HttpAssumption DEF IInv, TypeOK
        <4> SUFFICES ASSUME NEW d \in Clients PROVE Consistent(d)'
          OBVIOUS
        <4>2. /\ \A i \in DOMAIN up'[d] : up'[d][i][1] \in DOMAIN asked'[d]
              /\ client'[d] = "asking" => asked'[d] # <<>>
          BY <3>6
        <4>3. \A i \in DOMAIN conn'[d].inbuf : conn'[d].inbuf[i][1] \in DOMAIN asked'[d]
          BY <3>7
        <4>4. QED
          BY <4>2, <4>3, <3>8 DEF Consistent
      <3>10. QED
        <4> HIDE DEF Consistent
        <4>1. QED
          BY <3>2, <3>3, <3>4, <3>5, <3>9
    <2>3. CASE AskRest(c)
      <3>1. up' = [up EXCEPT ![c] = Append(@, <<Len(asked[c]), 2>>)]
        BY <2>3 DEF AskRest
      <3>2. <<Len(asked[c]), 2>> \in Unit /\ Len(asked[c]) \in DOMAIN asked[c]
        BY <2>3 DEF AskRest, Unit
      <3>3. /\ up' \in [Clients -> Seq(Unit)]
            /\ \A d \in Clients : \A i \in DOMAIN up'[d] : up'[d][i][1] \in DOMAIN asked[d]
        <4>1. up[c] \in Seq(Unit)
          OBVIOUS
        <4>2. up'[c] = Append(up[c], <<Len(asked[c]), 2>>)
              /\ \A d \in Clients \ {c} : up'[d] = up[d]
          BY <3>1
        <4>3. up' = [d \in Clients |-> up'[d]]
          BY <3>1
        <4>4. <<Len(asked[c]), 2>>[1] = Len(asked[c])
          OBVIOUS
        <4>5. up'[c] \in Seq(Unit)
          BY <4>1, <4>2, <3>2, Appended
        <4>6. \A i \in DOMAIN up'[c] : up'[c][i][1] \in DOMAIN asked[c]
          BY <4>1, <4>2, <4>4, <3>2, Appended
        <4>7. QED
          BY <4>2, <4>3, <4>5, <4>6
      <3>4. QED
        BY <2>3, <3>3 DEF AskRest
    <2>4. CASE Read(c)
      BY <2>4 DEF Read
    <2>5. CASE HangUp(c)
      BY <2>5 DEF HangUp
    <2>6. QED
      BY <2>1, <2>2, <2>3, <2>4, <2>5
  <1>2. UNCHANGED <<pc, batch, event, conn>>
    BY DEF Connect, Ask, AskRest, Read, HangUp
  <1>3. BatchDone' /\ BatchOpen' /\ EventAlive'
    BY <1>2 DEF IInv, BatchDone, BatchOpen, EventAlive, Busy, AtHand
  <1>4. QED
    BY <1>1, <1>3 DEF IInv

(* What epoll_wait returns.                                                *)
LEMMA ReadyFacts ==
  ASSUME TypeOK
  PROVE  /\ \A e \in Ready : e \in Event
         /\ \A e \in Ready : e.sock \in Clients => conn[e.sock].st = "open"
         /\ \A e \in Ready : e.out => e.sock \in Clients
         /\ \A e, f \in Ready : e.sock = f.sock => e = f
  <1> DEFINE L == [sock |-> Listener, in |-> TRUE, out |-> FALSE]
  <1>1. ASSUME NEW c \in Clients
        PROVE  Events(c) \in Event /\ Events(c).sock = c
    <2> DEFINE i == up[c] # <<>> \/ client[c] = "gone"
               o == conn[c].out /\ (Room(c) > 0 \/ client[c] = "gone")
    <2>1. i \in BOOLEAN /\ o \in BOOLEAN
      OBVIOUS
    <2>2. Events(c) = [sock |-> c, in |-> i, out |-> o]
      BY DEF Events
    <2> HIDE DEF i, o
    <2>3. QED
      BY <2>1, <2>2 DEF Event
  <1>2. L \in Event
    BY DEF Event
  <1>3. \A e \in Ready :
          e = L \/ \E c \in Clients : e = Events(c) /\ conn[c].st = "open"
    BY DEF Ready
  <1> HIDE DEF Ready
  <1>4. L.sock = Listener /\ L.out = FALSE /\ Listener \notin Clients
    BY HttpAssumption
  <1> HIDE DEF L
  <1>5. QED
    BY <1>1, <1>2, <1>3, <1>4

(* The loop between the handlers.                                          *)
LEMMA LoopIInv ==
  ASSUME IInv, WaitForEvents \/ NextEvent \/ HandleListener \/ DeleteClosed
                 \/ HandleOutput
  PROVE  IInv'
  <1> USE HttpAssumption DEF Network
  <1>1. CASE WaitForEvents
    <2>1. /\ \A e \in Ready : e \in Event
          /\ \A e \in Ready : e.sock \in Clients => conn[e.sock].st = "open"
          /\ \A e \in Ready : e.out => e.sock \in Clients
          /\ \A e, f \in Ready : e.sock = f.sock => e = f
      BY ReadyFacts DEF IInv
    <2>2. TypeOK'
      BY <1>1, <2>1 DEF WaitForEvents, IInv, TypeOK, Consistent
    <2>3. BatchDone' /\ BatchOpen' /\ EventAlive'
      BY <1>1, <2>1 DEF WaitForEvents, BatchDone, BatchOpen, EventAlive, IInv,
         Busy, AtHand
    <2>4. QED
      BY <2>2, <2>3 DEF IInv
  <1>2. CASE NextEvent
    <2>1. PICK e \in batch : event' = e /\ batch' = batch \ {e}
      BY <1>2 DEF NextEvent
    <2>2. TypeOK'
      BY <1>2, <2>1 DEF NextEvent, IInv, TypeOK, Consistent
    <2>3. BatchDone' /\ BatchOpen'
      BY <1>2, <2>1 DEF NextEvent, IInv, BatchDone, BatchOpen
    <2>4. EventAlive'
      BY <1>2, <2>1 DEF NextEvent, IInv, BatchOpen, EventAlive
    <2>5. QED
      BY <2>2, <2>3, <2>4 DEF IInv
  <1>3. CASE HandleListener
    <2>1. PICK c \in Pending :
            \/ Become(c, [NewConnection EXCEPT !.st = "open"])
            \/ Become(c, [NewConnection EXCEPT !.st = "deleted"])
      BY <1>3 DEF HandleListener
    <2>2. c \in Clients /\ conn[c].st = "none"
      BY DEF Pending
    <2>3. /\ conn' \in [Clients -> Connection]
          /\ \A d \in Clients \ {c} : conn'[d] = conn[d]
          /\ conn'[c].inbuf = <<>> /\ ~conn'[c].out /\ conn'[c].file_remaining = 0
      <3>1. PICK st \in {"open", "deleted"} :
              conn' = [conn EXCEPT ![c] = [NewConnection EXCEPT !.st = st]]
        BY <2>1 DEF Become
      <3>2. conn \in [Clients -> Connection]
        BY DEF IInv, TypeOK
      <3>3. conn'[c] = [NewConnection EXCEPT !.st = st]
        BY <2>2, <3>1, <3>2
      <3>4. QED
        BY <2>2, <3>1, <3>2, <3>3, NewConnections DEF NewConnection
    <2>4. /\ event' \in Event /\ event'.sock = Listener /\ event'.in = FALSE
          /\ event'.out = event.out /\ event.sock = Listener /\ event.in
      BY <1>3 DEF HandleListener, IInv, TypeOK, Event
    <2>5. pc = "event" /\ UNCHANGED <<pc, batch, client, asked, up, down>>
      BY <1>3 DEF HandleListener
    <2>6. \A i \in DOMAIN conn'[c].inbuf : FALSE
      BY <2>3
    <2>7. TypeOK'
      <3>1. \A d \in Clients :
              /\ \A i \in DOMAIN conn'[d].inbuf : conn'[d].inbuf[i][1] \in DOMAIN asked[d]
              /\ conn'[d].out => conn'[d].st = "open"
              /\ conn'[d].file_obj = NoFile => conn'[d].file_remaining = 0
        BY <2>3, <2>6 DEF IInv, TypeOK, Consistent
      <3>2. QED
        BY <3>1, <2>3, <2>4, <2>5 DEF IInv, TypeOK, Consistent
    <2>8. BatchDone' /\ BatchOpen'
      BY <2>2, <2>3, <2>4, <2>5 DEF IInv, BatchDone, BatchOpen, Busy, AtHand
    <2>9. EventAlive'
      BY <2>4, <2>5 DEF IInv, EventAlive
    <2>10. QED
      BY <2>7, <2>8, <2>9 DEF IInv
  <1>4. CASE DeleteClosed
    <2>1. [NewConnection EXCEPT !.st = "deleted"] \in Connection
      BY NewConnections
    <2>2. /\ conn' \in [Clients -> Connection]
          /\ \A c \in Clients : conn'[c] \in {conn[c], [NewConnection EXCEPT !.st = "deleted"]}
      BY <1>4, <2>1 DEF DeleteClosed, IInv, TypeOK
    <2>3. TypeOK'
      BY <1>4, <2>2 DEF DeleteClosed, IInv, TypeOK, Consistent, NewConnection, NoFile
    <2>4. BatchDone' /\ BatchOpen' /\ EventAlive'
      BY <1>4 DEF DeleteClosed, BatchDone, BatchOpen, EventAlive, Busy, AtHand
    <2>5. QED
      BY <2>3, <2>4 DEF IInv
  <1>5. CASE HandleOutput
    <2>1. event' = [event EXCEPT !.out = FALSE] /\ pc' = "send" /\ event.out
      BY <1>5 DEF HandleOutput
    <2>2. /\ event' \in Event /\ event'.sock = event.sock
          /\ event'.in = event.in /\ event'.out = FALSE
      BY <2>1 DEF IInv, TypeOK, Event
    <2>3. UNCHANGED <<batch, conn, client, asked, up, down>>
      BY <1>5 DEF HandleOutput
    <2>4. TypeOK'
      BY <2>1, <2>2, <2>3 DEF IInv, TypeOK, Consistent
    <2>5. BatchDone' /\ BatchOpen' /\ EventAlive'
      BY <2>1, <2>2, <2>3 DEF IInv, BatchDone, BatchOpen, EventAlive, Busy, AtHand
    <2>6. QED
      BY <2>4, <2>5 DEF IInv
  <1>6. QED
    BY <1>1, <1>2, <1>3, <1>4, <1>5

(* It is enough to look at the connection of the event at hand.            *)
LEMMA HandlerIInv ==
  ASSUME IInv, NEW c \in Clients, NEW o \in Connection,
         event.sock = c, Become(c, o), UNCHANGED batch,
         event' = event \/ event' = [event EXCEPT !.in = FALSE],
         Busy, ~event.out, o.st \in {"open", "closed"},
         pc' = "event" \/ (pc' \in {"process", "send"} /\ o.st = "open"),
         UNCHANGED <<client, asked>>,
         up' \in [Clients -> Seq(Unit)], down' \in [Clients -> Seq(Unit)],
         \A d \in Clients \ {c} : up'[d] = up[d] /\ down'[d] = down[d],
         Consistent(c)'
  PROVE  IInv'
  <1>1. /\ conn' \in [Clients -> Connection]
        /\ \A d \in Clients \ {c} : conn'[d] = conn[d]
        /\ BatchDone' /\ BatchOpen' /\ EventAlive'
        /\ event' \in Event /\ pc' \in {"event", "process", "send"}
    BY OwnConnection
  <1>2. ASSUME NEW d \in Clients
        PROVE  Consistent(d)'
    <2>1. CASE d # c
      BY <1>1, <2>1 DEF Consistent, IInv, TypeOK
    <2>2. QED
      BY <2>1
  <1>3. TypeOK'
    BY <1>1, <1>2 DEF IInv, TypeOK
  <1>4. QED
    BY <1>1, <1>3 DEF IInv

LEMMA Joined ==
  ASSUME NEW D, NEW s \in Seq(Unit), NEW t \in Seq(Unit),
         \A i \in DOMAIN s : s[i][1] \in D, \A i \in DOMAIN t : t[i][1] \in D
  PROVE  /\ s \o t \in Seq(Unit)
         /\ \A i \in DOMAIN (s \o t) : (s \o t)[i][1] \in D
  <1>1. s \o t \in Seq(Unit)
    OBVIOUS
  <1>2. ASSUME NEW i \in DOMAIN (s \o t) PROVE (s \o t)[i][1] \in D
    <2>1. CASE i \in DOMAIN s
      BY <2>1
    <2>2. CASE i - Len(s) \in DOMAIN t /\ (s \o t)[i] = t[i - Len(s)]
      BY <2>2
    <2>3. QED
      BY <2>1, <2>2
  <1>3. QED
    BY <1>1, <1>2

(* A handler that changes the connection at hand and not its sockets.      *)
LEMMA OnlyConnection ==
  ASSUME IInv, NEW c \in Clients, NEW o \in Connection,
         event.sock = c, Become(c, o), UNCHANGED <<batch, up, client, asked>>,
         down' \in [Clients -> Seq(Unit)], Len(down'[c]) <= SendBuffer,
         \A d \in Clients \ {c} : down'[d] = down[d],
         event' = event \/ event' = [event EXCEPT !.in = FALSE],
         Busy, ~event.out, o.st \in {"open", "closed"},
         pc' = "event" \/ (pc' \in {"process", "send"} /\ o.st = "open"),
         \A i \in DOMAIN o.inbuf : o.inbuf[i][1] \in DOMAIN asked[c],
         o.out => o.st = "open",
         o.file_obj = NoFile => o.file_remaining = 0
  PROVE  IInv'
  <1>1. conn'[c] = o
    BY DEF Become, IInv, TypeOK
  <1>2. Consistent(c)'
    BY <1>1 DEF Consistent, IInv, TypeOK
  <1>3. up' \in [Clients -> Seq(Unit)]
    BY DEF IInv, TypeOK
  <1>4. QED
    BY <1>2, <1>3, HandlerIInv

LEMMA CloseIInv ==
  ASSUME IInv, NEW c \in Clients, event.sock = c, Busy, ~event.out,
         Become(c, CloseConnection(conn[c])),
         UNCHANGED <<batch, up, down, client, asked>>,
         event' = event \/ event' = [event EXCEPT !.in = FALSE],
         pc' = "event"
  PROVE  IInv'
  <1>1. conn[c] \in Connection /\ Consistent(c) /\ down \in [Clients -> Seq(Unit)]
    BY DEF IInv, TypeOK
  <1> DEFINE o == CloseConnection(conn[c])
  <1>2. /\ o \in Connection /\ o.st = "closed" /\ ~o.out /\ o.inbuf = conn[c].inbuf
        /\ o.file_obj = conn[c].file_obj /\ o.file_remaining = conn[c].file_remaining
    BY <1>1, Closed
  <1> HIDE DEF o
  <1>3. Become(c, o)
    BY DEF o
  <1>4. Len(down[c]) <= SendBuffer /\ \A i \in DOMAIN o.inbuf : o.inbuf[i][1] \in DOMAIN asked[c]
    BY <1>1, <1>2 DEF Consistent
  <1>5. o.file_obj = NoFile => o.file_remaining = 0
    BY <1>1, <1>2 DEF Consistent
  <1>6. QED
    BY <1>1, <1>2, <1>3, <1>4, <1>5, OnlyConnection

LEMMA HandleInputIInv == IInv /\ HandleInput => IInv'
  <1> SUFFICES ASSUME IInv, HandleInput PROVE IInv'
    OBVIOUS
  <1>1. PICK c \in Clients : c = event.sock
    BY DEF HandleInput
  <1> DEFINE o == conn[c]
  <1>2. /\ pc = "event" /\ event.in /\ event.out = FALSE /\ Busy
        /\ event' = [event EXCEPT !.in = FALSE]
        /\ UNCHANGED <<batch, down, client, asked>>
    BY DEF HandleInput, IInv, TypeOK, Event, Busy, AtHand, Network
  <1>3. o \in Connection /\ up[c] \in Seq(Unit) /\ Consistent(c)
    BY <1>1 DEF IInv, TypeOK
  <1>4. CASE /\ o.st = "open"
             /\ Become(c, [o EXCEPT !.inbuf = @ \o up[c]])
             /\ up' = [up EXCEPT ![c] = <<>>]
             /\ pc' = "process"
    <2> DEFINE b == o.inbuf \o up[c]
               q == [o EXCEPT !.inbuf = b]
    <2>1. b \in Seq(Unit) /\ \A i \in DOMAIN b : b[i][1] \in DOMAIN asked[c]
      BY <1>3, Joined DEF Connection, Consistent
    <2> HIDE DEF b
    <2>2. q \in Connection /\ q.inbuf = b /\ q.st = "open" /\ q.out = o.out
          /\ q.file_obj = o.file_obj /\ q.file_remaining = o.file_remaining
      BY <1>3, <1>4, <2>1 DEF Connection
    <2>3. Become(c, q)
      BY <1>4 DEF b
    <2> HIDE DEF q
    <2>4. conn'[c] = q
      BY <2>3 DEF Become, IInv, TypeOK
    <2>5. /\ up' \in [Clients -> Seq(Unit)] /\ up'[c] = <<>>
          /\ \A d \in Clients \ {c} : up'[d] = up[d]
      BY <1>4 DEF IInv, TypeOK
    <2>6. Consistent(c)'
      BY <1>2, <1>3, <2>1, <2>2, <2>4, <2>5 DEF Consistent
    <2>7. down' \in [Clients -> Seq(Unit)] /\ \A d \in Clients : down'[d] = down[d]
      BY <1>2 DEF IInv, TypeOK
    <2>8. QED
      BY <1>1, <1>2, <1>4, <2>2, <2>3, <2>5, <2>6, <2>7, HandlerIInv
  <1>5. CASE Become(c, CloseConnection(o)) /\ UNCHANGED <<pc, up>>
    BY <1>1, <1>2, <1>3, <1>5, CloseIInv
  <1>6. CASE UNCHANGED <<pc, conn, up>>
    <2>1. /\ event' \in Event /\ event'.sock = c /\ event'.in = FALSE
          /\ event'.out = FALSE
      BY <1>1, <1>2 DEF IInv, TypeOK, Event
    <2>2. TypeOK'
      BY <1>2, <1>6, <2>1 DEF IInv, TypeOK, Consistent
    <2>3. BatchDone' /\ BatchOpen' /\ EventAlive'
      BY <1>1, <1>2, <1>6, <2>1 DEF IInv, BatchDone, BatchOpen, EventAlive, Busy, AtHand
    <2>4. QED
      BY <2>2, <2>3 DEF IInv
  <1>7. QED
    BY <1>1, <1>4, <1>5, <1>6 DEF HandleInput

(* The handlers in the middle of a connection.                             *)
LEMMA AtHandler ==
  ASSUME IInv, pc \in {"process", "send"}
  PROVE  /\ event.sock \in Clients /\ conn[event.sock] \in Connection
         /\ conn[event.sock].st = "open" /\ ~event.out /\ Busy
         /\ Consistent(event.sock) /\ down \in [Clients -> Seq(Unit)]
         /\ asked[event.sock] \in Seq(Request)
  BY DEF IInv, TypeOK, EventAlive, Busy

LEMMA ProcessIInv == IInv /\ (Incomplete \/ BadRequest \/ Respond) => IInv'
  <1> SUFFICES ASSUME IInv, Incomplete \/ BadRequest \/ Respond PROVE IInv'
    OBVIOUS
  <1>1. pc = "process"
    BY DEF Incomplete, BadRequest, Respond
  <1>2. PICK c \in Clients : c = event.sock
    BY <1>1, AtHandler
  <1> DEFINE o == conn[c]
  <1>3. /\ o \in Connection /\ o.st = "open" /\ ~event.out /\ Busy /\ Consistent(c)
        /\ down \in [Clients -> Seq(Unit)] /\ asked[c] \in Seq(Request)
    BY <1>1, <1>2, AtHandler
  <1>4. CASE Incomplete
    <2>1. UNCHANGED <<batch, event, conn, client, asked, up, down>> /\ pc' = "event"
      BY <1>4 DEF Incomplete, Network
    <2>2. TypeOK'
      BY <2>1 DEF IInv, TypeOK, Consistent
    <2>3. BatchDone' /\ BatchOpen' /\ EventAlive'
      BY <1>1, <2>1 DEF IInv, BatchDone, BatchOpen, EventAlive, Busy, AtHand
    <2>4. QED
      BY <2>2, <2>3 DEF IInv
  <1>5. CASE BadRequest
    BY <1>2, <1>3, <1>5, CloseIInv DEF BadRequest, Network
  <1>6. CASE Respond
    <2> DEFINE n == o.inbuf[1][1]
               r == asked[c][n]
               rest == SubSeq(o.inbuf, 3, Len(o.inbuf))
               p == ProcessRequest(o, n, r.kind)
               out == o.outbuf \o InMemory(n, r.kind)
               q == [p EXCEPT !.keep_alive = r.keep, !.outbuf = out, !.inbuf = rest]
    <2>1. /\ Become(c, q) /\ pc' \in {"send", "process"} /\ Len(o.inbuf) >= 2
          /\ UNCHANGED <<batch, event, up, down, client, asked>>
      <3>1. Become(c, q)
        <4> DEFINE N(x) == conn[x].inbuf[1][1]
                   Q(x) == [ProcessRequest(conn[x], N(x), asked[x][N(x)].kind) EXCEPT
                              !.keep_alive = asked[x][N(x)].keep,
                              !.outbuf = @ \o InMemory(N(x), asked[x][N(x)].kind),
                              !.inbuf = SubSeq(conn[x].inbuf, 3, Len(conn[x].inbuf))]
        <4>1. Become(event.sock, Q(event.sock))
          BY <1>6 DEF Respond
        <4>2. Q(c) = [p EXCEPT !.keep_alive = r.keep,
                               !.outbuf = p.outbuf \o InMemory(n, r.kind), !.inbuf = rest]
          OBVIOUS
        <4>3. p.outbuf = o.outbuf
          BY <1>3 DEF ProcessRequest, Connection
        <4> HIDE DEF Q, p, rest
        <4>4. QED
          BY <1>2, <4>1, <4>2, <4>3
      <3>2. pc' = (IF rest = <<>> THEN "send" ELSE "process") /\ Len(o.inbuf) >= 2
        BY <1>2, <1>6 DEF Respond, HeaderComplete
      <3>3. UNCHANGED <<batch, event, up, down, client, asked>>
        BY <1>6 DEF Respond, Network
      <3> HIDE DEF q, rest
      <3>4. QED
        BY <3>1, <3>2, <3>3
    <2>2. n \in DOMAIN asked[c] /\ n \in Nat
      <3>1. Len(o.inbuf) >= 2
        BY <2>1
      <3>2. o.inbuf \in Seq(Unit)
        BY <1>3 DEF Connection
      <3>3. 1 \in DOMAIN o.inbuf /\ o.inbuf[1] \in Unit
        <4> DEFINE b == o.inbuf
        <4>1. b \in Seq(Unit) /\ Len(b) >= 2
          BY <3>1, <3>2
        <4> HIDE DEF b
        <4>2. 1 \in DOMAIN b /\ b[1] \in Unit
          BY <4>1
        <4>3. QED
          BY <4>2 DEF b
      <3>4. n \in DOMAIN asked[c]
        BY <1>3, <3>3 DEF Consistent
      <3>5. n \in Nat
        BY <3>3 DEF Unit
      <3>6. QED
        BY <3>4, <3>5
    <2>3. r \in Request
      BY <1>3, <2>2
    <2>4. n # NoFile
      BY <1>3, <2>2 DEF NoFile
    <2>5. InMemory(n, r.kind) \in Seq(Unit)
      <3>1. <<n, 0>> \in Unit /\ <<n, 1>> \in Unit
        BY <2>2 DEF Unit
      <3> HIDE DEF n
      <3>2. <<<<n, 0>>>> \in Seq(Unit) /\ <<<<n, 0>>, <<n, 1>>>> \in Seq(Unit)
        BY <3>1
      <3>3. QED
        BY <3>2 DEF InMemory
    <2>6. out \in Seq(Unit)
      BY <1>3, <2>5 DEF Connection
    <2>7. rest \in Seq(Unit) /\ \A i \in DOMAIN rest : rest[i][1] \in DOMAIN asked[c]
      BY <1>3, Rest DEF Connection, Consistent
    <2>8. /\ p \in Connection /\ p.st = "open" /\ p.out = o.out
          /\ p.file_obj = NoFile => p.file_remaining = 0
      <3>1. p \in {o, [o EXCEPT !.file_obj = n, !.file_remaining = FileUnits],
                   [o EXCEPT !.file_obj = n]}
        BY DEF ProcessRequest
      <3>2. FileUnits \in 0..FileUnits
        BY HttpAssumption
      <3>3. o.file_obj = NoFile => o.file_remaining = 0
        BY <1>3 DEF Consistent
      <3> HIDE DEF p, n, o
      <3>4. CASE p = o
        BY <1>3, <3>3, <3>4
      <3>5. CASE p = [o EXCEPT !.file_obj = n, !.file_remaining = FileUnits]
        BY <1>3, <2>2, <2>4, <3>2, <3>5 DEF Connection
      <3>6. CASE p = [o EXCEPT !.file_obj = n]
        BY <1>3, <2>2, <2>4, <3>6 DEF Connection
      <3>7. QED
        BY <3>1, <3>4, <3>5, <3>6
    <2> HIDE DEF p, rest, out
    <2>9. /\ q \in Connection /\ q.st = "open" /\ q.out = p.out /\ q.inbuf = rest
          /\ q.file_obj = p.file_obj /\ q.file_remaining = p.file_remaining
      BY <2>3, <2>6, <2>7, <2>8 DEF Connection, Request
    <2> HIDE DEF q
    <2>10. QED
      BY <1>2, <1>3, <2>1, <2>7, <2>8, <2>9, OnlyConnection DEF Consistent
  <1>7. QED
    BY <1>4, <1>5, <1>6

LEMMA AbortIInv ==
  ASSUME IInv, NEW c \in Clients, c = event.sock, pc = "send", Abort(c),
         UNCHANGED <<batch, event, up, down, client, asked>>
  PROVE  IInv'
  <1>1. /\ conn[c] \in Connection /\ conn[c].st = "open" /\ ~event.out /\ Busy
        /\ Consistent(c) /\ down \in [Clients -> Seq(Unit)]
    BY AtHandler
  <1> DEFINE o == [conn[c] EXCEPT !.outbuf = <<>>]
             f == CloseFileFd(o)
             q == CloseConnection(f)
  <1>2. o \in Connection /\ o.inbuf = conn[c].inbuf
    <2>1. <<>> \in Seq(Unit)
      OBVIOUS
    <2>2. QED
      BY <1>1, <2>1 DEF Connection
  <1>3. Become(c, q) /\ pc' = "event"
    BY DEF Abort
  <1> HIDE DEF o
  <1>4. f \in Connection /\ f.inbuf = conn[c].inbuf /\ f.file_remaining = 0
    BY <1>2, FileClosed
  <1> HIDE DEF f
  <1>5. /\ q \in Connection /\ q.st = "closed" /\ ~q.out /\ q.inbuf = conn[c].inbuf
        /\ q.file_remaining = 0
    BY <1>4, Closed
  <1> HIDE DEF q
  <1>6. Len(down[c]) <= SendBuffer /\ \A i \in DOMAIN q.inbuf : q.inbuf[i][1] \in DOMAIN asked[c]
    BY <1>1, <1>5 DEF Consistent
  <1>7. QED
    BY <1>1, <1>3, <1>5, <1>6, OnlyConnection

LEMMA SendIInv == IInv /\ Send => IInv'
  <1> SUFFICES ASSUME IInv, Send PROVE IInv'
    OBVIOUS
  <1>1. pc = "send" /\ UNCHANGED <<batch, event, up, client, asked>>
    BY DEF Send, Network
  <1>2. PICK c \in Clients : c = event.sock
    BY <1>1, AtHandler
  <1> DEFINE o == conn[c]
             k == IF Room(c) < Len(o.outbuf) THEN Room(c) ELSE Len(o.outbuf)
  <1>3. /\ o \in Connection /\ o.st = "open" /\ ~event.out /\ Busy /\ Consistent(c)
        /\ down \in [Clients -> Seq(Unit)]
    BY <1>1, <1>2, AtHandler
  <1>4. CASE /\ k > 0 /\ SendRest(c, o, k)
             /\ down' = [down EXCEPT ![c] = @ \o SubSeq(o.outbuf, 1, k)]
    <2>1. /\ k \in 0..Len(o.outbuf) /\ o.outbuf \in Seq(Unit)
          /\ Len(down[c]) + k <= SendBuffer
      BY <1>3, <1>4, HttpAssumption DEF Room, Connection, Consistent
    <2> DEFINE rest == SubSeq(o.outbuf, k + 1, Len(o.outbuf))
               out == IF k = Len(o.outbuf) THEN o.out ELSE TRUE
               q == [o EXCEPT !.outbuf = rest, !.out = out]
    <2>2. Become(c, q) /\ pc' \in {"send", "event"}
      BY <1>4 DEF SendRest
    <2>3. rest \in Seq(Unit) /\ out \in BOOLEAN
      <3>1. k \in Nat /\ o.out \in BOOLEAN
        BY <1>3, <2>1 DEF Connection
      <3> HIDE DEF k, o
      <3>2. rest \in Seq(Unit)
        BY <2>1, <3>1, Rest
      <3>3. out \in BOOLEAN
        BY <3>1
      <3>4. QED
        BY <3>2, <3>3
    <2> HIDE DEF rest, out
    <2>4. /\ q \in Connection /\ q.st = "open" /\ q.inbuf = o.inbuf
          /\ q.file_obj = o.file_obj /\ q.file_remaining = o.file_remaining
      BY <1>3, <2>3 DEF Connection
    <2> HIDE DEF q
    <2>5. /\ down' \in [Clients -> Seq(Unit)] /\ Len(down'[c]) <= SendBuffer
          /\ \A d \in Clients \ {c} : down'[d] = down[d]
      <3>1. SubSeq(o.outbuf, 1, k) \in Seq(Unit) /\ Len(SubSeq(o.outbuf, 1, k)) = k
        BY <2>1, First
      <3> HIDE DEF k
      <3>2. QED
        BY <1>3, <1>4, <2>1, <3>1
    <2>6. QED
      BY <1>1, <1>2, <1>3, <2>2, <2>4, <2>5, OnlyConnection DEF Consistent
  <1>5. CASE Abort(c) /\ UNCHANGED down
    BY <1>1, <1>2, <1>5, AbortIInv
  <1>6. QED
    <2> DEFINE K(x) == IF Room(x) < Len(conn[x].outbuf) THEN Room(x) ELSE Len(conn[x].outbuf)
    <2>1. \/ /\ K(event.sock) > 0 /\ SendRest(event.sock, conn[event.sock], K(event.sock))
             /\ down' = [down EXCEPT ![event.sock] =
                           @ \o SubSeq(conn[event.sock].outbuf, 1, K(event.sock))]
          \/ Abort(event.sock) /\ UNCHANGED down
      BY DEF Send
    <2>2. K(c) = k
      OBVIOUS
    <2> HIDE DEF K, k
    <2>3. QED
      BY <1>2, <1>4, <1>5, <2>1, <2>2

LEMMA ReadFileIInv == IInv /\ ReadFile => IInv'
  <1> SUFFICES ASSUME IInv, ReadFile PROVE IInv'
    OBVIOUS
  <1>1. pc = "send" /\ UNCHANGED <<batch, event, up, down, client, asked>>
    BY DEF ReadFile, Network
  <1>2. PICK c \in Clients : c = event.sock
    BY <1>1, AtHandler
  <1> DEFINE o == conn[c]
             k == IF o.file_remaining < Chunk THEN o.file_remaining ELSE Chunk
             at == FileUnits - o.file_remaining
  <1>3. /\ o \in Connection /\ o.st = "open" /\ ~event.out /\ Busy /\ Consistent(c)
        /\ down \in [Clients -> Seq(Unit)]
    BY <1>1, <1>2, AtHandler
  <1>4. CASE /\ Become(c, [o EXCEPT !.outbuf = [i \in 1..k |-> <<o.file_obj, at + i>>],
                                    !.file_remaining = @ - k])
             /\ UNCHANGED pc
    <2> DEFINE b == [i \in 1..k |-> <<o.file_obj, at + i>>]
               m == o.file_remaining - k
               q == [o EXCEPT !.outbuf = b, !.file_remaining = m]
    <2>1. k \in Nat /\ m \in 0..FileUnits /\ at \in Nat /\ o.file_obj \in Nat
      BY <1>3, HttpAssumption, SMTT(30) DEF Connection
    <2>2. b \in Seq(Unit)
      BY <2>1, SMTT(30) DEF Unit
    <2>3. Become(c, q)
      BY <1>4
    <2> HIDE DEF b, m
    <2>4. /\ q \in Connection /\ q.st = "open" /\ q.out = o.out /\ q.inbuf = o.inbuf
          /\ q.file_obj = o.file_obj /\ q.file_remaining = m
      BY <1>3, <2>1, <2>2 DEF Connection
    <2>5. o.file_obj = NoFile => m = 0
      BY <1>3, HttpAssumption DEF Consistent, m
    <2> HIDE DEF q
    <2>6. QED
      BY <1>1, <1>2, <1>3, <1>4, <2>3, <2>4, <2>5, OnlyConnection DEF Consistent
  <1>5. CASE Abort(c)
    BY <1>1, <1>2, <1>5, AbortIInv
  <1>6. QED
    BY <1>2, <1>4, <1>5 DEF ReadFile

LEMMA SentIInv == IInv /\ Sent => IInv'
  <1> SUFFICES ASSUME IInv, Sent PROVE IInv'
    OBVIOUS
  <1>1. /\ pc = "send" /\ UNCHANGED <<batch, event, up, down, client, asked>>
        /\ pc' = "event"
    BY DEF Sent, Network
  <1>2. PICK c \in Clients : c = event.sock
    BY <1>1, AtHandler
  <1>3. /\ conn[c] \in Connection /\ conn[c].st = "open" /\ ~event.out /\ Busy
        /\ Consistent(c) /\ down \in [Clients -> Seq(Unit)]
    BY <1>1, <1>2, AtHandler
  <1> DEFINE p == [conn[c] EXCEPT !.out = FALSE]
             o == CloseFileFd(p)
             q == IF o.keep_alive THEN o ELSE CloseConnection(o)
  <1>4. Become(c, q)
    BY <1>2 DEF Sent
  <1>5. p \in Connection /\ p.st = "open" /\ ~p.out /\ p.inbuf = conn[c].inbuf
    BY <1>3 DEF Connection
  <1> HIDE DEF p
  <1>6. /\ o \in Connection /\ o.st = "open" /\ ~o.out /\ o.inbuf = conn[c].inbuf
        /\ o.file_remaining = 0
    BY <1>5, FileClosed
  <1> HIDE DEF o
  <1>7. /\ q \in Connection /\ q.st \in {"open", "closed"} /\ ~q.out
        /\ q.inbuf = conn[c].inbuf /\ q.file_remaining = 0
    BY <1>6, Closed
  <1> HIDE DEF q
  <1>8. QED
    BY <1>1, <1>2, <1>3, <1>4, <1>7, OnlyConnection DEF Consistent

LEMMA StepIInv == IInv /\ [Next]_vars => IInv'
  <1> SUFFICES ASSUME IInv, [Next]_vars PROVE IInv'
    OBVIOUS
  <1>1. CASE Server
    BY <1>1, LoopIInv, HandleInputIInv, ProcessIInv, SendIInv, ReadFileIInv, SentIInv
       DEF Server
  <1>2. CASE \E c \in Clients :
               Connect(c) \/ Ask(c) \/ AskRest(c) \/ Read(c) \/ HangUp(c)
    BY <1>2, ClientIInv
  <1>3. CASE TimeOut \/ UNCHANGED vars
    BY <1>3 DEF TimeOut, vars, IInv, TypeOK, Consistent, BatchDone, BatchOpen,
       EventAlive, Busy, AtHand
  <1>4. QED
    BY <1>1, <1>2, <1>3 DEF Next

(* The buffers and files of a connection are always in a state the         *)
(* handlers can go on from: nothing is left to read of a file that is not  *)
(* open, and only open connections are watched for output.                 *)
THEOREM TypeCorrect == Spec => []TypeOK
  <1>1. IInv => TypeOK
    BY DEF IInv
  <1>2. QED
    BY <1>1, InitIInv, StepIInv, PTL DEF Spec

(* No event is handled on a connection that was deleted: the deferral in   *)
(* ONanoServer.CloseConnection is enough for handlers that close their own *)
(* connection.                                                             *)
THEOREM DeletionCorrect == Spec => []NoDeletedInUse
  <1>1. IInv => NoDeletedInUse
    BY DEF IInv, NoDeletedInUse, BatchOpen, EventAlive, Busy
  <1>2. QED
    BY <1>1, InitIInv, StepIInv, PTL DEF Spec

-----------------------------------------------------------------------------
(* Beginnings of what is due.                                              *)
LEMMA BeginningOfBeginning ==
  ASSUME NEW due \in SUBSET Unit, NEW s \in Seq(Unit), NEW t \in Seq(Unit),
         IsBeginning(s \o t, due)
  PROVE  IsBeginning(s, due)
  <1>1. /\ Len(s \o t) = Len(s) + Len(t)
        /\ \A i \in 1..Len(s) : (s \o t)[i] = s[i]
    BY ConcatProperties
  <1>2. \A i \in 1..Len(s) : i \in DOMAIN (s \o t) /\ \A j \in 1..(i - 1) : (s \o t)[j] = s[j]
    BY <1>1
  <1>3. ASSUME NEW i \in DOMAIN s
        PROVE  /\ s[i] \in due
               /\ \A u \in due : Before(u, s[i]) <=> \E j \in 1..(i - 1) : s[j] = u
    <2>1. i \in 1..Len(s)
      OBVIOUS
    <2>2. /\ (s \o t)[i] \in due
          /\ \A u \in due : Before(u, (s \o t)[i]) <=> \E j \in 1..(i - 1) : (s \o t)[j] = u
      BY <1>2, <2>1 DEF IsBeginning
    <2>3. QED
      BY <1>1, <1>2, <2>1, <2>2
  <1>4. QED
    BY <1>3 DEF IsBeginning

(* More may become due, after what is due already.                         *)
LEMMA BeginningOfMore ==
  ASSUME NEW due \in SUBSET Unit, NEW more \in SUBSET Unit, NEW s \in Seq(Unit),
         IsBeginning(s, due), due \subseteq more,
         \A u \in more \ due : \A v \in due : v[1] < u[1]
  PROVE  IsBeginning(s, more)
  <1>1. \A u \in more \ due : \A v \in due : ~Before(u, v)
    BY DEF Before, Unit
  <1>2. ASSUME NEW i \in DOMAIN s, NEW u \in more \ due
        PROVE  ~Before(u, s[i]) /\ ~ \E j \in 1..(i - 1) : s[j] = u
    BY <1>1 DEF IsBeginning
  <1>3. QED
    BY <1>2 DEF IsBeginning

(* When all that is due is in the first part, there is no second.          *)
LEMMA NothingAfterAll ==
  ASSUME NEW due \in SUBSET Unit, NEW s \in Seq(Unit), NEW t \in Seq(Unit),
         IsBeginning(s \o t, due), due \subseteq Range(s)
  PROVE  t = <<>>
  <1> SUFFICES ASSUME t # <<>> PROVE FALSE
    OBVIOUS
  <1> DEFINE n == Len(s) + 1
  <1>1. /\ n \in DOMAIN (s \o t)
        /\ \A i \in 1..Len(s) : (s \o t)[i] = s[i]
    BY ConcatProperties
  <1> DEFINE u == (s \o t)[n]
  <1>2. u \in due /\ u \in Unit
    BY <1>1 DEF IsBeginning
  <1>3. PICK j \in DOMAIN s : s[j] = u
    BY <1>2 DEF Range
  <1>4. j \in 1..(n - 1) /\ (s \o t)[j] = u
    BY <1>1, <1>3
  <1>5. Before(u, u)
    <2>1. \A v \in due : Before(v, u) <=> \E i \in 1..(n - 1) : (s \o t)[i] = v
      BY <1>1 DEF IsBeginning
    <2>2. QED
      BY <1>2, <1>4, <2>1
  <1>6. QED
    BY <1>2, <1>5, SMTT(30) DEF Before, Unit

(* Everything before part a of the answer to n, the last request; the      *)
(* parts from a on.                                                        *)
Until(s, due, n, a) ==
  /\ IsBeginning(s, due)
  /\ \A u \in due : u[1] <= n
  /\ Range(s) = {u \in due : u[1] < n \/ u[2] < a}

From(t, due, n, a) == \A i \in 1..Len(t) : t[i] = <<n, a + i - 1>> /\ t[i] \in due

(* The next parts of the answer to the last request are appended.          *)
LEMMA Continued ==
  ASSUME NEW due \in SUBSET Unit, NEW n \in Nat, NEW a \in Nat,
         NEW s \in Seq(Unit), NEW t \in Seq(Unit),
         Until(s, due, n, a), From(t, due, n, a)
  PROVE  Until(s \o t, due, n, a + Len(t))
  <1> USE DEF Until, From
  <1> DEFINE q == s \o t
  <1>1. /\ q \in Seq(Unit) /\ Len(q) = Len(s) + Len(t)
        /\ \A i \in 1..Len(q) : q[i] = IF i <= Len(s) THEN s[i] ELSE t[i - Len(s)]
    BY ConcatProperties
  <1>2. Len(s) \in Nat /\ Len(t) \in Nat /\ DOMAIN s = 1..Len(s) /\ DOMAIN q = 1..Len(q)
    BY <1>1
  <1>3. /\ \A i \in 1..Len(s) : i \in 1..Len(q) /\ q[i] = s[i]
        /\ \A i \in 1..Len(t) : Len(s) + i \in 1..Len(q) /\ q[Len(s) + i] = t[i]
    BY <1>1, <1>2
  <1> HIDE DEF q
  <1>4. ASSUME NEW u \in due, u[1] = n, NEW b \in Nat, a <= u[2], u[2] < a + b, b <= Len(t)
        PROVE  \E i \in 1..b : t[i] = u
    <2> DEFINE i == u[2] - a + 1
    <2>1. u = <<u[1], u[2]>> /\ u[2] \in Nat
      BY DEF Unit
    <2>2. i \in 1..b /\ i \in 1..Len(t) /\ a + i - 1 = u[2]
      BY <1>4, <2>1, <1>2
    <2>3. t[i] = <<n, u[2]>>
      BY <2>2
    <2>4. QED
      BY <1>4, <2>1, <2>2, <2>3
  <1>5. ASSUME NEW i \in 1..Len(q)
        PROVE  /\ q[i] \in due
               /\ \A u \in due : Before(u, q[i]) <=> \E j \in 1..(i - 1) : q[j] = u
    <2>1. CASE i <= Len(s)
      <3>1. i \in 1..Len(s) /\ q[i] = s[i]
        BY <1>2, <1>3, <2>1
      <3>2. \A j \in 1..(i - 1) : q[j] = s[j]
        BY <1>2, <1>3, <3>1
      <3>3. QED
        BY <1>2, <3>1, <3>2 DEF IsBeginning
    <2>2. CASE i > Len(s)
      <3> DEFINE k == i - Len(s)
      <3>1. k \in 1..Len(t) /\ q[i] = t[k] /\ q[i] = <<n, a + k - 1>> /\ q[i] \in due
        BY <1>1, <1>2, <1>3, <2>2
      <3>5. i = Len(s) + k
        BY <1>2
      <3> HIDE DEF k
      <3>2. ASSUME NEW u \in due, Before(u, q[i]) PROVE \E j \in 1..(i - 1) : q[j] = u
        <4>1. u[1] \in Nat /\ u[2] \in Nat /\ u[1] <= n
          BY DEF Unit
        <4>2. u[1] < n \/ (u[1] = n /\ u[2] < a + (k - 1))
          BY <3>1, <3>2, <4>1 DEF Before
        <4>3. CASE u[1] < n \/ u[2] < a
          <5>1. PICK j \in DOMAIN s : s[j] = u
            BY <4>3 DEF Range
          <5>2. j \in 1..(i - 1) /\ q[j] = u
            BY <1>2, <1>3, <2>2, <5>1
          <5>3. QED
            BY <5>2
        <4>4. CASE u[1] = n /\ a <= u[2]
          <5>1. k - 1 \in Nat /\ k - 1 <= Len(t)
            BY <3>1, <1>2
          <5>2. PICK j \in 1..(k - 1) : t[j] = u
            BY <1>4, <4>2, <4>4, <5>1, <4>1
          <5>3. Len(s) + j \in 1..(i - 1) /\ q[Len(s) + j] = u
            BY <1>2, <1>3, <3>1, <3>5, <5>1, <5>2
          <5>4. QED
            BY <5>3
        <4>5. QED
          BY <4>1, <4>2, <4>3, <4>4
      <3>3. ASSUME NEW j \in 1..(i - 1) PROVE Before(q[j], q[i])
        <4>1. CASE j <= Len(s)
          <5>1. j \in DOMAIN s /\ q[j] = s[j]
            BY <1>2, <1>3, <4>1, SMTT(30)
          <5>2. q[j] \in Range(s)
            BY <5>1 DEF Range
          <5>3. q[j] \in due /\ q[j] \in Unit /\ q[j][1] <= n /\ (q[j][1] < n \/ q[j][2] < a)
            BY <5>2
          <5>4. QED
            BY <3>1, <5>3, SMTT(30) DEF Before, Unit
        <4>2. CASE j > Len(s)
          <5> DEFINE l == j - Len(s)
          <5>1. l \in 1..Len(t) /\ j \in 1..Len(q) /\ l < k /\ j = Len(s) + l
            BY <1>1, <1>2, <4>2 DEF k
          <5>2. q[j] = <<n, a + l - 1>>
            BY <1>3, <5>1
          <5>3. a + l - 1 < a + k - 1
            BY <5>1, <3>1, <1>2
          <5>4. QED
            BY <3>1, <5>2, <5>3 DEF Before
        <4>3. QED
          BY <4>1, <4>2, <1>2
      <3>4. QED
        BY <3>1, <3>2, <3>3
    <2>3. QED
      BY <2>1, <2>2, <1>2
  <1>6. IsBeginning(q, due)
    BY <1>2, <1>5 DEF IsBeginning
  <1>7. ASSUME NEW u PROVE u \in Range(q) <=> u \in due /\ (u[1] < n \/ u[2] < a + Len(t))
    <2>1. u \in Range(q) <=> u \in Range(s) \/ \E i \in 1..Len(t) : t[i] = u
      <3>1. u \in Range(q) <=> \E i \in 1..Len(q) : q[i] = u
        BY <1>2 DEF Range
      <3>2. u \in Range(s) <=> \E i \in 1..Len(s) : s[i] = u
        BY <1>2 DEF Range
      <3>3. ASSUME NEW i \in 1..Len(q), q[i] = u
            PROVE  (\E j \in 1..Len(s) : s[j] = u) \/ \E j \in 1..Len(t) : t[j] = u
        <4>1. CASE i <= Len(s)
          BY <1>1, <1>2, <3>3, <4>1
        <4>2. CASE i > Len(s)
          <5>1. i - Len(s) \in 1..Len(t) /\ t[i - Len(s)] = u
            BY <1>1, <1>2, <3>3, <4>2
          <5>2. QED
            BY <5>1
        <4>3. QED
          BY <4>1, <4>2, <1>2
      <3>4. QED
        BY <3>1, <3>2, <3>3, <1>3
    <2>2. CASE u \in due
      <3>1. u[1] \in Nat /\ u[2] \in Nat /\ u[1] <= n
        BY <2>2 DEF Unit
      <3>2. ASSUME NEW i \in 1..Len(t), t[i] = u PROVE u[2] < a + Len(t)
        <4>1. u[2] = a + i - 1
          BY <3>2
        <4>2. QED
          BY <4>1, <1>2
      <3>3. u[1] = n /\ a <= u[2] /\ u[2] < a + Len(t) => \E i \in 1..Len(t) : t[i] = u
        BY <2>2, <1>2, <1>4
      <3>4. u \in Range(s) <=> u[1] < n \/ u[2] < a
        BY <2>2
      <3>5. QED
        BY <2>1, <2>2, <3>1, <3>2, <3>3, <3>4, <1>2
    <2>3. QED
      BY <2>1, <2>2
  <1>8. Range(q) = {u \in due : u[1] < n \/ u[2] < a + Len(t)}
    BY <1>7
  <1>9. QED
    BY <1>6, <1>8 DEF q

(* What the client has read, what is on its way and what waits to be sent; *)
(* what has been asked and not yet been processed.                         *)
Output(c) == got[c] \o down[c] \o conn[c].outbuf
Stream(c) == conn[c].inbuf \o up[c]

(* A request is not processed yet.  If it is not one the server gives up   *)
(* on, it is the only one, and everything before it has been sent.         *)
Waiting(c) ==
  LET m == Stream(c)[1][1]
  IN  /\ conn[c].outbuf = <<>> /\ conn[c].file_remaining = 0
      /\ m \in DOMAIN asked[c]
      /\ asked[c][m].kind # "bad" =>
           /\ m = Len(asked[c]) /\ Len(Stream(c)) <= 2
           /\ client[c] = "asking" => Len(Stream(c)) = 1
           /\ Range(Output(c)) = {u \in Due(c) : u[1] < m}

(* All requests are processed: what is left to send is the rest of a file. *)
Serving(c) ==
  /\ client[c] # "asking"
  /\ conn[c].file_remaining = 0 => Range(Output(c)) = Due(c)
  /\ conn[c].file_remaining > 0 =>
       /\ asked[c] # <<>> /\ asked[c][Len(asked[c])].kind = "file"
       /\ conn[c].file_obj = Len(asked[c])
       /\ Range(Output(c)) = {u \in Due(c) : u[1] < Len(asked[c])
                                          \/ u[2] <= FileUnits - conn[c].file_remaining}

Answering(c) ==
  /\ IsBeginning(Output(c), Due(c))
  /\ conn[c].st \in {"none", "open"} => IF Stream(c) # <<>> THEN Waiting(c) ELSE Serving(c)
  /\ conn[c].st = "none" => conn[c] = NewConnection
  /\ conn[c].st = "deleted" => conn[c].outbuf = <<>> /\ conn[c].file_remaining = 0

(* Output waits for a handler, or the handler is running.                  *)
Owes(c) == conn[c].outbuf # <<>> \/ conn[c].file_remaining > 0

Attended(c) ==
  /\ Owes(c) => conn[c].out \/ (pc = "send" /\ event.sock = c) \/ conn[c].st = "closed"
  /\ pc = "wait" => conn[c].st # "closed"

GotOK == got \in [Clients -> Seq(Unit)]

AInv == IInv /\ GotOK /\ \A c \in Clients : Answering(c) /\ Attended(c)

LEMMA InitAInv == Init => AInv
  <1> SUFFICES ASSUME Init PROVE AInv
    OBVIOUS
  <1>1. IInv /\ GotOK
    BY InitIInv DEF Init, GotOK
  <1>2. ASSUME NEW c \in Clients PROVE Answering(c) /\ Attended(c)
    <2>1. /\ got[c] = <<>> /\ down[c] = <<>> /\ up[c] = <<>> /\ asked[c] = <<>>
          /\ conn[c] = NewConnection /\ client[c] = "new" /\ pc = "wait"
      BY DEF Init
    <2>2. /\ conn[c].outbuf = <<>> /\ conn[c].inbuf = <<>> /\ conn[c].file_remaining = 0
          /\ conn[c].st = "none"
      BY <2>1 DEF NewConnection
    <2>3. <<>> \o <<>> = <<>>
      OBVIOUS
    <2>4. Output(c) = <<>> /\ Stream(c) = <<>>
      BY <2>1, <2>2, <2>3 DEF Output, Stream
    <2>5. Due(c) = {} /\ Range(Output(c)) = {}
      BY <2>1, <2>4 DEF Due, Range
    <2>6. IsBeginning(Output(c), Due(c))
      BY <2>4 DEF IsBeginning
    <2>7. QED
      BY <2>1, <2>2, <2>4, <2>5, <2>6 DEF Answering, Attended, Owes, Serving
  <1>3. QED
    BY <1>1, <1>2 DEF AInv

(* What is due are units of the requests so far.                           *)
DueView ==
  \A c \in Clients :
    /\ Due(c) \in SUBSET Unit
    /\ \A n \in Nat, i \in Nat :
         <<n, i>> \in Due(c) <=> n \in 1..Len(asked[c]) /\ i \in Parts(asked[c][n].kind)
    /\ \A u \in Due(c) : u[1] \in 1..Len(asked[c]) /\ u[2] \in Parts(asked[c][u[1]].kind)

LEMMA DueFacts == TypeOK => DueView
  <1> SUFFICES ASSUME TypeOK, NEW c \in Clients
               PROVE  /\ Due(c) \in SUBSET Unit
                      /\ \A n \in Nat, i \in Nat :
                           <<n, i>> \in Due(c) <=> n \in 1..Len(asked[c]) /\ i \in Parts(asked[c][n].kind)
                      /\ \A u \in Due(c) : u[1] \in 1..Len(asked[c]) /\ u[2] \in Parts(asked[c][u[1]].kind)
    BY DEF DueView
  <1>1. DOMAIN asked[c] = 1..Len(asked[c]) /\ Len(asked[c]) \in Nat
    BY DEF TypeOK
  <1>2. \A kind : Parts(kind) \subseteq Nat
    BY HttpAssumption DEF Parts
  <1>3. \A u : u \in Due(c) <=> \E n \in 1..Len(asked[c]) : u \in {n} \X Parts(asked[c][n].kind)
    BY <1>1 DEF Due
  <1>4. QED
    BY <1>1, <1>2, <1>3 DEF Unit

LEMMA DueFactsNext == TypeOK' => DueView'
  BY DueFacts, PTL

LEMMA AFacts ==
  ASSUME AInv, NEW c \in Clients
  PROVE  /\ got[c] \in Seq(Unit) /\ down[c] \in Seq(Unit) /\ up[c] \in Seq(Unit)
         /\ asked[c] \in Seq(Request) /\ conn[c] \in Connection
         /\ conn[c].outbuf \in Seq(Unit) /\ conn[c].inbuf \in Seq(Unit)
         /\ conn[c].file_remaining \in 0..FileUnits
         /\ Output(c) \in Seq(Unit) /\ Stream(c) \in Seq(Unit)
         /\ Due(c) \in SUBSET Unit
         /\ Answering(c) /\ Attended(c) /\ Consistent(c)
  <1>1. /\ got[c] \in Seq(Unit) /\ down[c] \in Seq(Unit) /\ up[c] \in Seq(Unit)
        /\ asked[c] \in Seq(Request) /\ conn[c] \in Connection
        /\ Answering(c) /\ Attended(c) /\ Consistent(c)
    BY DEF AInv, IInv, TypeOK, GotOK
  <1>2. /\ conn[c].outbuf \in Seq(Unit) /\ conn[c].inbuf \in Seq(Unit)
        /\ conn[c].file_remaining \in 0..FileUnits
    BY <1>1 DEF Connection
  <1>3. Output(c) \in Seq(Unit) /\ Stream(c) \in Seq(Unit)
    BY <1>1, <1>2, ConcatProperties DEF Output, Stream
  <1>4. Due(c) \in SUBSET Unit
    BY DueFacts DEF DueView, AInv, IInv
  <1>5. QED
    BY <1>1, <1>2, <1>3, <1>4

(* Nothing of what a client was to get has changed.                        *)
LEMMA SameAnswer ==
  ASSUME NEW c \in Clients, Answering(c),
         Output(c)' = Output(c), Stream(c)' = Stream(c), asked'[c] = asked[c],
         conn'[c].st \in {"none", "open"} => conn[c].st \in {"none", "open"},
         conn'[c].st = "none" => conn'[c] = NewConnection,
         conn'[c].st = "deleted" => conn[c].st = "deleted",
         conn[c].outbuf = <<>> => conn'[c].outbuf = <<>>,
         conn'[c].file_remaining = conn[c].file_remaining,
         conn[c].file_remaining > 0 => conn'[c].file_obj = conn[c].file_obj,
         client'[c] = "asking" => client[c] = "asking"
  PROVE  Answering(c)'
  <1>1. Due(c)' = Due(c)
    BY DEF Due
  <1>2. IsBeginning(Output(c), Due(c))' 
    BY <1>1 DEF Answering, IsBeginning
  <1>3. Waiting(c) => Waiting(c)'
    BY <1>1 DEF Waiting
  <1>4. Serving(c) => Serving(c)'
    BY <1>1 DEF Serving
  <1>5. QED
    BY <1>2, <1>3, <1>4 DEF Answering

(* The server gives a client up.                                           *)
LEMMA GivenUp ==
  ASSUME NEW c \in Clients, asked'[c] = asked[c],
         IsBeginning(Output(c)', Due(c)), conn'[c].st \in {"closed", "deleted"},
         conn'[c].st = "deleted" => conn'[c].outbuf = <<>> /\ conn'[c].file_remaining = 0
  PROVE  Answering(c)'
  <1>1. Due(c)' = Due(c)
    BY DEF Due
  <1>2. IsBeginning(Output(c), Due(c))' 
    BY <1>1 DEF IsBeginning
  <1>3. QED
    BY <1>2 DEF Answering

(* A step of the server for one client.                                    *)
LEMMA HandlerAInv ==
  ASSUME AInv, IInv', NEW c \in Clients,
         pc # "send" \/ event.sock = c, UNCHANGED <<client, asked, got>>,
         \A d \in Clients \ {c} : conn'[d] = conn[d] /\ up'[d] = up[d] /\ down'[d] = down[d],
         pc' # "wait", Answering(c)',
         Owes(c)' => conn'[c].out \/ (pc' = "send" /\ event'.sock = c) \/ conn'[c].st = "closed"
  PROVE  AInv'
  <1>1. GotOK'
    BY DEF AInv, GotOK
  <1>2. ASSUME NEW d \in Clients \ {c} PROVE Answering(d)' /\ Attended(d)'
    <2>1. Answering(d) /\ Attended(d) /\ d \in Clients
      BY DEF AInv
    <2>2. Output(d)' = Output(d) /\ Stream(d)' = Stream(d)
      BY DEF Output, Stream
    <2>3. Answering(d)'
      BY <2>1, <2>2, SameAnswer DEF Answering
    <2>4. Attended(d)'
      BY <2>1 DEF Attended, Owes
    <2>5. QED
      BY <2>3, <2>4
  <1>3. Attended(c)'
    BY DEF Attended
  <1>4. QED
    BY <1>1, <1>2, <1>3 DEF AInv

(* The clients.                                                            *)
LEMMA ReadMoves ==
  ASSUME NEW g \in Seq(Unit), NEW d \in Seq(Unit), NEW o \in Seq(Unit), d # <<>>
  PROVE  Append(g, Head(d)) \o Tail(d) \o o = g \o d \o o
  <1>1. Head(d) \in Unit /\ Tail(d) \in Seq(Unit)
    OBVIOUS
  <1>2. d = <<Head(d)>> \o Tail(d)
    OBVIOUS
  <1>3. Append(g, Head(d)) = g \o <<Head(d)>>
    BY <1>1, AppendIsConcat
  <1>4. <<Head(d)>> \in Seq(Unit)
    BY <1>1
  <1>5. (g \o <<Head(d)>>) \o Tail(d) = g \o (<<Head(d)>> \o Tail(d))
    BY <1>1, <1>4, ConcatAssociative, SMTT(30)
  <1>6. QED
    BY <1>2, <1>3, <1>5

LEMMA Regrouped ==
  ASSUME NEW s \in Seq(Unit), NEW t \in Seq(Unit), NEW u \in Seq(Unit)
  PROVE  (s \o t) \o u = s \o (t \o u)
  BY ConcatAssociative

LEMMA Together ==
  ASSUME NEW s \in Seq(Unit), NEW t \in Seq(Unit)
  PROVE  /\ s \o t \in Seq(Unit) /\ Len(s \o t) = Len(s) + Len(t)
         /\ Range(s) \subseteq Range(s \o t)
         /\ s \o t = <<>> => s = <<>> /\ t = <<>>
         /\ t = <<>> => s \o t = s
         /\ s = <<>> => s \o t = t
         /\ s # <<>> => (s \o t)[1] = s[1]
  <1>1. /\ s \o t \in Seq(Unit) /\ Len(s \o t) = Len(s) + Len(t)
        /\ \A i \in 1..Len(s) : (s \o t)[i] = s[i]
    BY ConcatProperties
  <1>2. \A i \in DOMAIN s : i \in DOMAIN (s \o t) /\ (s \o t)[i] = s[i]
    BY <1>1
  <1>3. Range(s) \subseteq Range(s \o t)
    BY <1>2 DEF Range
  <1>4. /\ s \o t = <<>> => s = <<>> /\ t = <<>>
        /\ t = <<>> => s \o t = s
        /\ s = <<>> => s \o t = t
        /\ s # <<>> => (s \o t)[1] = s[1]
    BY <1>1
  <1>5. QED
    BY <1>1, <1>3, <1>4

LEMMA AskAnswers ==
  ASSUME AInv, IInv', Pipelining = FALSE, NEW c \in Clients, Ask(c)
  PROVE  Answering(c)'
  <1> DEFINE N == Len(asked[c])
  <1>1. PICK kind \in Kinds[c], keep \in BOOLEAN :
          asked' = [asked EXCEPT ![c] = Append(@, [kind |-> kind, keep |-> keep])]
    BY DEF Ask
  <1>2. /\ UNCHANGED <<conn, down, got>>
        /\ Answered(c) /\ client[c] = "connected"
    BY DEF Ask
  <1>3. /\ got[c] \in Seq(Unit) /\ down[c] \in Seq(Unit) /\ up[c] \in Seq(Unit)
        /\ asked[c] \in Seq(Request) /\ conn[c] \in Connection
        /\ conn[c].outbuf \in Seq(Unit) /\ conn[c].inbuf \in Seq(Unit)
        /\ conn[c].file_remaining \in 0..FileUnits
        /\ Output(c) \in Seq(Unit) /\ Stream(c) \in Seq(Unit)
        /\ Due(c) \in SUBSET Unit /\ Answering(c)
    BY AFacts
  <1>4. /\ N \in Nat /\ DOMAIN asked[c] = 1..N
        /\ asked'[c] \in Seq(Request) /\ Len(asked'[c]) = N + 1 /\ DOMAIN asked'[c] = 1..(N + 1)
        /\ \A i \in 1..N : asked'[c][i] = asked[c][i]
    <2>1. [kind |-> kind, keep |-> keep] \in Request
      BY <1>1, HttpAssumption DEF Request
    <2>2. asked'[c] = Append(asked[c], [kind |-> kind, keep |-> keep])
      BY <1>1 DEF AInv, IInv, TypeOK
    <2>3. QED
      BY <1>3, <2>1, <2>2
  <1>5. /\ Due(c) \in SUBSET Unit
        /\ \A n \in Nat, i \in Nat :
             <<n, i>> \in Due(c) <=> n \in 1..N /\ i \in Parts(asked[c][n].kind)
        /\ \A u \in Due(c) : u[1] \in 1..N /\ u[2] \in Parts(asked[c][u[1]].kind)
    BY DueFacts DEF DueView, AInv, IInv
  <1>6. /\ Due(c)' \in SUBSET Unit
        /\ \A n \in Nat, i \in Nat :
             <<n, i>> \in Due(c)' <=> n \in 1..(N + 1) /\ i \in Parts(asked'[c][n].kind)
        /\ \A u \in Due(c)' : u[1] \in 1..(N + 1) /\ u[2] \in Parts(asked'[c][u[1]].kind)
    <2>1. DueView'
      BY DueFactsNext DEF IInv
    <2>2. QED
      BY <1>4, <2>1 DEF DueView
  <1>7. \A u \in Unit : u \in Due(c) <=> u \in Due(c)' /\ u[1] < N + 1
    <2>1. ASSUME NEW u \in Unit PROVE u \in Due(c) <=> u \in Due(c)' /\ u[1] < N + 1
      <3>1. u = <<u[1], u[2]>> /\ u[1] \in Nat /\ u[2] \in Nat
        BY DEF Unit
      <3>2. u \in Due(c) <=> u[1] \in 1..N /\ u[2] \in Parts(asked[c][u[1]].kind)
        BY <1>5, <3>1
      <3>3. u \in Due(c)' <=> u[1] \in 1..(N + 1) /\ u[2] \in Parts(asked'[c][u[1]].kind)
        BY <1>6, <3>1
      <3>4. u[1] \in 1..N <=> u[1] \in 1..(N + 1) /\ u[1] < N + 1
        BY <1>4, <3>1
      <3>5. QED
        BY <1>4, <3>1, <3>2, <3>3, <3>4
    <2>2. QED
      BY <2>1
  <1>8. Output(c)' = Output(c)
    BY <1>2 DEF Output
  <1>9. IsBeginning(Output(c)', Due(c)')
    <2>1. Due(c) \subseteq Due(c)'
      BY <1>5, <1>7
    <2>2. ASSUME NEW u \in Due(c)' \ Due(c), NEW v \in Due(c) PROVE v[1] < u[1]
      <3>1. ~(u[1] < N + 1) /\ v[1] \in 1..N /\ u[1] \in 1..(N + 1)
        BY <1>5, <1>6, <1>7
      <3>2. QED
        BY <1>4, <3>1
    <2>3. QED
      BY <1>3, <1>6, <1>8, <2>1, <2>2, BeginningOfMore DEF Answering
  <1>10. PICK q \in Seq(Unit) :
           /\ up'[c] = up[c] \o q /\ q[1] = <<N + 1, 1>> /\ Len(q) \in {1, 2}
           /\ client'[c] = "asking" => Len(q) = 1
    <2> DEFINE n == N + 1
    <2>1. <<n, 1>> \in Unit /\ <<n, 2>> \in Unit
      BY <1>4 DEF Unit
    <2>2. CASE /\ up' = [up EXCEPT ![c] = @ \o <<<<n, 1>>, <<n, 2>>>>]
               /\ UNCHANGED client
      <3>1. up'[c] = up[c] \o <<<<n, 1>>, <<n, 2>>>>
        BY <2>2 DEF AInv, IInv, TypeOK
      <3>2. <<<<n, 1>>, <<n, 2>>>> \in Seq(Unit)
        BY <2>1
      <3>3. client'[c] # "asking"
        BY <1>2, <2>2
      <3> WITNESS <<<<n, 1>>, <<n, 2>>>> \in Seq(Unit)
      <3>4. QED
        BY <3>1, <3>3
    <2>3. CASE up' = [up EXCEPT ![c] = Append(@, <<n, 1>>)]
      <3>1. up'[c] = up[c] \o <<<<n, 1>>>>
        BY <1>3, <2>1, <2>3, AppendIsConcat DEF AInv, IInv, TypeOK
      <3>2. <<<<n, 1>>>> \in Seq(Unit)
        BY <2>1
      <3> WITNESS <<<<n, 1>>>> \in Seq(Unit)
      <3>3. QED
        BY <3>1
    <2>4. QED
      BY <2>2, <2>3 DEF Ask
  <1>11. Stream(c)' = Stream(c) \o q
    <2>1. Stream(c)' = conn[c].inbuf \o (up[c] \o q)
      BY <1>2, <1>10 DEF Stream
    <2>2. conn[c].inbuf \in Seq(Unit) /\ up[c] \in Seq(Unit)
      BY <1>3
    <2>3. (conn[c].inbuf \o up[c]) \o q = conn[c].inbuf \o (up[c] \o q)
      BY <2>2, Regrouped
    <2>4. QED
      BY <2>1, <2>3 DEF Stream
  <1>12. Stream(c)' # <<>> /\ Stream(c)' \in Seq(Unit)
    BY <1>3, <1>10, <1>11, Together
  <1>13. ASSUME conn[c].st \in {"none", "open"} PROVE Waiting(c)'
    <2>1. CASE Stream(c) # <<>>
      <3> DEFINE m == Stream(c)[1][1]
      <3>1. /\ conn[c].outbuf = <<>> /\ conn[c].file_remaining = 0
            /\ m \in 1..N
            /\ asked[c][m].kind # "bad" =>
                 Range(Output(c)) = {u \in Due(c) : u[1] < m}
        BY <1>3, <1>4, <1>13, <2>1 DEF Answering, Waiting
      <3>2. asked[c][m].kind = "bad"
        <4> SUFFICES ASSUME asked[c][m].kind # "bad" PROVE FALSE
          OBVIOUS
        <4>1. 0 \in Parts(asked[c][m].kind)
          BY HttpAssumption DEF Parts
        <4>2. <<m, 0>> \in Due(c)
          BY <1>4, <1>5, <3>1, <4>1
        <4>3. <<m, 0>> \in Range(got[c])
          BY <1>2, <4>2 DEF Answered
        <4>4. Range(got[c]) \subseteq Range(Output(c))
          <5>1. got[c] \o down[c] \in Seq(Unit) /\ Range(got[c]) \subseteq Range(got[c] \o down[c])
            BY <1>3, Together
          <5>2. Range(got[c] \o down[c]) \subseteq Range(Output(c))
            BY <1>3, <5>1, Together DEF Output
          <5>3. QED
            BY <5>1, <5>2
        <4>5. <<m, 0>>[1] < m
          BY <3>1, <4>3, <4>4
        <4>6. QED
          BY <1>4, <3>1, <4>5
      <3>3. Stream(c)'[1] = Stream(c)[1]
        BY <1>3, <1>10, <1>11, <2>1, Together
      <3>4. QED
        BY <1>2, <1>4, <3>1, <3>2, <3>3 DEF Waiting
    <2>2. CASE Stream(c) = <<>>
      <3>1. /\ conn[c].file_remaining = 0 => Range(Output(c)) = Due(c)
            /\ conn[c].file_remaining > 0 =>
                 /\ asked[c] # <<>> /\ asked[c][N].kind = "file"
                 /\ Range(Output(c)) = {u \in Due(c) : u[1] < N
                               \/ u[2] <= FileUnits - conn[c].file_remaining}
        BY <1>3, <1>13, <2>2 DEF Answering, Serving
      <3>2. down[c] = <<>> /\ conn[c].outbuf = <<>> /\ Output(c) = got[c]
        <4>1. Output(c) = got[c] \o (down[c] \o conn[c].outbuf)
          <5> DEFINE g == got[c]  d == down[c]  o == conn[c].outbuf
          <5>1. g \in Seq(Unit) /\ d \in Seq(Unit) /\ o \in Seq(Unit)
            BY <1>3
          <5>2. Output(c) = (g \o d) \o o
            BY DEF Output
          <5> HIDE DEF g, d, o
          <5>3. Output(c) = g \o (d \o o)
            BY <5>1, <5>2, Regrouped
          <5>4. QED
            BY <5>3 DEF g, d, o
        <4>2. down[c] \o conn[c].outbuf \in Seq(Unit)
          BY <1>3, Together
        <4>3. down[c] \o conn[c].outbuf = <<>>
          <5>1. IsBeginning(got[c] \o (down[c] \o conn[c].outbuf), Due(c))
            BY <1>3, <4>1 DEF Answering
          <5>2. Due(c) \subseteq Range(got[c]) /\ got[c] \in Seq(Unit) /\ Due(c) \in SUBSET Unit
            BY <1>2, <1>3 DEF Answered
          <5>3. QED
            BY <4>2, <5>1, <5>2, NothingAfterAll, ZenonT(60)
        <4>4. down[c] = <<>> /\ conn[c].outbuf = <<>>
          BY <1>3, <4>3, Together
        <4>5. QED
          BY <1>3, <4>1, <4>2, <4>3, Together
      <3>3. conn[c].file_remaining = 0
        <4> SUFFICES ASSUME conn[c].file_remaining # 0 PROVE FALSE
          OBVIOUS
        <4>1. conn[c].file_remaining > 0 /\ FileUnits \in Nat
          BY <1>3, HttpAssumption
        <4>2. N \in 1..N
          BY <1>3, <3>1, <4>1
        <4>3. FileUnits \in Parts(asked[c][N].kind)
          BY <3>1, <4>1 DEF Parts
        <4>4. <<N, FileUnits>> \in Due(c)
          BY <1>4, <1>5, <4>1, <4>2, <4>3
        <4>5. <<N, FileUnits>> \in Range(Output(c))
          BY <1>2, <3>2, <4>4 DEF Answered
        <4>6. N < N \/ FileUnits <= FileUnits - conn[c].file_remaining
          BY <3>1, <4>1, <4>5
        <4>7. QED
          BY <1>3, <1>4, <4>1, <4>6
      <3>4. Range(Output(c)) = {u \in Due(c)' : u[1] < N + 1}
        BY <1>5, <1>6, <1>7, <3>1, <3>3
      <3>5. Stream(c)' = q
        BY <1>3, <1>10, <1>11, <2>2, Together
      <3>6. Stream(c)'[1][1] = N + 1
        BY <1>10, <3>5
      <3>7. Len(Stream(c)') <= 2 /\ (client'[c] = "asking" => Len(Stream(c)') = 1)
        <4>1. Len(q) \in {1, 2}
          BY <1>10
        <4>2. \A n \in {1, 2} : n <= 2
          OBVIOUS
        <4>3. QED
          BY <1>10, <3>5, <4>1, <4>2
      <3>8. QED
        BY <1>2, <1>4, <1>8, <3>2, <3>3, <3>4, <3>6, <3>7 DEF Waiting
    <2>3. QED
      BY <2>1, <2>2
  <1>14. QED
    BY <1>2, <1>3, <1>9, <1>12, <1>13 DEF Answering

(* A step of a client.                                                     *)
LEMMA OneClientMoves ==
  ASSUME AInv, IInv', GotOK', NEW c \in Clients, UNCHANGED <<pc, event, conn>>, Answering(c)',
         \A d \in Clients \ {c} : /\ asked'[d] = asked[d] /\ up'[d] = up[d]
                                  /\ down'[d] = down[d] /\ got'[d] = got[d]
                                  /\ client'[d] = client[d]
  PROVE  AInv'
  <1>1. ASSUME NEW d \in Clients PROVE Attended(d)'
    <2>1. Attended(d)
      BY DEF AInv
    <2>2. QED
      BY <2>1 DEF Attended, Owes
  <1>2. ASSUME NEW d \in Clients \ {c} PROVE Answering(d)'
    <2>1. Answering(d) /\ d \in Clients
      BY DEF AInv
    <2>2. Output(d)' = Output(d) /\ Stream(d)' = Stream(d)
      BY DEF Output, Stream
    <2>3. QED
      BY <2>1, <2>2, SameAnswer DEF Answering
  <1>3. QED
    BY <1>1, <1>2 DEF AInv

LEMMA ConnectAInv ==
  ASSUME AInv, IInv', NEW c \in Clients, Connect(c) \/ HangUp(c)
  PROVE  AInv'
  <1>1. /\ UNCHANGED <<pc, event, conn, asked, up, down, got>> /\ client'[c] # "asking"
        /\ \A d \in Clients \ {c} : client'[d] = client[d]
    BY DEF Connect, HangUp, AInv, IInv, TypeOK
  <1>2. Answering(c)'
    <2>1. Answering(c)
      BY DEF AInv
    <2>2. Output(c)' = Output(c) /\ Stream(c)' = Stream(c)
      BY <1>1 DEF Output, Stream
    <2>3. QED
      BY <1>1, <2>1, <2>2, SameAnswer DEF Answering
  <1>3. GotOK'
    BY <1>1 DEF AInv, GotOK
  <1>4. QED
    BY <1>1, <1>2, <1>3, OneClientMoves

LEMMA ReadAInv ==
  ASSUME AInv, IInv', NEW c \in Clients, Read(c)
  PROVE  AInv'
  <1>1. /\ UNCHANGED <<pc, event, conn, asked, up, client>>
        /\ got' = [got EXCEPT ![c] = Append(@, Head(down[c]))]
        /\ down' = [down EXCEPT ![c] = Tail(@)]
        /\ down[c] # <<>>
    BY DEF Read
  <1>2. got[c] \in Seq(Unit) /\ down[c] \in Seq(Unit) /\ conn[c].outbuf \in Seq(Unit) /\ Answering(c)
    BY AFacts
  <1>3. /\ got'[c] = Append(got[c], Head(down[c])) /\ down'[c] = Tail(down[c])
        /\ \A d \in Clients \ {c} : got'[d] = got[d] /\ down'[d] = down[d]
    BY <1>1 DEF AInv, IInv, TypeOK, GotOK
  <1>4. Head(down[c]) \in Unit
    BY <1>1, <1>2
  <1>5. GotOK'
    BY <1>1, <1>2, <1>4 DEF AInv, GotOK
  <1>6. Output(c)' = Output(c) /\ Stream(c)' = Stream(c)
    <2>1. Append(got[c], Head(down[c])) \o Tail(down[c]) \o conn[c].outbuf
            = got[c] \o down[c] \o conn[c].outbuf
      BY <1>1, <1>2, ReadMoves
    <2>2. QED
      BY <1>1, <1>3, <2>1 DEF Output, Stream
  <1>7. Answering(c)'
    BY <1>1, <1>2, <1>6, SameAnswer DEF Answering
  <1>8. QED
    BY <1>1, <1>3, <1>5, <1>7, OneClientMoves

LEMMA AskAInv ==
  ASSUME AInv, IInv', Pipelining = FALSE, NEW c \in Clients, Ask(c)
  PROVE  AInv'
  <1>1. Answering(c)'
    BY AskAnswers
  <1>2. UNCHANGED <<pc, event, conn, down, got>> /\ GotOK'
    BY DEF Ask, AInv, GotOK
  <1>3. \A d \in Clients \ {c} : asked'[d] = asked[d]
    BY DEF Ask, AInv, IInv, TypeOK
  <1>4. \A d \in Clients \ {c} : up'[d] = up[d]
    BY DEF Ask, AInv, IInv, TypeOK
  <1>5. \A d \in Clients \ {c} : client'[d] = client[d]
    BY DEF Ask, AInv, IInv, TypeOK
  <1>6. QED
    BY <1>1, <1>2, <1>3, <1>4, <1>5, OneClientMoves

LEMMA AskRestAInv ==
  ASSUME AInv, IInv', NEW c \in Clients, AskRest(c)
  PROVE  AInv'
  <1> DEFINE u == <<Len(asked[c]), 2>>
  <1>1. /\ UNCHANGED <<pc, event, conn, asked, down, got>>
        /\ client[c] = "asking" /\ client'[c] = "connected" /\ up'[c] = Append(up[c], u)
        /\ \A d \in Clients \ {c} : client'[d] = client[d] /\ up'[d] = up[d]
    BY DEF AskRest, AInv, IInv, TypeOK
  <1>2. /\ up[c] \in Seq(Unit) /\ conn[c].inbuf \in Seq(Unit) /\ Stream(c) \in Seq(Unit)
        /\ Answering(c) /\ asked[c] \in Seq(Request)
    BY AFacts
  <1>3. u \in Unit
    BY <1>2 DEF Unit
  <1> HIDE DEF u
  <1>4. Stream(c)' = Stream(c) \o <<u>>
    <2>1. <<u>> \in Seq(Unit) /\ up'[c] = up[c] \o <<u>>
      BY <1>1, <1>2, <1>3, AppendIsConcat
    <2> DEFINE i == conn[c].inbuf  p == up[c]  q == <<u>>
    <2>2. i \in Seq(Unit) /\ p \in Seq(Unit) /\ q \in Seq(Unit) /\ Stream(c)' = i \o (p \o q)
      BY <1>1, <1>2, <2>1 DEF Stream
    <2>3. Stream(c) = i \o p
      BY DEF Stream
    <2> HIDE DEF i, p, q
    <2>4. Stream(c)' = Stream(c) \o q
      BY <2>2, <2>3, Regrouped
    <2>5. QED
      BY <2>4 DEF q
  <1>5. <<u>> \in Seq(Unit) /\ Len(<<u>>) = 1
    BY <1>3
  <1>6. Output(c)' = Output(c) /\ Due(c)' = Due(c)
    BY <1>1 DEF Output, Due
  <1>7. Stream(c)' # <<>> /\ Len(Stream(c)') = Len(Stream(c)) + 1
    BY <1>2, <1>4, <1>5, Together
  <1>8. ASSUME conn[c].st \in {"none", "open"} PROVE Waiting(c)'
    <2>1. Waiting(c) /\ Stream(c) # <<>>
      BY <1>1, <1>2, <1>8 DEF Answering, Serving
    <2>2. Stream(c)'[1] = Stream(c)[1]
      BY <1>2, <1>4, <1>5, <2>1, Together
    <2> DEFINE m == Stream(c)[1][1]
    <2>3. asked[c][m].kind # "bad" => Len(Stream(c)') <= 2
      <3>1. asked[c][m].kind # "bad" => Len(Stream(c)) = 1
        BY <1>1, <2>1 DEF Waiting
      <3>2. Len(Stream(c)) = 1 => Len(Stream(c)') <= 2
        BY <1>7
      <3>3. QED
        BY <3>1, <3>2
    <2>4. QED
      BY <1>1, <1>6, <2>1, <2>2, <2>3 DEF Waiting
  <1>9. Answering(c)'
    <2>1. IsBeginning(Output(c), Due(c))'
      BY <1>2, <1>6 DEF Answering, IsBeginning
    <2>2. QED
      BY <1>1, <1>2, <1>7, <1>8, <2>1 DEF Answering
  <1>10. GotOK'
    BY <1>1 DEF AInv, GotOK
  <1>11. QED
    BY <1>1, <1>9, <1>10, OneClientMoves

-----------------------------------------------------------------------------
(* The loop: nothing is received or sent.                                  *)
LEMMA LoopAInv ==
  ASSUME AInv, IInv',
         WaitForEvents \/ NextEvent \/ HandleOutput \/ Incomplete \/ TimeOut \/ UNCHANGED vars
  PROVE  AInv'
  <1>1. UNCHANGED <<conn, client, asked, up, down, got>>
    BY DEF WaitForEvents, NextEvent, HandleOutput, Incomplete, TimeOut, Network, vars
  <1>2. GotOK'
    BY <1>1 DEF AInv, GotOK
  <1>3. \/ pc # "send" /\ pc' # "wait"
        \/ UNCHANGED <<pc, event>>
    BY DEF WaitForEvents, NextEvent, HandleOutput, Incomplete, TimeOut, vars
  <1>4. ASSUME NEW d \in Clients PROVE Answering(d)' /\ Attended(d)'
    <2>1. Answering(d) /\ Attended(d)
      BY DEF AInv
    <2>2. Output(d)' = Output(d) /\ Stream(d)' = Stream(d)
      BY <1>1 DEF Output, Stream
    <2>3. Answering(d)'
      BY <1>1, <2>1, <2>2, SameAnswer DEF Answering
    <2>4. Attended(d)'
      BY <1>1, <1>3, <2>1 DEF Attended, Owes
    <2>5. QED
      BY <2>3, <2>4
  <1>5. QED
    BY <1>2, <1>4 DEF AInv

(* What is left of a connection that is given up.                          *)
LEMMA Dropped ==
  ASSUME AInv, NEW c \in Clients, asked'[c] = asked[c], got'[c] = got[c], down'[c] = down[c],
         conn'[c].outbuf = <<>> \/ conn'[c].outbuf = conn[c].outbuf
  PROVE  IsBeginning(Output(c)', Due(c))
  <1> DEFINE s == got[c] \o down[c]
  <1>1. /\ got[c] \in Seq(Unit) /\ down[c] \in Seq(Unit) /\ conn[c].outbuf \in Seq(Unit)
        /\ Due(c) \in SUBSET Unit /\ Answering(c)
    BY AFacts
  <1>2. s \in Seq(Unit) /\ s \o <<>> = s
    BY <1>1
  <1>3. IsBeginning(s \o conn[c].outbuf, Due(c)) /\ IsBeginning(s, Due(c))
    <2>1. IsBeginning(s \o conn[c].outbuf, Due(c))
      BY <1>1 DEF Answering, Output
    <2> HIDE DEF s
    <2>2. QED
      BY <1>1, <1>2, <2>1, BeginningOfBeginning
  <1>4. Output(c)' = s \o conn'[c].outbuf
    BY DEF Output
  <1> HIDE DEF s
  <1>5. QED
    BY <1>2, <1>3, <1>4

LEMMA DeleteClosedAInv == AInv /\ IInv' /\ DeleteClosed => AInv'
  <1> SUFFICES ASSUME AInv, IInv', DeleteClosed PROVE AInv'
    OBVIOUS
  <1>1. /\ UNCHANGED <<client, asked, up, down, got, event>> /\ pc = "event" /\ pc' = "wait"
        /\ \A c \in Clients : conn'[c] = IF conn[c].st = "closed"
                                         THEN [NewConnection EXCEPT !.st = "deleted"]
                                         ELSE conn[c]
    BY DEF DeleteClosed, Network
  <1>2. GotOK'
    BY <1>1 DEF AInv, GotOK
  <1>3. ASSUME NEW c \in Clients PROVE Answering(c)' /\ Attended(c)'
    <2>1. Answering(c) /\ Attended(c)
      BY DEF AInv
    <2>2. CASE conn[c].st = "closed"
      <3>1. /\ conn'[c].st = "deleted" /\ conn'[c].outbuf = <<>>
            /\ conn'[c].file_remaining = 0
        BY <1>1, <2>2 DEF NewConnection
      <3>2. IsBeginning(Output(c)', Due(c))
        BY <1>1, <3>1, Dropped
      <3>3. Answering(c)'
        BY <1>1, <3>1, <3>2, GivenUp
      <3>4. QED
        BY <3>1, <3>3 DEF Attended, Owes
    <2>3. CASE conn[c].st # "closed"
      <3>1. conn'[c] = conn[c]
        BY <1>1, <2>3
      <3>2. Output(c)' = Output(c) /\ Stream(c)' = Stream(c)
        BY <1>1, <3>1 DEF Output, Stream
      <3>3. Answering(c)'
        BY <1>1, <2>1, <3>1, <3>2, SameAnswer DEF Answering
      <3>4. QED
        BY <1>1, <2>1, <2>3, <3>1, <3>3 DEF Attended, Owes
    <2>4. QED
      BY <2>2, <2>3
  <1>4. QED
    BY <1>2, <1>3 DEF AInv

LEMMA HandleListenerAInv == AInv /\ IInv' /\ HandleListener => AInv'
  <1> SUFFICES ASSUME AInv, IInv', HandleListener PROVE AInv'
    OBVIOUS
  <1>1. UNCHANGED <<pc, client, asked, up, down, got>> /\ pc = "event"
    BY DEF HandleListener, Network
  <1>2. PICK c \in Pending, st \in {"open", "deleted"} :
          Become(c, [NewConnection EXCEPT !.st = st])
    BY DEF HandleListener
  <1>3. c \in Clients /\ conn[c].st = "none"
    BY <1>2 DEF Pending
  <1>4. /\ conn'[c] = [NewConnection EXCEPT !.st = st]
        /\ \A d \in Clients \ {c} : conn'[d] = conn[d]
    BY <1>2, <1>3 DEF Become, AInv, IInv, TypeOK
  <1>5. /\ conn'[c].st = st /\ conn'[c].outbuf = <<>> /\ conn'[c].file_remaining = 0
        /\ conn'[c].inbuf = <<>>
    BY <1>4 DEF NewConnection
  <1>6. Answering(c) /\ conn[c] = NewConnection
    BY <1>3 DEF AInv, Answering
  <1>7. conn[c].outbuf = <<>> /\ conn[c].file_remaining = 0 /\ conn[c].inbuf = <<>>
    BY <1>6 DEF NewConnection
  <1>8. Answering(c)'
    <2>1. CASE st = "open"
      <3>1. Output(c)' = Output(c) /\ Stream(c)' = Stream(c)
        BY <1>1, <1>5, <1>7 DEF Output, Stream
      <3>2. QED
        BY <1>1, <1>3, <1>5, <1>6, <1>7, <2>1, <3>1, SameAnswer
    <2>2. CASE st = "deleted"
      <3>1. IsBeginning(Output(c)', Due(c))
        BY <1>1, <1>3, <1>5, Dropped
      <3>2. QED
        BY <1>1, <1>3, <1>5, <2>2, <3>1, GivenUp
    <2>3. QED
      BY <1>2, <2>1, <2>2
  <1>9. ~Owes(c)'
    BY <1>5 DEF Owes
  <1>10. QED
    BY <1>1, <1>3, <1>4, <1>8, <1>9, HandlerAInv

LEMMA Becomes ==
  ASSUME AInv, NEW c \in Clients, NEW o, Become(c, o)
  PROVE  conn'[c] = o /\ \A d \in Clients \ {c} : conn'[d] = conn[d]
  BY DEF Become, AInv, IInv, TypeOK

(* The server closes a connection and may throw its output away.           *)
LEMMA CloseAInv ==
  ASSUME AInv, IInv', NEW c \in Clients, pc # "send" \/ event.sock = c,
         UNCHANGED <<client, asked, got, up, down>>, pc' # "wait",
         \A d \in Clients \ {c} : conn'[d] = conn[d],
         conn'[c].st = "closed",
         conn'[c].outbuf = <<>> \/ conn'[c].outbuf = conn[c].outbuf
  PROVE  AInv'
  <1>1. IsBeginning(Output(c)', Due(c))
    BY Dropped
  <1>2. Answering(c)'
    BY <1>1, GivenUp
  <1>3. QED
    BY <1>2, HandlerAInv

LEMMA HandleInputAInv == AInv /\ IInv' /\ HandleInput => AInv'
  <1> SUFFICES ASSUME AInv, IInv', HandleInput PROVE AInv'
    OBVIOUS
  <1>1. UNCHANGED <<client, asked, down, got>> /\ pc = "event"
    BY DEF HandleInput, Network
  <1>2. PICK c \in Clients : c = event.sock
    BY DEF HandleInput
  <1>3. /\ down[c] \in Seq(Unit) /\ up[c] \in Seq(Unit) /\ conn[c] \in Connection
        /\ conn[c].inbuf \in Seq(Unit) /\ Answering(c) /\ Attended(c)
    BY AFacts
  <1>4. CASE /\ conn[c].st = "open" /\ up[c] # <<>>
             /\ Become(c, [conn[c] EXCEPT !.inbuf = @ \o up[c]])
             /\ up' = [up EXCEPT ![c] = <<>>]
             /\ pc' = "process"
    <2> DEFINE o == conn[c]  i == o.inbuf \o up[c]  q == [o EXCEPT !.inbuf = i]
    <2>1. conn'[c] = q /\ \A d \in Clients \ {c} : conn'[d] = conn[d]
      BY <1>4, Becomes
    <2>2. up'[c] = <<>> /\ \A d \in Clients \ {c} : up'[d] = up[d]
      BY <1>4 DEF AInv, IInv, TypeOK
    <2> HIDE DEF i
    <2>3. /\ q.st = "open" /\ q.out = o.out /\ q.inbuf = i /\ q.outbuf = o.outbuf
          /\ q.file_obj = o.file_obj /\ q.file_remaining = o.file_remaining
      BY <1>3, <1>4 DEF Connection
    <2> HIDE DEF q
    <2>4. Stream(c)' = Stream(c)
      <3>1. i \in Seq(Unit) /\ Stream(c) = i
        BY <1>3 DEF i, Stream
      <3>2. Stream(c)' = i \o <<>>
        BY <2>1, <2>2, <2>3 DEF Stream
      <3>3. QED
        BY <3>1, <3>2
    <2>5. Output(c)' = Output(c)
      BY <1>1, <2>1, <2>3 DEF Output
    <2>6. Answering(c)'
      BY <1>1, <1>3, <1>4, <2>1, <2>3, <2>4, <2>5, SameAnswer
    <2>7. Owes(c)' => conn'[c].out
      BY <1>1, <1>3, <1>4, <2>1, <2>3 DEF Attended, Owes
    <2>8. QED
      BY <1>1, <1>4, <2>1, <2>2, <2>6, <2>7, HandlerAInv
  <1>5. CASE /\ Become(c, CloseConnection(conn[c]))
             /\ UNCHANGED <<pc, up>>
    <2>1. conn'[c] = CloseConnection(conn[c]) /\ \A d \in Clients \ {c} : conn'[d] = conn[d]
      BY <1>5, Becomes
    <2>2. conn'[c].st = "closed" /\ conn'[c].outbuf = conn[c].outbuf
      BY <1>3, <2>1 DEF CloseConnection, Connection
    <2>3. QED
      BY <1>1, <1>5, <2>1, <2>2, CloseAInv
  <1>6. CASE UNCHANGED <<pc, conn, up>>
    <2>1. Output(c)' = Output(c) /\ Stream(c)' = Stream(c)
      BY <1>1, <1>6 DEF Output, Stream
    <2>2. Answering(c)'
      BY <1>1, <1>3, <1>6, <2>1, SameAnswer DEF Answering
    <2>3. Owes(c)' => conn'[c].out \/ conn'[c].st = "closed"
      BY <1>1, <1>3, <1>6 DEF Attended, Owes
    <2>4. QED
      BY <1>1, <1>6, <2>2, <2>3, HandlerAInv
  <1>7. QED
    BY <1>2, <1>4, <1>5, <1>6 DEF HandleInput

LEMMA BadRequestAInv == AInv /\ IInv' /\ BadRequest => AInv'
  <1> SUFFICES ASSUME AInv, IInv', BadRequest PROVE AInv'
    OBVIOUS
  <1>1. UNCHANGED <<client, asked, up, down, got>> /\ pc = "process" /\ pc' = "event"
    BY DEF BadRequest, Network
  <1>2. PICK c \in Clients : c = event.sock
    BY <1>1, AtHandler DEF AInv
  <1>3. conn'[c] = CloseConnection(conn[c]) /\ \A d \in Clients \ {c} : conn'[d] = conn[d]
    BY <1>2, Becomes DEF BadRequest
  <1>4. conn[c] \in Connection
    BY AFacts
  <1>5. conn'[c].st = "closed" /\ conn'[c].outbuf = conn[c].outbuf
    BY <1>3, <1>4 DEF CloseConnection, Connection
  <1>6. QED
    BY <1>1, <1>2, <1>3, <1>5, CloseAInv

LEMMA AbortAInv ==
  ASSUME AInv, IInv', pc = "send", NEW c \in Clients, c = event.sock, Abort(c),
         UNCHANGED <<client, asked, up, down, got>>
  PROVE  AInv'
  <1>1. conn[c] \in Connection /\ <<>> \in Seq(Unit)
    BY AFacts
  <1> DEFINE a == [conn[c] EXCEPT !.outbuf = <<>>]
             q == CloseConnection(CloseFileFd(a))
  <1>2. conn'[c] = q /\ \A d \in Clients \ {c} : conn'[d] = conn[d]
    BY Becomes DEF Abort
  <1>3. q.st = "closed" /\ q.outbuf = <<>>
    BY <1>1 DEF CloseConnection, CloseFileFd, Connection
  <1>4. pc' = "event"
    BY DEF Abort
  <1> HIDE DEF q
  <1>5. QED
    BY <1>2, <1>3, <1>4, CloseAInv

(* All is sent that there was to send.                                     *)
LEMMA SentAInv == AInv /\ IInv' /\ Sent => AInv'
  <1> SUFFICES ASSUME AInv, IInv', Sent PROVE AInv'
    OBVIOUS
  <1>1. /\ pc = "send" /\ UNCHANGED <<up, down, client, asked, got>>
        /\ pc' = "event"
    BY DEF Sent, Network
  <1>2. PICK c \in Clients : c = event.sock
    BY <1>1, AtHandler DEF AInv
  <1>3. /\ conn[c] \in Connection /\ Consistent(c) /\ Answering(c)
        /\ conn[c].file_remaining \in 0..FileUnits
    BY AFacts
  <1>4. conn[c].st = "open"
    BY <1>1, <1>2, AtHandler DEF AInv
  <1>5. conn[c].outbuf = <<>> /\ conn[c].file_remaining = 0
    BY <1>2, <1>3 DEF Sent, Consistent
  <1> DEFINE p == [conn[c] EXCEPT !.out = FALSE]
             o == CloseFileFd(p)
             q == IF o.keep_alive THEN o ELSE CloseConnection(o)
  <1>6. conn'[c] = q /\ \A d \in Clients \ {c} : conn'[d] = conn[d]
    BY <1>2, Becomes DEF Sent
  <1>7. /\ p \in Connection /\ p.st = "open" /\ p.outbuf = <<>> /\ p.inbuf = conn[c].inbuf
    BY <1>3, <1>4, <1>5 DEF Connection
  <1> HIDE DEF p
  <1>8. /\ o \in Connection /\ o.st = "open" /\ o.outbuf = <<>> /\ o.file_remaining = 0
        /\ o.inbuf = conn[c].inbuf
    BY <1>7, FileClosed DEF CloseFileFd, Connection
  <1> HIDE DEF o
  <1>9. CASE o.keep_alive
    <2>1. conn'[c] = o
      BY <1>6, <1>9
    <2>2. Output(c)' = Output(c) /\ Stream(c)' = Stream(c)
      BY <1>1, <1>5, <1>8, <2>1 DEF Output, Stream
    <2>3. Answering(c)'
      BY <1>1, <1>3, <1>4, <1>5, <1>8, <2>1, <2>2, SameAnswer
    <2>4. ~Owes(c)'
      BY <1>8, <2>1 DEF Owes
    <2>5. QED
      BY <1>1, <1>2, <1>6, <2>3, <2>4, HandlerAInv
  <1>10. CASE ~o.keep_alive
    <2>1. conn'[c] = CloseConnection(o)
      BY <1>6, <1>10
    <2>2. conn'[c].st = "closed" /\ conn'[c].outbuf = <<>>
      BY <1>8, <2>1 DEF CloseConnection, Connection
    <2>3. QED
      BY <1>1, <1>2, <1>6, <2>2, CloseAInv
  <1>11. QED
    BY <1>9, <1>10

LEMMA SendMoves ==
  ASSUME NEW g \in Seq(Unit), NEW d \in Seq(Unit), NEW o \in Seq(Unit), NEW k \in 0..Len(o)
  PROVE  (g \o (d \o SubSeq(o, 1, k))) \o SubSeq(o, k + 1, Len(o)) = (g \o d) \o o
  <1> DEFINE s == SubSeq(o, 1, k)  r == SubSeq(o, k + 1, Len(o))
  <1>1. s \in Seq(Unit) /\ r \in Seq(Unit)
    BY Rest, First
  <1>2. s \o r = o
    <2>1. SubSeq(o, 1, k) \o SubSeq(o, k + 1, Len(o)) = SubSeq(o, 1, Len(o))
      <3>1. /\ 1 \in 1..(Len(o) + 1) /\ k \in (1 - 1)..Len(o) /\ Len(o) \in k..Len(o)
        OBVIOUS
      <3>2. QED
        BY <3>1, ConcatAdjacentSubSeq
    <2>2. QED
      BY <2>1, SubSeqFull
  <1> HIDE DEF s, r
  <1>3. g \o d \in Seq(Unit) /\ (g \o d) \o s = g \o (d \o s)
    <2>1. g \o d \in Seq(Unit)
      BY Together
    <2>2. (g \o d) \o s = g \o (d \o s)
      BY <1>1, Regrouped, ZenonT(60)
    <2>3. QED
      BY <2>1, <2>2
  <1>4. ((g \o d) \o s) \o r = (g \o d) \o (s \o r)
    BY <1>1, <1>3, Regrouped
  <1>5. (g \o (d \o s)) \o r = (g \o d) \o o
    BY <1>2, <1>3, <1>4
  <1>6. QED
    BY <1>5 DEF s, r

LEMMA SendAInv == AInv /\ IInv' /\ Send => AInv'
  <1> SUFFICES ASSUME AInv, IInv', Send PROVE AInv'
    OBVIOUS
  <1>1. pc = "send" /\ UNCHANGED <<event, up, client, asked, got>>
    BY DEF Send, Network
  <1>2. PICK c \in Clients : c = event.sock
    BY <1>1, AtHandler DEF AInv
  <1> DEFINE o == conn[c]
             k == IF Room(c) < Len(o.outbuf) THEN Room(c) ELSE Len(o.outbuf)
  <1>3. /\ o \in Connection /\ Consistent(c) /\ Answering(c)
        /\ got[c] \in Seq(Unit) /\ down[c] \in Seq(Unit) /\ o.outbuf \in Seq(Unit)
    BY AFacts
  <1>4. o.st = "open"
    BY <1>1, <1>2, AtHandler DEF AInv
  <1>5. CASE /\ k > 0 /\ SendRest(c, o, k)
             /\ down' = [down EXCEPT ![c] = @ \o SubSeq(o.outbuf, 1, k)]
    <2>1. k \in 0..Len(o.outbuf)
      BY <1>3, <1>5, HttpAssumption DEF Room, Consistent
    <2> DEFINE rest == SubSeq(o.outbuf, k + 1, Len(o.outbuf))
               out == IF k = Len(o.outbuf) THEN o.out ELSE TRUE
               q == [o EXCEPT !.outbuf = rest, !.out = out]
    <2>2. Become(c, q) /\ pc' = IF k = Len(o.outbuf) THEN "send" ELSE "event"
      BY <1>5 DEF SendRest
    <2>3. conn'[c] = q /\ \A d \in Clients \ {c} : conn'[d] = conn[d]
      BY <2>2, Becomes
    <2> HIDE DEF rest, out
    <2>4. /\ q.st = "open" /\ q.inbuf = o.inbuf /\ q.outbuf = rest /\ q.out = out
          /\ q.file_obj = o.file_obj /\ q.file_remaining = o.file_remaining
      BY <1>3, <1>4 DEF Connection
    <2> HIDE DEF q
    <2>5. /\ down'[c] = down[c] \o SubSeq(o.outbuf, 1, k)
          /\ \A d \in Clients \ {c} : down'[d] = down[d]
      BY <1>5 DEF AInv, IInv, TypeOK
    <2>6. Output(c)' = Output(c)
      <3>1. Output(c)' = (got[c] \o (down[c] \o SubSeq(o.outbuf, 1, k))) \o rest
        BY <1>1, <2>3, <2>4, <2>5 DEF Output
      <3> HIDE DEF k, o
      <3>2. Output(c)' = (got[c] \o down[c]) \o o.outbuf
        BY <1>3, <2>1, <3>1, SendMoves, ZenonT(60) DEF rest
      <3>3. QED
        BY <3>2 DEF o, Output
    <2>7. Stream(c)' = Stream(c)
      BY <1>1, <2>3, <2>4 DEF Stream
    <2>8. o.outbuf = <<>> => rest = <<>>
      <3> HIDE DEF k
      <3>1. QED
        BY <1>3, <2>1 DEF rest
    <2>9. Answering(c)'
      BY <1>1, <1>3, <1>4, <2>3, <2>4, <2>6, <2>7, <2>8, SameAnswer
    <2>10. conn'[c].out \/ (pc' = "send" /\ event'.sock = c)
      BY <1>1, <1>2, <2>2, <2>3, <2>4 DEF out
    <2>11. pc' # "wait"
      BY <2>2
    <2>12. QED
      BY <1>1, <1>2, <2>3, <2>5, <2>9, <2>10, <2>11, HandlerAInv
  <1>6. CASE Abort(c) /\ UNCHANGED down
    BY <1>1, <1>2, <1>6, AbortAInv
  <1>7. QED
    <2> DEFINE K(x) == IF Room(x) < Len(conn[x].outbuf) THEN Room(x) ELSE Len(conn[x].outbuf)
    <2>1. \/ /\ K(event.sock) > 0 /\ SendRest(event.sock, conn[event.sock], K(event.sock))
             /\ down' = [down EXCEPT ![event.sock] =
                           @ \o SubSeq(conn[event.sock].outbuf, 1, K(event.sock))]
          \/ Abort(event.sock) /\ UNCHANGED down
      BY DEF Send
    <2>2. K(c) = k
      OBVIOUS
    <2> HIDE DEF K, k
    <2>3. QED
      BY <1>2, <1>5, <1>6, <2>1, <2>2

(* The parts of the last answer from a on are put into the output.         *)
LEMMA AnswerGoesOn ==
  ASSUME AInv, IInv', NEW c \in Clients, NEW a \in Nat, NEW t \in Seq(Unit),
         pc # "send" \/ event.sock = c, UNCHANGED <<client, asked, got, up, down>>,
         \A d \in Clients \ {c} : conn'[d] = conn[d],
         pc' = "send", event'.sock = c,
         conn[c].outbuf = <<>>, conn'[c].outbuf = t, conn'[c].st = "open",
         conn'[c].file_remaining \in Nat,
         \A i \in 1..Len(t) : t[i] = <<Len(asked[c]), a + i - 1>>,
         \A i \in 1..Len(t) : a + i - 1 \in Parts(asked[c][Len(asked[c])].kind),
         asked[c] # <<>>, Stream(c)' = <<>>, client[c] # "asking",
         Range(Output(c)) = {u \in Due(c) : u[1] < Len(asked[c]) \/ u[2] < a},
         conn'[c].file_remaining = 0 =>
           \A i \in Parts(asked[c][Len(asked[c])].kind) : i < a + Len(t),
         conn'[c].file_remaining > 0 =>
           /\ asked[c][Len(asked[c])].kind = "file"
           /\ conn'[c].file_obj = Len(asked[c])
           /\ FileUnits - conn'[c].file_remaining + 1 = a + Len(t)
  PROVE  AInv'
  <1> DEFINE n == Len(asked[c])
  <1>1. /\ got[c] \in Seq(Unit) /\ down[c] \in Seq(Unit) /\ asked[c] \in Seq(Request)
        /\ Output(c) \in Seq(Unit) /\ Answering(c)
    BY AFacts
  <1>2. /\ Due(c) \in SUBSET Unit
        /\ \A m \in Nat, i \in Nat :
             <<m, i>> \in Due(c) <=> m \in 1..n /\ i \in Parts(asked[c][m].kind)
        /\ \A u \in Due(c) : u[1] \in 1..n /\ u[2] \in Parts(asked[c][u[1]].kind)
    BY DueFacts DEF DueView, AInv, IInv
  <1>3. n \in Nat /\ n \in 1..n /\ Len(t) \in Nat
    BY <1>1
  <1>4. Due(c)' = Due(c)
    BY DEF Due
  <1>5. Output(c)' = Output(c) \o t
    <2>1. got[c] \o down[c] \in Seq(Unit)
      BY <1>1, Together
    <2>2. Output(c) = got[c] \o down[c]
      BY <2>1, Together DEF Output
    <2>3. QED
      BY <2>2 DEF Output
  <1>6. ASSUME NEW i \in 1..Len(t) PROVE t[i] = <<n, a + i - 1>> /\ t[i] \in Due(c)
    <2>1. a + i - 1 \in Nat
      BY <1>3
    <2>2. t[i] = <<n, a + i - 1>> /\ a + i - 1 \in Parts(asked[c][n].kind)
      OBVIOUS
    <2> HIDE DEF n
    <2>3. QED
      BY <1>2, <1>3, <2>1, <2>2
  <1>7. \A u \in Due(c) : u[1] <= n
    BY <1>2, <1>3
  <1> HIDE DEF n
  <1>8. Range(Output(c)) = {u \in Due(c) : u[1] < n \/ u[2] < a} /\ IsBeginning(Output(c), Due(c))
    BY <1>1 DEF n, Answering
  <1>9. Until(Output(c) \o t, Due(c), n, a + Len(t))
    <2>1. Until(Output(c), Due(c), n, a)
      BY <1>7, <1>8 DEF Until
    <2>2. From(t, Due(c), n, a)
      BY <1>6 DEF From
    <2>3. QED
      BY <1>1, <1>2, <1>3, <2>1, <2>2, Continued
  <1>10. conn'[c].file_remaining = 0 => Range(Output(c)') = Due(c)
    <2> SUFFICES ASSUME conn'[c].file_remaining = 0, NEW u \in Due(c)
                 PROVE  u[1] < n \/ u[2] < a + Len(t)
      BY <1>5, <1>9 DEF Until
    <2>1. u[1] = n => u[2] < a + Len(t)
      BY <1>2 DEF n
    <2>2. u[1] \in Nat /\ u[1] <= n
      BY <1>2, <1>7 DEF Unit
    <2>3. QED
      BY <1>3, <2>1, <2>2
  <1>11. conn'[c].file_remaining > 0 =>
           Range(Output(c)') = {u \in Due(c) : u[1] < n
                                   \/ u[2] <= FileUnits - conn'[c].file_remaining}
    <2> SUFFICES ASSUME conn'[c].file_remaining > 0, NEW u \in Due(c)
                 PROVE  u[2] < a + Len(t) <=> u[2] <= FileUnits - conn'[c].file_remaining
      BY <1>5, <1>9 DEF Until
    <2>1. u[2] \in Nat /\ FileUnits \in Nat
      BY <1>2, HttpAssumption DEF Unit
    <2> DEFINE r == conn'[c].file_remaining  b == a + Len(t)
    <2>2. FileUnits - r + 1 = b /\ r \in Nat /\ b \in Nat
      BY <1>3
    <2> HIDE DEF r, b
    <2>3. u[2] < b <=> u[2] <= FileUnits - r
      BY <2>1, <2>2
    <2>4. QED
      BY <2>3 DEF r, b
  <1>12. Serving(c)'
    BY <1>4, <1>10, <1>11 DEF Serving, n
  <1>13. Answering(c)'
    <2>1. IsBeginning(Output(c)', Due(c))
      BY <1>5, <1>9 DEF Until
    <2>2. IsBeginning(Output(c), Due(c))'
      BY <1>4, <2>1 DEF IsBeginning
    <2>3. QED
      BY <1>12, <2>2 DEF Answering
  <1>14. QED
    BY <1>13, HandlerAInv

LEMMA ReadFileAInv == AInv /\ IInv' /\ ReadFile => AInv'
  <1> SUFFICES ASSUME AInv, IInv', ReadFile PROVE AInv'
    OBVIOUS
  <1>1. pc = "send" /\ UNCHANGED <<event, up, down, client, asked, got>>
    BY DEF ReadFile, Network
  <1>2. PICK c \in Clients : c = event.sock
    BY <1>1, AtHandler DEF AInv
  <1> DEFINE o == conn[c]  n == Len(asked[c])
             k == IF o.file_remaining < Chunk THEN o.file_remaining ELSE Chunk
             at == FileUnits - o.file_remaining
  <1>3. /\ o \in Connection /\ asked[c] \in Seq(Request) /\ Answering(c) /\ Due(c) \in SUBSET Unit
        /\ o.file_remaining \in 0..FileUnits
        /\ o.st = "open" /\ o.outbuf = <<>> /\ o.file_remaining > 0
    <2>1. o.outbuf = <<>> /\ o.file_remaining > 0
      BY <1>2 DEF ReadFile
    <2>2. o.st = "open"
      BY <1>1, <1>2, AtHandler DEF AInv
    <2>3. QED
      BY <2>1, <2>2, AFacts
  <1>4. CASE /\ Become(c, [o EXCEPT !.outbuf = [i \in 1..k |-> <<o.file_obj, at + i>>],
                                    !.file_remaining = @ - k])
             /\ UNCHANGED pc
    <2>1. Stream(c) = <<>> /\ Serving(c)
      BY <1>3 DEF Answering, Waiting
    <2>2. /\ client[c] # "asking" /\ asked[c] # <<>> /\ asked[c][n].kind = "file"
          /\ o.file_obj = n
          /\ Range(Output(c)) = {u \in Due(c) : u[1] < n \/ u[2] <= at}
      BY <1>3, <2>1 DEF Serving
    <2>3. k \in Nat /\ k <= o.file_remaining /\ at \in Nat /\ n \in Nat /\ FileUnits \in Nat
      BY <1>3, HttpAssumption
    <2> DEFINE t == [i \in 1..k |-> <<o.file_obj, at + i>>]
               m == o.file_remaining - k
               q == [o EXCEPT !.outbuf = t, !.file_remaining = m]
    <2>4. conn'[c] = q /\ \A d \in Clients \ {c} : conn'[d] = conn[d]
      BY <1>4, Becomes
    <2>5. /\ t \in Seq(Unit) /\ Len(t) = k
          /\ \A i \in 1..k : t[i] = <<n, at + i>>
      <3> DEFINE f == o.file_obj
      <3>1. f = n /\ f \in Nat
        BY <2>2, <2>3
      <3> HIDE DEF k, at, n, f
      <3>2. QED
        BY <2>3, <3>1 DEF Unit, f
    <2>6. m \in Nat
      BY <1>3, <2>3
    <2>7. FileUnits - m + 1 = at + 1 + k
      BY <1>3, <2>3
    <2> HIDE DEF t, m
    <2>8. /\ q.st = "open" /\ q.inbuf = o.inbuf /\ q.outbuf = t
          /\ q.file_obj = o.file_obj /\ q.file_remaining = m
      BY <1>3 DEF Connection
    <2> HIDE DEF q
    <2>9. Stream(c)' = <<>>
      BY <1>1, <2>1, <2>4, <2>8 DEF Stream
    <2>10. Parts(asked[c][n].kind) = 0..FileUnits
      BY <2>2 DEF Parts
    <2> DEFINE a == at + 1
    <2>11. /\ a \in Nat
           /\ \A i \in 1..Len(t) : t[i] = <<n, a + i - 1>>
           /\ \A i \in 1..Len(t) : a + i - 1 \in 0..FileUnits
           /\ m = 0 => \A i \in 0..FileUnits : i < a + Len(t)
           /\ FileUnits - m + 1 = a + Len(t)
      <3>1. a \in Nat
        BY <2>3
      <3>2. ASSUME NEW i \in 1..Len(t)
            PROVE  t[i] = <<n, a + i - 1>> /\ a + i - 1 \in 0..FileUnits
        <4>1. i \in 1..k /\ a + i - 1 = at + i
          BY <2>3, <2>5
        <4>2. at + i \in 0..FileUnits
          BY <1>3, <2>3, <4>1, SMTT(30)
        <4>3. QED
          BY <2>5, <4>1, <4>2
      <3>3. FileUnits - m + 1 = a + Len(t)
        BY <2>5, <2>7
      <3>4. ASSUME m = 0, NEW i \in 0..FileUnits PROVE i < a + Len(t)
        BY <2>3, <3>3, <3>4
      <3>5. QED
        BY <3>1, <3>2, <3>3, <3>4
    <2>12. Range(Output(c)) = {u \in Due(c) : u[1] < n \/ u[2] < a}
      <3>1. \A u \in Due(c) : u[2] <= at <=> u[2] < a
        BY <1>3, <2>3 DEF Unit
      <3>2. QED
        BY <2>2, <3>1
    <2> HIDE DEF a, at, k
    <2>13. QED
      BY <1>1, <1>2, <1>3, <1>4, <2>2, <2>4, <2>5, <2>6, <2>8, <2>9, <2>10, <2>11, <2>12,
         AnswerGoesOn, ZenonT(60)
  <1>5. CASE Abort(c)
    BY <1>1, <1>2, <1>5, AbortAInv
  <1>6. QED
    BY <1>2, <1>4, <1>5 DEF ReadFile

LEMMA RespondAInv == AInv /\ IInv' /\ Respond => AInv'
  <1> SUFFICES ASSUME AInv, IInv', Respond PROVE AInv'
    OBVIOUS
  <1>1. UNCHANGED <<event, up, down, client, asked, got>> /\ pc = "process"
    BY DEF Respond, Network
  <1>2. PICK c \in Clients : c = event.sock
    BY <1>1, AtHandler DEF AInv
  <1> DEFINE o == conn[c]
             n == o.inbuf[1][1]
             r == asked[c][n]
             rest == SubSeq(o.inbuf, 3, Len(o.inbuf))
             p == ProcessRequest(o, n, r.kind)
             t == InMemory(n, r.kind)
             q == [p EXCEPT !.keep_alive = r.keep, !.outbuf = t, !.inbuf = rest]
  <1>3. /\ o \in Connection /\ o.inbuf \in Seq(Unit) /\ up[c] \in Seq(Unit)
        /\ asked[c] \in Seq(Request) /\ Answering(c) /\ Due(c) \in SUBSET Unit
        /\ o.st = "open" /\ Len(o.inbuf) >= 2 /\ r.kind # "bad"
    <2>1. Len(o.inbuf) >= 2 /\ r.kind # "bad"
      BY <1>2 DEF Respond, HeaderComplete
    <2>2. o.st = "open"
      BY <1>1, <1>2, AtHandler DEF AInv
    <2>3. QED
      BY <2>1, <2>2, AFacts
  <1>4. /\ Stream(c) \in Seq(Unit) /\ Stream(c) # <<>> /\ Stream(c)[1] = o.inbuf[1]
        /\ Len(Stream(c)) = Len(o.inbuf) + Len(up[c])
    <2> DEFINE i == o.inbuf
    <2>1. Stream(c) = i \o up[c] /\ i \in Seq(Unit) /\ Len(i) >= 2
      BY <1>3 DEF Stream
    <2> HIDE DEF i
    <2>2. i # <<>>
      BY <2>1
    <2>3. i \o up[c] \in Seq(Unit) /\ Len(i \o up[c]) = Len(i) + Len(up[c])
      BY <1>3, <2>1, Together
    <2>4. (i \o up[c])[1] = i[1] /\ i \o up[c] # <<>>
      BY <1>3, <2>1, <2>2, Together
    <2>5. QED
      BY <2>1, <2>3, <2>4 DEF i
  <1>5. /\ o.outbuf = <<>> /\ o.file_remaining = 0
        /\ n \in DOMAIN asked[c] /\ n = Len(asked[c]) /\ Len(Stream(c)) <= 2
        /\ client[c] = "asking" => Len(Stream(c)) = 1
        /\ Range(Output(c)) = {u \in Due(c) : u[1] < n}
    BY <1>3, <1>4 DEF Answering, Waiting
  <1>6. up[c] = <<>> /\ rest = <<>> /\ client[c] # "asking"
    <2> DEFINE i == o.inbuf  s == Stream(c)
    <2>1. /\ i \in Seq(Unit) /\ Len(i) >= 2 /\ up[c] \in Seq(Unit) /\ s \in Seq(Unit)
          /\ Len(s) = Len(i) + Len(up[c]) /\ Len(s) <= 2
      BY <1>3, <1>4, <1>5
    <2> HIDE DEF i, s
    <2>2. Len(up[c]) = 0 /\ Len(i) = 2 /\ Len(s) = 2
      <3>1. Len(i) \in Nat /\ Len(up[c]) \in Nat
        BY <2>1
      <3>2. \A k, l, m \in Nat : k >= 2 /\ m = k + l /\ m <= 2 => l = 0 /\ k = 2 /\ m = 2
        OBVIOUS
      <3>3. Len(s) \in Nat
        BY <2>1
      <3>4. QED
        BY <2>1, <3>1, <3>2, <3>3
    <2>3. up[c] = <<>> /\ SubSeq(i, 3, Len(i)) = <<>>
      BY <2>1, <2>2
    <2>4. client[c] = "asking" => Len(s) = 1
      BY <1>5 DEF s
    <2>5. client[c] # "asking"
      BY <2>2, <2>4
    <2>6. QED
      BY <2>3, <2>5 DEF i
  <1>7. Become(c, q) /\ pc' = "send"
    <2>1. Become(c, q)
      <3> DEFINE N(x) == conn[x].inbuf[1][1]
                 Q(x) == [ProcessRequest(conn[x], N(x), asked[x][N(x)].kind) EXCEPT
                            !.keep_alive = asked[x][N(x)].keep,
                            !.outbuf = @ \o InMemory(N(x), asked[x][N(x)].kind),
                            !.inbuf = SubSeq(conn[x].inbuf, 3, Len(conn[x].inbuf))]
      <3>1. Become(event.sock, Q(event.sock))
        BY DEF Respond
      <3>2. Q(c) = [p EXCEPT !.keep_alive = r.keep, !.outbuf = p.outbuf \o t, !.inbuf = rest]
        OBVIOUS
      <3>3. p.outbuf = o.outbuf
        BY <1>3 DEF ProcessRequest, Connection
      <3>4. p.outbuf \o t = t
        <4>1. <<>> \o t = t
          BY DEF InMemory
        <4> HIDE DEF t, p
        <4>2. QED
          BY <1>5, <3>3, <4>1
      <3> HIDE DEF Q, p, rest, t
      <3>5. QED
        BY <1>2, <3>1, <3>2, <3>4
    <2>2. pc' = (IF rest = <<>> THEN "send" ELSE "process")
      BY <1>2 DEF Respond
    <2>3. QED
      BY <1>6, <2>1, <2>2
  <1>8. conn'[c] = q /\ \A d \in Clients \ {c} : conn'[d] = conn[d]
    BY <1>7, Becomes
  <1>9. n \in Nat /\ n = Len(asked[c]) /\ asked[c] # <<>> /\ FileUnits \in Nat
        /\ r.kind \in {"page", "file", "same", "missing", "bad"}
    <2>1. n \in 1..Len(asked[c]) /\ n = Len(asked[c]) /\ Len(asked[c]) \in Nat
      BY <1>3, <1>5
    <2> HIDE DEF n
    <2>2. n \in Nat /\ asked[c] # <<>> /\ asked[c][n] \in Request
      BY <1>3, <2>1
    <2>3. QED
      BY <2>1, <2>2, HttpAssumption DEF Request
  <1> DEFINE l == IF r.kind = "page" THEN 2 ELSE 1
  <1>10. t \in Seq(Unit) /\ Len(t) = l /\ \A i \in 1..l : t[i] = <<n, 0 + i - 1>>
    <2>1. <<n, 0>> \in Unit /\ <<n, 1>> \in Unit
      BY <1>9 DEF Unit
    <2> HIDE DEF n
    <2>2. /\ <<<<n, 0>>>> \in Seq(Unit) /\ Len(<<<<n, 0>>>>) = 1
          /\ \A i \in 1..1 : <<<<n, 0>>>>[i] = <<n, 0 + i - 1>>
      BY <2>1
    <2>3. /\ <<<<n, 0>>, <<n, 1>>>> \in Seq(Unit) /\ Len(<<<<n, 0>>, <<n, 1>>>>) = 2
          /\ \A i \in 1..2 : <<<<n, 0>>, <<n, 1>>>>[i] = <<n, 0 + i - 1>>
      BY <2>1
    <2>4. QED
      BY <2>2, <2>3 DEF InMemory
  <1>11. /\ p.st = "open" /\ p.file_remaining = (IF r.kind = "file" THEN FileUnits ELSE 0)
         /\ r.kind = "file" => p.file_obj = n
         /\ DOMAIN p = DOMAIN o
    <2> HIDE DEF n, r
    <2>1. QED
      BY <1>3, <1>5 DEF ProcessRequest, Connection
  <1>12. DOMAIN o = {"st", "out", "inbuf", "outbuf", "file_obj", "file_remaining", "keep_alive"}
    BY <1>3 DEF Connection
  <1> HIDE DEF p, t, rest
  <1>13. /\ q.st = "open" /\ q.outbuf = t /\ q.inbuf = <<>>
         /\ q.file_obj = p.file_obj /\ q.file_remaining = p.file_remaining
    BY <1>6, <1>11, <1>12
  <1> HIDE DEF q
  <1>14. Stream(c)' = <<>>
    BY <1>1, <1>6, <1>8, <1>13, Together DEF Stream
  <1>15. /\ \A i \in 1..Len(t) : 0 + i - 1 \in Parts(r.kind)
         /\ q.file_remaining = 0 => \A i \in Parts(r.kind) : i < 0 + Len(t)
         /\ q.file_remaining > 0 => r.kind = "file" /\ FileUnits - q.file_remaining + 1 = 0 + Len(t)
         /\ q.file_remaining \in Nat
    <2> HIDE DEF r
    <2>1. CASE r.kind = "page"
      BY <1>9, <1>10, <1>11, <1>13, <2>1 DEF Parts
    <2>2. CASE r.kind = "file"
      BY <1>9, <1>10, <1>11, <1>13, <2>2 DEF Parts
    <2>3. CASE r.kind \in {"same", "missing"}
      <3>1. r.kind # "page" /\ r.kind # "file" /\ r.kind # "bad"
        BY <2>3
      <3>2. Parts(r.kind) = {0}
        BY <3>1 DEF Parts
      <3>3. Len(t) = 1 /\ q.file_remaining = 0
        BY <1>10, <1>11, <1>13, <3>1
      <3>4. QED
        BY <3>2, <3>3
    <2>4. r.kind = "page" \/ r.kind = "file" \/ r.kind \in {"same", "missing"}
      BY <1>3, <1>9
    <2>5. QED
      BY <2>1, <2>2, <2>3, <2>4
  <1>16. Range(Output(c)) = {u \in Due(c) : u[1] < n \/ u[2] < 0}
    <2>1. \A u \in Due(c) : ~(u[2] < 0)
      BY <1>3 DEF Unit
    <2>2. QED
      BY <1>5, <2>1
  <1>17. q.file_remaining > 0 => q.file_obj = n
    BY <1>11, <1>13, <1>15
  <1> DEFINE N == Len(asked[c])
  <1>18. /\ \A i \in 1..Len(t) : t[i] = <<N, 0 + i - 1>>
         /\ \A i \in 1..Len(t) : 0 + i - 1 \in Parts(asked[c][N].kind)
         /\ Range(Output(c)) = {u \in Due(c) : u[1] < N \/ u[2] < 0}
         /\ q.file_remaining = 0 => \A i \in Parts(asked[c][N].kind) : i < 0 + Len(t)
         /\ q.file_remaining > 0 =>
              /\ asked[c][N].kind = "file" /\ q.file_obj = N
              /\ FileUnits - q.file_remaining + 1 = 0 + Len(t)
    <2>1. n = N /\ r = asked[c][N]
      BY <1>9
    <2> HIDE DEF n, r, N
    <2>2. QED
      BY <1>10, <1>15, <1>16, <1>17, <2>1
  <1>19. /\ pc # "send" /\ pc' = "send" /\ event'.sock = c
         /\ UNCHANGED <<client, asked, got, up, down>>
         /\ client[c] # "asking" /\ asked[c] # <<>> /\ conn[c].outbuf = <<>>
    BY <1>1, <1>2, <1>5, <1>6, <1>7, <1>9
  <1>20. conn'[c].outbuf = t /\ conn'[c].st = "open" /\ conn'[c].file_remaining \in Nat
    BY <1>8, <1>13, <1>15
  <1>21. t \in Seq(Unit) /\ 0 \in Nat
    BY <1>10
  <1>22. /\ conn'[c].file_remaining = 0 => \A i \in Parts(asked[c][N].kind) : i < 0 + Len(t)
         /\ conn'[c].file_remaining > 0 =>
              /\ asked[c][N].kind = "file" /\ conn'[c].file_obj = N
              /\ FileUnits - conn'[c].file_remaining + 1 = 0 + Len(t)
    BY <1>8, <1>18
  <1> HIDE DEF n, r, l, o
  <1>23. QED
    BY <1>8, <1>14, <1>18, <1>19, <1>20, <1>21, <1>22, AnswerGoesOn

LEMMA StepAInv == Pipelining = FALSE /\ AInv /\ [Next]_vars => AInv'
  <1> SUFFICES ASSUME Pipelining = FALSE, AInv, [Next]_vars PROVE AInv'
    OBVIOUS
  <1>1. IInv'
    BY StepIInv DEF AInv
  <1>2. CASE Server
    BY <1>1, <1>2, LoopAInv, HandleListenerAInv, HandleInputAInv, BadRequestAInv,
       RespondAInv, SendAInv, ReadFileAInv, SentAInv, DeleteClosedAInv DEF Server
  <1>3. CASE TimeOut \/ UNCHANGED vars
    BY <1>1, <1>3, LoopAInv
  <1>4. CASE \E c \in Clients :
               Connect(c) \/ Ask(c) \/ AskRest(c) \/ Read(c) \/ HangUp(c)
    BY <1>1, <1>4, ConnectAInv, AskAInv, AskRestAInv, ReadAInv
  <1>5. QED
    BY <1>2, <1>3, <1>4 DEF Next

(* The clients get the answers to their requests, each complete and in     *)
(* order, and nothing that is ready to be sent is forgotten, as long as    *)
(* they wait for one answer before they ask again: ProcessInData starts    *)
(* with the next request before the file of the last one is sent.          *)
THEOREM AnswersCorrect ==
  ASSUME Pipelining = FALSE
  PROVE  Spec => []AnswersComplete
  <1>1. AInv /\ [Next]_vars => AInv'
    BY StepAInv
  <1>2. AInv => AnswersComplete
    <2> SUFFICES ASSUME AInv PROVE AnswersComplete
      OBVIOUS
    <2>1. AnswersInOrder
      BY DEF AInv, Answering, Output, AnswersInOrder
    <2>2. OutputNeverStranded
      BY DEF AInv, Attended, Owes, OutputNeverStranded
    <2>3. QED
      BY <2>1, <2>2 DEF AnswersComplete
  <1>3. QED
    BY <1>1, <1>2, InitAInv, PTL DEF Spec
=============================================================================
