----------------------------- MODULE HttpServer -----------------------------
(***************************************************************************)
(* The HTTP server of the nanonet package: the event loop of ONanoServer   *)
(* and OSocketWatcher (src/stdpkg/nanonet/nano_sockets.dq, epoll) with     *)
(* OSConnectionHttp connections (src/stdpkg/nanonet/nano_http.dq).  One    *)
(* thread runs the loop; the clients and the kernel's socket buffers move  *)
(* between any two of its system calls.  A request is two units on the     *)
(* wire, the end of the second is the end of its header; unit <<n, i>> of  *)
(* an answer is part i of the answer to request n, the head being part 0.  *)
(***************************************************************************)
EXTENDS Naturals, Sequences, Functions

CONSTANTS Clients,
          Kinds,        (* client -> what it may ask for                   *)
          Pipelining,   (* whether they ask before the last answer is in   *)
          FilesShrink,  (* whether a file gets shorter while it is sent    *)
          MayHangUp,    (* whether clients leave                           *)
          MaxRequests,  (* client -> bound on its requests                 *)
          FileUnits,    (* the length of a file                            *)
          Chunk,        (* how much of it one Read gets                    *)
          SendBuffer    (* what the kernel takes before a client reads     *)

Listener == "listener"

ASSUME HttpAssumption ==
  /\ Listener \notin Clients
  /\ Kinds \in [Clients -> SUBSET {"page", "file", "same", "missing", "bad"}]
  /\ {Pipelining, FilesShrink, MayHangUp} \subseteq BOOLEAN
  /\ MaxRequests \in [Clients -> Nat] /\ FileUnits \in Nat
  /\ Chunk \in Nat \ {0} /\ SendBuffer \in Nat \ {0}

VARIABLES pc,       (* where the server's thread is                        *)
          batch,    (* revents: the events of this epoll_wait still to do  *)
          event,    (* the one it is at                                    *)
          conn,     (* the OSConnectionHttp of each client                 *)
          client,   (* the state of each client's end                      *)
          asked,    (* what each client asked for                          *)
          up, down, (* the units in each socket, to and from the server    *)
          got       (* the units each client has read                      *)

vars == <<pc, batch, event, conn, client, asked, up, down, got>>

NoFile == 0

NewConnection ==
  [st |-> "none", out |-> FALSE, inbuf |-> <<>>, outbuf |-> <<>>,
   file_obj |-> NoFile, file_remaining |-> 0, keep_alive |-> FALSE]

Init ==
  /\ pc = "wait" /\ batch = {} /\ event = [sock |-> Listener, in |-> FALSE, out |-> FALSE]
  /\ conn   = [c \in Clients |-> NewConnection]
  /\ client = [c \in Clients |-> "new"]
  /\ asked  = [c \in Clients |-> <<>>]
  /\ up     = [c \in Clients |-> <<>>]
  /\ down   = [c \in Clients |-> <<>>]
  /\ got    = [c \in Clients |-> <<>>]

-----------------------------------------------------------------------------
(* What a client should get: the parts of the answer to each request.      *)
Parts(kind) == CASE kind = "page" -> 0..1
                 [] kind = "file" -> 0..FileUnits
                 [] kind = "bad"  -> {}
                 [] OTHER         -> {0}

Due(c) == UNION {{n} \X Parts(asked[c][n].kind) : n \in DOMAIN asked[c]}

Answered(c) == Due(c) \subseteq Range(got[c])

(* The clients.                                                            *)
Connect(c) ==
  /\ client[c] = "new"
  /\ client' = [client EXCEPT ![c] = "connected"]
  /\ UNCHANGED <<pc, batch, event, conn, asked, up, down, got>>

(* A request may arrive in two pieces.                                     *)
Ask(c) ==
  /\ client[c] = "connected" /\ Len(asked[c]) < MaxRequests[c]
  /\ Pipelining \/ Answered(c)
  /\ \E kind \in Kinds[c], keep \in BOOLEAN :
       asked' = [asked EXCEPT ![c] = Append(@, [kind |-> kind, keep |-> keep])]
  /\ LET n == Len(asked[c]) + 1 IN
     \/ /\ up' = [up EXCEPT ![c] = @ \o <<<<n, 1>>, <<n, 2>>>>]
        /\ UNCHANGED client
     \/ /\ up' = [up EXCEPT ![c] = Append(@, <<n, 1>>)]
        /\ client' = [client EXCEPT ![c] = "asking"]
  /\ UNCHANGED <<pc, batch, event, conn, down, got>>

AskRest(c) ==
  /\ client[c] = "asking"
  /\ up' = [up EXCEPT ![c] = Append(@, <<Len(asked[c]), 2>>)]
  /\ client' = [client EXCEPT ![c] = "connected"]
  /\ UNCHANGED <<pc, batch, event, conn, asked, down, got>>

Read(c) ==
  /\ client[c] # "gone" /\ down[c] # <<>>
  /\ got'  = [got EXCEPT ![c] = Append(@, Head(down[c]))]
  /\ down' = [down EXCEPT ![c] = Tail(@)]
  /\ UNCHANGED <<pc, batch, event, conn, client, asked, up>>

HangUp(c) ==
  /\ MayHangUp /\ client[c] \in {"connected", "asking"}
  /\ client' = [client EXCEPT ![c] = "gone"]
  /\ UNCHANGED <<pc, batch, event, conn, asked, up, down, got>>

-----------------------------------------------------------------------------
(* The socket events.  A socket is registered from its accept to its       *)
(* close, for output only while it has an output handler.                  *)
Room(c) == SendBuffer - Len(down[c])

Events(c) ==
  [sock |-> c,
   in   |-> up[c] # <<>> \/ client[c] = "gone",
   out  |-> conn[c].out /\ (Room(c) > 0 \/ client[c] = "gone")]

Pending == {c \in Clients : client[c] # "new" /\ conn[c].st = "none"}

Ready ==
  {e \in {Events(c) : c \in {d \in Clients : conn[d].st = "open"}} : e.in \/ e.out}
    \cup (IF Pending = {} THEN {} ELSE {[sock |-> Listener, in |-> TRUE, out |-> FALSE]})

Network == UNCHANGED <<client, asked, got>>
Become(c, o) == conn' = [conn EXCEPT ![c] = o]

(* WaitForEvents: epoll_wait.                                              *)
WaitForEvents ==
  /\ pc = "wait" /\ Ready # {}
  /\ batch' = Ready /\ pc' = "event"
  /\ UNCHANGED <<event, conn, up, down>> /\ Network

TimeOut ==
  /\ pc = "wait" /\ Ready = {}
  /\ UNCHANGED vars

AtHand == event.in \/ event.out

NextEvent ==
  /\ pc = "event" /\ ~AtHand /\ batch # {}
  /\ \E e \in batch : event' = e /\ batch' = batch \ {e}
  /\ UNCHANGED <<pc, conn, up, down>> /\ Network

(* HandleListener; the client may be gone again, and accept fail for it.   *)
HandleListener ==
  /\ pc = "event" /\ event.sock = Listener /\ event.in
  /\ event' = [event EXCEPT !.in = FALSE]
  /\ \E c \in Pending :
       \/ Become(c, [NewConnection EXCEPT !.st = "open"])
       \/ client[c] = "gone" /\ Become(c, [NewConnection EXCEPT !.st = "deleted"])
  /\ UNCHANGED <<pc, batch, up, down>> /\ Network

(* Mutant: a closed connection is deleted on the spot.                     *)
CloseConnectionNow(o) == [o EXCEPT !.st = "deleted", !.out = FALSE]

(* CloseConnection: removed from the watcher, deleted after the batch.     *)
CloseConnection(o) == [o EXCEPT !.st = "closed", !.out = FALSE]

(* Mutant: file_remaining is not reset.                                    *)
CloseFileFdOnly(o) == [o EXCEPT !.file_obj = NoFile]

CloseFileFd(o) == [o EXCEPT !.file_obj = NoFile, !.file_remaining = 0]

(* EPOLLOUT is handled before EPOLLIN.                                     *)
HandleOutput ==
  /\ pc = "event" /\ event.out
  /\ event' = [event EXCEPT !.out = FALSE]
  /\ pc' = "send"
  /\ UNCHANGED <<batch, conn, up, down>> /\ Network

(* Mutant: the end of the stream is taken for an error and ignored.        *)
HandleInputNoEof ==
  /\ pc = "event" /\ event.sock \in Clients /\ event.in /\ ~event.out
  /\ event' = [event EXCEPT !.in = FALSE]
  /\ LET c == event.sock  o == conn[c] IN
     IF o.st = "open" /\ up[c] # <<>>
     THEN /\ Become(c, [o EXCEPT !.inbuf = @ \o up[c]])
          /\ up' = [up EXCEPT ![c] = <<>>]
          /\ pc' = "process"
     ELSE UNCHANGED <<pc, conn, up>>
  /\ UNCHANGED <<batch, down>> /\ Network

(* HandleInput.  Recv on a socket that was closed a moment ago, for the    *)
(* same event, is an error, and errors are ignored.                        *)
HandleInput ==
  /\ pc = "event" /\ event.sock \in Clients /\ event.in /\ ~event.out
  /\ event' = [event EXCEPT !.in = FALSE]
  /\ LET c == event.sock  o == conn[c] IN
     \/ /\ o.st = "open" /\ up[c] # <<>>
        /\ Become(c, [o EXCEPT !.inbuf = @ \o up[c]])
        /\ up' = [up EXCEPT ![c] = <<>>]
        /\ pc' = "process"
     \/ /\ o.st = "open" /\ up[c] = <<>> /\ client[c] = "gone"
        /\ Become(c, CloseConnection(o))
        /\ UNCHANGED <<pc, up>>
     \/ /\ o.st # "open" \/ (up[c] = <<>> /\ client[c] # "gone")
        /\ UNCHANGED <<pc, conn, up>>
  /\ UNCHANGED <<batch, down>> /\ Network

-----------------------------------------------------------------------------
(* ProcessInData.                                                          *)
HeaderComplete(o) == Len(o.inbuf) >= 2

Incomplete ==
  /\ pc = "process" /\ ~HeaderComplete(conn[event.sock])
  /\ pc' = "event"
  /\ UNCHANGED <<batch, event, conn, up, down>> /\ Network

BadRequest ==
  LET c == event.sock  o == conn[c] IN
  /\ pc = "process" /\ HeaderComplete(o)
  /\ asked[c][o.inbuf[1][1]].kind = "bad"
  /\ Become(c, CloseConnection(o))
  /\ pc' = "event"
  /\ UNCHANGED <<batch, event, up, down>> /\ Network

(* Mutant: the file of a not modified answer is sent all the same.         *)
ProcessRequestSendsAll(o, n, kind) ==
  IF kind \in {"file", "same"}
  THEN [o EXCEPT !.file_obj = n, !.file_remaining = FileUnits]
  ELSE o

(* ProcessRequest with HandleStaticFiles: a page is made in memory, a file *)
(* is opened, and only if it is to be sent file_remaining is its length.   *)
ProcessRequest(o, n, kind) ==
  CASE kind = "file" -> [o EXCEPT !.file_obj = n, !.file_remaining = FileUnits]
    [] kind = "same" -> [o EXCEPT !.file_obj = n]
    [] OTHER         -> o

(* AddHttpOutput: the head and what is in memory.                          *)
InMemory(n, kind) == IF kind = "page" THEN <<<<n, 0>>, <<n, 1>>>> ELSE <<<<n, 0>>>>

Respond ==
  LET c == event.sock  o == conn[c]  n == o.inbuf[1][1]  r == asked[c][n]
      rest == SubSeq(o.inbuf, 3, Len(o.inbuf))
  IN
  /\ pc = "process" /\ HeaderComplete(o) /\ r.kind # "bad"
  /\ Become(c, [ProcessRequest(o, n, r.kind) EXCEPT
                  !.keep_alive = r.keep,
                  !.outbuf = @ \o InMemory(n, r.kind),
                  !.inbuf = rest])
  /\ pc' = IF rest = <<>> THEN "send" ELSE "process"
  /\ UNCHANGED <<batch, event, up, down>> /\ Network

-----------------------------------------------------------------------------
(* SendOutput.                                                             *)
Abort(c) ==
  /\ Become(c, CloseConnection(CloseFileFd([conn[c] EXCEPT !.outbuf = <<>>])))
  /\ pc' = "event"

(* Mutant: no output handler is set for the rest.                          *)
SendOnce(c, o, k) ==
  /\ Become(c, [o EXCEPT !.outbuf = SubSeq(@, k + 1, Len(@))])
  /\ pc' = IF k = Len(o.outbuf) THEN "send" ELSE "event"

SendRest(c, o, k) ==
  /\ Become(c, [o EXCEPT !.outbuf = SubSeq(@, k + 1, Len(@)),
                         !.out = IF k = Len(o.outbuf) THEN @ ELSE TRUE])
  /\ pc' = IF k = Len(o.outbuf) THEN "send" ELSE "event"

(* The kernel takes what it has room for; without room Send fails with     *)
(* EAGAIN, and any failure closes the connection.  What is sent to a       *)
(* client that is gone may be taken once more before it is an error.       *)
Send ==
  LET c == event.sock  o == conn[c]
      k == IF Room(c) < Len(o.outbuf) THEN Room(c) ELSE Len(o.outbuf)
  IN
  /\ pc = "send" /\ o.outbuf # <<>>
  /\ \/ /\ k > 0
        /\ SendRest(c, o, k)
        /\ down' = [down EXCEPT ![c] = @ \o SubSeq(o.outbuf, 1, k)]
     \/ (k = 0 \/ client[c] = "gone") /\ Abort(c) /\ UNCHANGED down
  /\ UNCHANGED <<batch, event, up>> /\ Network

ReadFile ==
  LET c == event.sock  o == conn[c]
      k == IF o.file_remaining < Chunk THEN o.file_remaining ELSE Chunk
      at == FileUnits - o.file_remaining
  IN
  /\ pc = "send" /\ o.outbuf = <<>>
  /\ o.file_obj # NoFile /\ o.file_remaining > 0
  /\ \/ /\ Become(c, [o EXCEPT !.outbuf = [i \in 1..k |-> <<o.file_obj, at + i>>],
                               !.file_remaining = @ - k])
        /\ UNCHANGED pc
     \/ FilesShrink /\ Abort(c)
  /\ UNCHANGED <<batch, event, up, down>> /\ Network

Sent ==
  LET c == event.sock  o == CloseFileFd([conn[c] EXCEPT !.out = FALSE]) IN
  /\ pc = "send" /\ conn[c].outbuf = <<>>
  /\ conn[c].file_obj = NoFile \/ conn[c].file_remaining = 0
  /\ Become(c, IF o.keep_alive THEN o ELSE CloseConnection(o))
  /\ pc' = "event"
  /\ UNCHANGED <<batch, event, up, down>> /\ Network

(* The end of the batch: "here is safe to delete them".                    *)
DeleteClosed ==
  /\ pc = "event" /\ ~AtHand /\ batch = {}
  /\ conn' = [c \in Clients |->
                IF conn[c].st = "closed" THEN [NewConnection EXCEPT !.st = "deleted"]
                                         ELSE conn[c]]
  /\ pc' = "wait"
  /\ UNCHANGED <<batch, event, up, down>> /\ Network

Server ==
  \/ WaitForEvents \/ NextEvent \/ HandleListener \/ HandleOutput \/ HandleInput
  \/ Incomplete \/ BadRequest \/ Respond \/ Send \/ ReadFile \/ Sent
  \/ DeleteClosed

Next ==
  \/ Server \/ TimeOut
  \/ \E c \in Clients :
       Connect(c) \/ Ask(c) \/ AskRest(c) \/ Read(c) \/ HangUp(c)

Spec == Init /\ [][Next]_vars

(* The loop runs as long as the program does, a client that asked sends    *)
(* the rest and reads what comes.                                          *)
LiveSpec ==
  Spec /\ WF_vars(Server) /\ \A c \in Clients : WF_vars(Read(c) \/ AskRest(c))
-----------------------------------------------------------------------------
Event == [sock : Clients \cup {Listener}, in : BOOLEAN, out : BOOLEAN]
Unit  == Nat \X Nat
Request == [kind : {"page", "file", "same", "missing", "bad"}, keep : BOOLEAN]
Connection ==
  [st : {"none", "open", "closed", "deleted"}, out : BOOLEAN,
   inbuf : Seq(Unit), outbuf : Seq(Unit),
   file_obj : Nat, file_remaining : 0..FileUnits, keep_alive : BOOLEAN]

(* What a client asked for, its two sockets and its connection fit         *)
(* together.                                                               *)
Consistent(c) ==
  /\ \A i \in DOMAIN up[c] : up[c][i][1] \in DOMAIN asked[c]
  /\ \A i \in DOMAIN conn[c].inbuf : conn[c].inbuf[i][1] \in DOMAIN asked[c]
  /\ client[c] = "asking" => asked[c] # <<>>
  /\ conn[c].out => conn[c].st = "open"
  /\ conn[c].file_obj = NoFile => conn[c].file_remaining = 0
  /\ Len(down[c]) <= SendBuffer

(* The variables keep their types; what is received was asked for, only an *)
(* open connection is watched for output, one without a file has nothing   *)
(* left to read, and the socket never holds more than it may.              *)
TypeOK ==
  /\ pc \in {"wait", "event", "process", "send"}
  /\ event \in Event /\ batch \subseteq Event
  /\ conn \in [Clients -> Connection]
  /\ client \in [Clients -> {"new", "connected", "asking", "gone"}]
  /\ asked \in [Clients -> Seq(Request)]
  /\ up \in [Clients -> Seq(Unit)] /\ down \in [Clients -> Seq(Unit)]
  /\ \A c \in Clients : Consistent(c)

(* No event of a batch is handled on a connection that was deleted: a      *)
(* handler that closes its own connection leaves the object alone until    *)
(* the events of this epoll_wait are done.                                 *)
NoDeletedInUse ==
  /\ \A e \in batch : e.sock \in Clients => conn[e.sock].st # "deleted"
  /\ (AtHand \/ pc \in {"process", "send"}) /\ event.sock \in Clients =>
       conn[event.sock].st # "deleted"

(* The units in s are due, in the order of the requests and within each    *)
(* answer, and none that should come before them is left out.              *)
Before(u, v) == u[1] < v[1] \/ (u[1] = v[1] /\ u[2] < v[2])

IsBeginning(s, due) ==
  \A i \in DOMAIN s :
    /\ s[i] \in due
    /\ \A u \in due : Before(u, s[i]) <=> \E j \in 1..(i - 1) : s[j] = u

(* What a client reads, what is on its way to it and what waits to be sent *)
(* to it are, in this order, the beginning of the answers to its requests. *)
AnswersInOrder ==
  \A c \in Clients : IsBeginning(got[c] \o down[c] \o conn[c].outbuf, Due(c))

(* Output does not lie in an open connection that nobody will send on.     *)
OutputNeverStranded ==
  pc = "wait" => \A c \in Clients :
    conn[c].outbuf # <<>> \/ conn[c].file_remaining > 0 => conn[c].out

(* What a client receives is what it asked for, in the order it asked, and *)
(* nothing that is ready to be sent waits without a handler for it.        *)
AnswersComplete == AnswersInOrder /\ OutputNeverStranded

(* The server closes a connection, before its client does, only when it    *)
(* has sent the answers to all requests: nobody who reads on is cut off.   *)
NobodyCutOff ==
  \A c \in Clients :
    /\ client[c] # "gone" /\ conn[c].st \in {"closed", "deleted"}
    /\ \A n \in DOMAIN asked[c] : asked[c][n].kind # "bad"
    => Due(c) \subseteq Range(got[c] \o down[c])

(* A client that has asked and stays gets the whole answer, or the end of  *)
(* the connection.                                                         *)
EveryRequestEnds ==
  \A c \in Clients :
    client[c] = "connected" /\ ~Answered(c)
      ~> Answered(c) \/ client[c] = "gone"
         \/ conn[c].st \in {"closed", "deleted"}

(* A connection whose client left is given up, whatever it was busy with.  *)
GoneClientsFreed ==
  \A c \in Clients : client[c] = "gone" ~> conn[c].st = "deleted"
=============================================================================
