-------------------------------- MODULE DoIp --------------------------------
(* DoIpTransport on POSIX: the accept thread, which serves one tester's TCP
   connection at a time, the testers, and shutdown() in the thread that calls
   it.  TCP and the blocking system calls are taken from Linux: what arrives
   does so in order, and a call that is blocked in accept() or recv() goes on
   blocking when another thread closes the descriptor.  Descriptor numbers are
   not modelled, so neither is their reuse.                                  *)
EXTENDS Uds, Sequences, FiniteSets

CONSTANTS Testers,       \* DoIP testers, a connection each at most
          MaxMessages    \* bound: DoIP messages sent, all testers together

Nobody == "nobody"

ASSUME DoIpAssumption == MaxMessages \in Nat /\ Nobody \notin Testers

VARIABLES running,       \* running_
          listening,     \* listen_fd_ is valid
          client,        \* whose connection client_fd_ is, or Nobody
          ip,            \* the accept thread: where, and whom it serves
          stop,          \* how far shutdown() is
          conn,          \* each tester's connection
          asked,         \* history: all messages sent on the connection
          toServer,      \* those of them not yet read
          toTester       \* what the tester was sent on the connection

ipVars == <<running, listening, client, ip, stop, conn, asked, toServer, toTester>>
wire   == <<asked, toServer, toTester>>

(* diag: a diagnostic message that carries a request.  service: routing
   activation or alive check.  ignored: an unknown type, or too short for its
   type.  version: wrong version bytes.  oversize: a payload over 64 KiB.    *)
Messages ==
    [kind : {"diag"}, req : Requests]
        \cup [kind : {"service", "ignored", "version", "oversize"}]

(* What one message is answered with, the answer to a request abstracted. *)
RepliesTo(m) ==
    CASE m.kind = "diag"    -> <<"ack", m.req.sid>>
      [] m.kind = "service" -> <<"service">>
      [] m.kind = "version" -> <<"nack">>
      [] OTHER              -> <<>>

Replies == {"ack", "nack", "service"} \cup {r.sid : r \in AllRequests}

Places == {"loop", "accepting", "next", "receiving", "handling", "closing", "ended", "killed"}

DoIpTypeOK ==
    /\ running \in BOOLEAN /\ listening \in BOOLEAN
    /\ client \in Testers \cup {Nobody}
    /\ ip \in [pc : Places, peer : Testers \cup {Nobody}]
    /\ stop \in {"up", "client", "listen", "join", "done"}
    /\ conn \in [Testers -> {"off", "queued", "open", "left", "reset"}]
    /\ asked \in [Testers -> Seq(Messages)] /\ toServer \in [Testers -> Seq(Messages)]
    /\ toTester \in [Testers -> Seq(Replies)]

DoIpInit ==
    /\ running = TRUE /\ listening = TRUE
    /\ client = Nobody
    /\ ip = [pc |-> "loop", peer |-> Nobody]
    /\ stop = "up"
    /\ conn = [t \in Testers |-> "off"]
    /\ asked = [t \in Testers |-> <<>>]
    /\ toServer = [t \in Testers |-> <<>>]
    /\ toTester = [t \in Testers |-> <<>>]

(* Mistake: a version the server does not speak is answered and forgotten. *)
AfterMessage_Next(m) == "next"

AfterMessage(m) == IF m.kind \in {"version", "oversize"} THEN "closing" ELSE "next"

At(pc)   == ip.pc = pc
Goto(pc) == ip' = [ip EXCEPT !.pc = pc]

-----------------------------------------------------------------------------
(* The testers.  A new connection waits in the backlog until it is accepted; a
   thread that is blocked in accept() keeps the socket alive.                *)
Connect(t) ==
    /\ conn[t] = "off"
    /\ listening \/ At("accepting")
    /\ conn' = [conn EXCEPT ![t] = "queued"]
    /\ UNCHANGED <<udsVars, running, listening, client, ip, stop, wire>>

SendMessage(t, m) ==
    /\ conn[t] \in {"queued", "open"}
    /\ Len(asked[t]) < MaxMessages
    /\ asked' = [asked EXCEPT ![t] = Append(@, m)]
    /\ toServer' = [toServer EXCEPT ![t] = Append(@, m)]
    /\ UNCHANGED <<udsVars, running, listening, client, ip, stop, conn, toTester>>

Leave(t) ==
    /\ conn[t] \in {"queued", "open"}
    /\ conn' = [conn EXCEPT ![t] = "left"]
    /\ UNCHANGED <<udsVars, running, listening, client, ip, stop, wire>>

-----------------------------------------------------------------------------
(* sendRaw(): nothing is sent when shutdown() has taken the descriptor.  What
   is sent to a tester that has left is lost, and answered with a reset; to
   send after that raises SIGPIPE, which the program does not ignore.        *)
SendRaw(reply, pc) ==
    LET t == ip.peer
        open == client = t /\ conn[t] = "open"
        left == client = t /\ conn[t] = "left" IN
    /\ toTester' = IF open THEN [toTester EXCEPT ![t] = Append(@, reply)] ELSE toTester
    /\ conn' \in {conn} \cup (IF left THEN {[conn EXCEPT ![t] = "reset"]} ELSE {})
    /\ Goto(IF client = t /\ conn[t] = "reset" THEN "killed" ELSE pc)

(* acceptLoop(): the loop's conditions, and accept() is called. *)
AcceptLoop ==
    /\ At("loop")
    /\ Goto(IF running /\ listening THEN "accepting" ELSE "ended")
    /\ UNCHANGED <<udsVars, running, listening, client, stop, conn, wire>>

Accept(t) ==
    /\ At("accepting")
    /\ conn[t] \in {"queued", "left"}
    /\ conn' = [conn EXCEPT ![t] = IF @ = "queued" THEN "open" ELSE @]
    /\ client' = t
    /\ ip' = [pc |-> "next", peer |-> t]
    /\ UNCHANGED <<udsVars, running, listening, stop, wire>>

(* handleConnection(): the loop's condition, and recv() is called. *)
NextMessage ==
    /\ At("next")
    /\ Goto(IF running THEN "receiving" ELSE "closing")
    /\ UNCHANGED <<udsVars, running, listening, client, stop, conn, wire>>

ReadMessage(t) == toServer' = [toServer EXCEPT ![t] = Tail(@)]

(* A message has arrived.  Once shutdown() has begun, readExact() reads no
   payload any more: an alive check, which has none, and a wrong version are
   still answered.                                                           *)
Receive ==
    /\ At("receiving") /\ toServer[ip.peer] # <<>>
    /\ ReadMessage(ip.peer)
    /\ LET m == Head(toServer[ip.peer]) IN
       \/ /\ m.kind = "diag" /\ running
          /\ SendRaw("ack", "handling")
          /\ Ask("doip", m.req)
       \/ /\ m.kind = "service"
          /\ SendRaw("service", "next") /\ UNCHANGED task
       \/ /\ m.kind = "version"
          /\ SendRaw("nack", AfterMessage(m)) /\ UNCHANGED task
       \/ /\ m.kind \in {"ignored", "oversize"} /\ running
          /\ Goto(AfterMessage(m))
          /\ UNCHANGED <<conn, toTester, task>>
       \/ /\ m.kind # "version" /\ ~running
          /\ Goto("closing") /\ UNCHANGED <<conn, toTester, task>>
    /\ UNCHANGED <<session, controlled, running, listening, client, stop, asked>>

(* recv() sees the end of the stream. *)
EndOfStream ==
    /\ At("receiving") /\ toServer[ip.peer] = <<>>
    /\ conn[ip.peer] \in {"left", "reset"}
    /\ Goto("closing")
    /\ UNCHANGED <<udsVars, running, listening, client, stop, conn, wire>>

(* Mistake: only a positive answer is sent. *)
Reply_Positive ==
    /\ At("handling") /\ task["doip"].pc = "answered"
    /\ IF task["doip"].answer.ok THEN SendRaw(task["doip"].req.sid, "next")
                                 ELSE Goto("next") /\ UNCHANGED <<conn, toTester>>
    /\ Take("doip")
    /\ UNCHANGED <<session, controlled, running, listening, client, stop, asked, toServer>>

Reply ==
    /\ At("handling") /\ task["doip"].pc = "answered"
    /\ SendRaw(task["doip"].req.sid, "next")
    /\ Take("doip")
    /\ UNCHANGED <<session, controlled, running, listening, client, stop, asked, toServer>>

(* accept() and recv() fail if shutdown() closed the descriptor just before they
   were called, and do not notice it if it was closed just after.            *)
CalledTooLate ==
    /\ \/ At("accepting") /\ ~listening /\ Goto("loop")
       \/ At("receiving") /\ client = Nobody /\ Goto("closing")
    /\ UNCHANGED <<udsVars, running, listening, client, stop, conn, wire>>

CloseConnection ==
    /\ At("closing")
    /\ client' = Nobody
    /\ conn' = [conn EXCEPT ![ip.peer] = "off"]
    /\ ip' = [pc |-> "loop", peer |-> Nobody]
    /\ asked' = [asked EXCEPT ![ip.peer] = <<>>]
    /\ toServer' = [toServer EXCEPT ![ip.peer] = <<>>]
    /\ toTester' = [toTester EXCEPT ![ip.peer] = <<>>]
    /\ UNCHANGED <<udsVars, running, listening, stop>>

-----------------------------------------------------------------------------
(* shutdown(), one step per access to what the accept thread uses. *)
Shutdown ==
    /\ stop = "up"
    /\ running' = FALSE
    /\ stop' = "client"
    /\ UNCHANGED <<udsVars, listening, client, ip, conn, wire>>

CloseClient ==
    /\ stop = "client"
    /\ client' = Nobody
    /\ stop' = "listen"
    /\ UNCHANGED <<udsVars, running, listening, ip, conn, wire>>

CloseListener ==
    /\ stop = "listen"
    /\ listening' = FALSE
    /\ stop' = "join"
    /\ UNCHANGED <<udsVars, running, client, ip, conn, wire>>

(* Mistake: the thread is not joined. *)
Join_Detach ==
    /\ stop = "join"
    /\ stop' = "done"
    /\ UNCHANGED <<udsVars, running, listening, client, ip, conn, wire>>

Join ==
    /\ stop = "join" /\ At("ended")
    /\ stop' = "done"
    /\ UNCHANGED <<udsVars, running, listening, client, ip, conn, wire>>

AcceptThread ==
    \/ AcceptLoop \/ NextMessage \/ Receive \/ EndOfStream \/ Reply
    \/ CloseConnection
    \/ \E t \in Testers : Accept(t)

ShutdownStep == CloseClient \/ CloseListener \/ Join

=============================================================================
