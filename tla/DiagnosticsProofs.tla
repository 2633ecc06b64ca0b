-------------------------- MODULE DiagnosticsProofs --------------------------
(* Theorems about Diagnostics, for any testers and requests and any number of
   messages and frames.                                                       *)
EXTENDS Diagnostics, FiniteSetTheorems, TLAPS

Tasks == [pc : {"idle", "asked", "permitted", "answered"}, req : AllRequests, answer : Answers]

(* The types the steps rest on. *)
TasksTyped == task \in [Threads -> Tasks]

IpTyped ==
    /\ ip \in [pc : Places, peer : Testers \cup {Nobody}]
    /\ client \in Testers \cup {Nobody}
    /\ conn \in [Testers -> {"off", "queued", "open", "left", "reset"}]
    /\ toServer \in [Testers -> Seq(Messages)]

Serving == {"next", "receiving", "handling", "closing", "killed"}

(* The accept thread serves whom it accepted: the descriptor is that tester's
   or gone, nobody else's connection is open, and the handler is at work for
   the thread only while it handles a message.  The listening descriptor and
   the thread's end tell how far shutdown() is.                               *)
ServerInv ==
    /\ ip.pc \in Serving => ip.peer \in Testers
    /\ ip.pc \notin Serving => client = Nobody
    /\ client \in {Nobody, ip.peer}
    /\ \A t \in Testers :
          conn[t] \in {"open", "reset"} => ip.pc \in Serving /\ ip.peer = t
    /\ task["doip"].pc # "idle" => ip.pc \in {"handling", "killed"}
    /\ listening <=> stop \in {"up", "client", "listen"}
    /\ stop = "done" => At("ended")

QuietInv == TasksTyped /\ IpTyped /\ ServerInv

-----------------------------------------------------------------------------
(* What one call does to a thread's request. *)

LEMMA YesAndNo ==
    /\ No \in Answers
    /\ \A size \in {2, 3, 4, 6, 20} : Yes(size) \in Answers
    /\ \A did \in DOMAIN DataSize : Yes(3 + DataSize[did]) \in Answers
<1>1. No \in Answers BY DEF No, Answers
<1>2. \A size \in {2, 3, 4, 6, 20} : Yes(size) \in Answers BY DEF Yes, Answers
<1>3. \A did \in DOMAIN DataSize : 3 + DataSize[did] \in {4, 6, 20} BY DEF DataSize
<1>4. QED BY <1>1, <1>2, <1>3

LEMMA RestingType == Resting \in Tasks /\ Resting.pc = "idle"
  BY YesAndNo DEF Resting, Tasks, AllRequests

(* Only the thread's own request changes. *)
OthersKeep(th) == \A u \in Threads \ {th} : task'[u] = task[u]

LEMMA AskStep ==
    ASSUME TasksTyped, NEW th \in Threads, NEW r \in Requests, Ask(th, r)
    PROVE  TasksTyped' /\ OthersKeep(th) /\ task'[th].pc = "asked"
  BY RequestsAssumption DEF TasksTyped, Tasks, Ask, OthersKeep

LEMMA TakeStep ==
    ASSUME TasksTyped, NEW th \in Threads, Take(th)
    PROVE  TasksTyped' /\ OthersKeep(th) /\ task'[th].pc = "idle"
  BY RestingType DEF TasksTyped, Take, OthersKeep

LEMMA AnswerStep ==
    ASSUME TasksTyped, NEW th \in Threads, NEW a \in Answers, Answer(th, a)
    PROVE  /\ TasksTyped' /\ OthersKeep(th) /\ task'[th].pc = "answered"
           /\ task'[th].req = task[th].req
  BY DEF TasksTyped, Tasks, Answer, OthersKeep

(* A step of the handler serves a request under way.  It changes the session
   only before it asks a provider, permits a control only in the extended
   session, and controls only what was permitted.                             *)
LEMMA UdsSteps ==
    ASSUME TasksTyped, NEW th \in Threads, UdsStep(th)
    PROVE  /\ TasksTyped' /\ OthersKeep(th)
           /\ task[th].pc # "idle" /\ task'[th].pc # "idle"
           /\ task'[th].req = task[th].req
           /\ task'[th].pc = "permitted" => session' = "extended"
           /\ controlled' # controlled =>
                task[th].pc = "permitted" /\ UNCHANGED session
<1>1. CASE HandleRequest(th)
  <2>1. CASE SessionControl(th)
    <3>1. PICK a \in Answers : Answer(th, a)
      BY <2>1, YesAndNo, Zenon DEF SessionControl
    <3>2. QED BY <1>1, <2>1, <3>1, AnswerStep DEF HandleRequest, SessionControl
  <2>2. CASE ReadDataById(th)
    <3>1. PICK a \in Answers : Answer(th, a)
      BY <2>2, YesAndNo, Zenon DEF ReadDataById
    <3>2. QED BY <1>1, <2>2, <3>1, AnswerStep DEF HandleRequest, ReadDataById
  <2>3. CASE ReadDtc(th)
    <3>1. Answer(th, Yes(2)) /\ Yes(2) \in Answers BY <2>3, YesAndNo DEF ReadDtc
    <3>2. QED BY <1>1, <2>3, <3>1, AnswerStep DEF HandleRequest, ReadDtc
  <2>4. CASE PermitIoControl(th)
    <3>1. CASE session = "extended"
      BY <1>1, <2>4, <3>1 DEF HandleRequest, PermitIoControl, TasksTyped, Tasks, OthersKeep
    <3>2. CASE session # "extended"
      BY <1>1, <2>4, <3>2, YesAndNo, AnswerStep DEF HandleRequest, PermitIoControl
    <3>3. QED BY <3>1, <3>2
  <2>5. CASE Answer(th, No) /\ UNCHANGED <<session, controlled>>
    BY <1>1, <2>5, YesAndNo, AnswerStep DEF HandleRequest
  <2>6. QED BY <1>1, <2>1, <2>2, <2>3, <2>4, <2>5, Zenon DEF HandleRequest
<1>2. CASE IoControl(th)
  <2>1. PICK a \in Answers : Answer(th, a) BY <1>2, YesAndNo, Zenon DEF IoControl
  <2>2. QED BY <1>2, <2>1, AnswerStep DEF IoControl
<1>3. QED BY <1>1, <1>2 DEF UdsStep

-----------------------------------------------------------------------------
(* A step of the whole, seen from the request handler: one thread goes on with
   its request, is asked for one, or takes its answer; or none of them.       *)

Untouched == UNCHANGED udsVars
canVars   == <<frames, canReplies>>

DoIpAsked == \E r \in Requests : Ask("doip", r) /\ UNCHANGED <<session, controlled>>
Taken(th) == Take(th) /\ UNCHANGED <<session, controlled>>


LEMMA ReceiveAsks ==
    ASSUME QuietInv, Receive
    PROVE  \/ Untouched
           \/ DoIpAsked /\ ip'.pc \in {"handling", "killed"}
<1> DEFINE m == Head(toServer[ip.peer])
<1>1. ip.peer \in Testers /\ ip.pc = "receiving"
  BY DEF Receive, At, QuietInv, ServerInv, Serving
<1>2. m \in Messages
  BY <1>1 DEF Receive, QuietInv, IpTyped
<1>3. m.kind = "diag" => m.req \in Requests BY <1>2 DEF Messages
<1>4. UNCHANGED <<session, controlled>> BY DEF Receive
<1>5. \/ m.kind = "diag" /\ SendRaw("ack", "handling") /\ Ask("doip", m.req)
      \/ UNCHANGED task
  BY Zenon DEF Receive
<1>6. CASE UNCHANGED task BY <1>4, <1>6 DEF Untouched, udsVars
<1>7. CASE m.kind = "diag" /\ SendRaw("ack", "handling") /\ Ask("doip", m.req)
  <2>1. DoIpAsked BY <1>3, <1>4, <1>7 DEF DoIpAsked
  <2>2. ip'.pc \in {"handling", "killed"}
    BY <1>7 DEF SendRaw, Goto, QuietInv, IpTyped
  <2>3. QED BY <2>1, <2>2
<1>8. QED BY <1>5, <1>6, <1>7

LEMMA HandlerSteps ==
    ASSUME QuietInv, [Next]_vars
    PROVE  \/ Untouched /\ UNCHANGED canVars
           \/ DoIpAsked /\ UNCHANGED canVars
           \/ Taken("doip") /\ UNCHANGED canVars
           \/ UdsStep("doip") /\ UNCHANGED canVars
           \/ UdsStep("docan") /\ UNCHANGED canVars
           \/ Taken("docan") /\ SendCanResponse
           \/ frames' # <<>> /\ \E r \in Requests : OnCanFrame(r)
<1>1. CASE DoIpThread
  <2>1. CASE UdsStep("doip") BY <1>1, <2>1 DEF DoIpThread, canVars, AcceptThread, AcceptLoop,
      NextMessage, Receive, EndOfStream, Reply, CloseConnection, Accept
  <2>2. ASSUME AcceptThread, UNCHANGED canVars
        PROVE  \/ Untouched \/ DoIpAsked \/ Taken("doip")
    <3>1. CASE Receive BY <3>1, ReceiveAsks
    <3>2. CASE Reply BY <3>2 DEF Reply, Taken
    <3>3. CASE AcceptLoop \/ NextMessage \/ EndOfStream \/ CloseConnection
                 \/ \E t \in Testers : Accept(t)
      BY <3>3, Zenon DEF AcceptLoop, NextMessage, EndOfStream, CloseConnection, Accept, Untouched
    <3>4. QED BY <2>2, <3>1, <3>2, <3>3 DEF AcceptThread
  <2>3. QED BY <1>1, <2>1, <2>2 DEF DoIpThread, canVars
<1>2. CASE CanThread BY <1>2 DEF CanThread, SendCanResponse, Taken, canVars
<1>3. ASSUME NEW r \in Requests, OnCanFrame(r)
      PROVE  frames' # <<>>
  BY <1>3 DEF OnCanFrame
<1>4. CASE (Environment \/ ShutdownStep) /\ UNCHANGED <<frames, canReplies>>
  <2>1. Untouched
    BY <1>4, Zenon DEF Environment, ShutdownStep, Connect, Leave, SendMessage, Shutdown,
       CalledTooLate, CloseClient, CloseListener, Join, Untouched
  <2>2. QED BY <1>4, <2>1 DEF canVars
<1>5. CASE UNCHANGED vars BY <1>5 DEF vars, udsVars, canVars, Untouched
<1>6. QED BY <1>1, <1>2, <1>3, <1>4, <1>5, Zenon DEF Next

-----------------------------------------------------------------------------
(* The accept thread and shutdown(). *)

LEMMA QuietInit == Init => QuietInv
<1> SUFFICES ASSUME Init PROVE QuietInv
  OBVIOUS
<1>1. TasksTyped BY RestingType DEF Init, UdsInit, TasksTyped
<1>2. IpTyped BY DEF Init, DoIpInit, IpTyped, Places
<1>3. ServerInv
  BY RestingType DEF Init, UdsInit, DoIpInit, ServerInv, Serving, Threads
<1>4. QED BY <1>1, <1>2, <1>3 DEF QuietInv

LEMMA TasksStep ==
    ASSUME QuietInv, [Next]_vars
    PROVE  TasksTyped'
<1>1. TasksTyped BY DEF QuietInv
<1>2. "doip" \in Threads /\ "docan" \in Threads BY DEF Threads
<1>3. CASE Untouched BY <1>1, <1>3 DEF TasksTyped, Untouched, udsVars
<1>4. CASE DoIpAsked BY <1>1, <1>2, <1>4, AskStep DEF DoIpAsked
<1>5. ASSUME NEW th \in Threads, Taken(th) PROVE TasksTyped'
  BY <1>1, <1>5, TakeStep DEF Taken
<1>6. ASSUME NEW th \in Threads, UdsStep(th) PROVE TasksTyped' BY <1>1, <1>6, UdsSteps
<1>7. ASSUME NEW r \in Requests, OnCanFrame(r) PROVE TasksTyped'
  BY <1>1, <1>2, <1>7, AskStep DEF OnCanFrame
<1>8. QED BY <1>2, <1>3, <1>4, <1>5, <1>6, <1>7, HandlerSteps, Zenon

(* A reply goes to the tester whose connection the descriptor is, and may find
   it gone.                                                                   *)
LEMMA SendRawStep ==
    ASSUME QuietInv, ip.pc \in Serving, NEW reply, NEW pc \in Places, SendRaw(reply, pc)
    PROVE  /\ ip' \in [pc : Places, peer : Testers \cup {Nobody}]
           /\ ip'.peer = ip.peer /\ ip'.pc \in {pc, "killed"}
           /\ conn' \in [Testers -> {"off", "queued", "open", "left", "reset"}]
           /\ \A t \in Testers \ {ip.peer} : conn'[t] = conn[t]
  BY DEF SendRaw, Goto, QuietInv, IpTyped, ServerInv, Places

LEMMA GotoStep ==
    ASSUME IpTyped, NEW pc \in Places, Goto(pc)
    PROVE  /\ ip' \in [pc : Places, peer : Testers \cup {Nobody}]
           /\ ip'.pc = pc /\ ip'.peer = ip.peer
  BY DEF IpTyped, Goto

LEMMA ReceiveStep ==
    ASSUME QuietInv, Receive
    PROVE  IpTyped' /\ (TasksTyped' => ServerInv')
<1> DEFINE m == Head(toServer[ip.peer])
<1>1. /\ ip.peer \in Testers /\ ip.pc = "receiving" /\ task["doip"].pc = "idle"
      /\ client \in {Nobody, ip.peer}
      /\ IpTyped
      /\ UNCHANGED <<listening, client, stop>>
  BY DEF Receive, At, QuietInv, ServerInv, Serving
<1>2. toServer' \in [Testers -> Seq(Messages)]
  BY <1>1 DEF Receive, ReadMessage, IpTyped
<1>3. AfterMessage(m) \in {"next", "closing"} BY DEF AfterMessage
<1>4. PICK pc \in {"handling", "next", "closing"} :
        /\ \/ \E reply : SendRaw(reply, pc)
           \/ Goto(pc) /\ UNCHANGED conn
        /\ pc = "handling" \/ UNCHANGED task
  BY <1>3, Zenon DEF Receive
<1>5. pc \in Places /\ pc \in Serving /\ ip.pc \in Serving BY <1>1 DEF Places, Serving
<1>6. /\ ip' \in [pc : Places, peer : Testers \cup {Nobody}]
      /\ ip'.peer = ip.peer /\ ip'.pc \in {pc, "killed"}
      /\ conn' \in [Testers -> {"off", "queued", "open", "left", "reset"}]
      /\ \A t \in Testers \ {ip.peer} : conn'[t] = conn[t]
  BY <1>1, <1>4, <1>5, SendRawStep, GotoStep DEF IpTyped
<1>7. IpTyped' BY <1>1, <1>2, <1>6 DEF IpTyped
<1>8. ServerInv'
  BY <1>1, <1>4, <1>5, <1>6 DEF QuietInv, ServerInv, Serving, At
<1>9. QED BY <1>7, <1>8

LEMMA ReplyStep ==
    ASSUME QuietInv, Reply
    PROVE  IpTyped' /\ ServerInv'
<1>1. /\ ip.pc = "handling" /\ ip.pc \in Serving /\ IpTyped /\ TasksTyped
      /\ SendRaw(task["doip"].req.sid, "next") /\ Take("doip")
      /\ UNCHANGED <<toServer, listening, client, stop>>
  BY DEF Reply, At, QuietInv, Serving
<1>2. "next" \in Places /\ "next" \in Serving BY DEF Places, Serving
<1>3. /\ ip' \in [pc : Places, peer : Testers \cup {Nobody}]
      /\ ip'.peer = ip.peer /\ ip'.pc \in {"next", "killed"}
      /\ conn' \in [Testers -> {"off", "queued", "open", "left", "reset"}]
      /\ \A t \in Testers \ {ip.peer} : conn'[t] = conn[t]
  BY <1>1, <1>2, SendRawStep
<1>4. task'["doip"].pc = "idle" BY <1>1, TakeStep DEF Threads
<1>5. IpTyped' BY <1>1, <1>3 DEF IpTyped
<1>6. ServerInv' BY <1>1, <1>3, <1>4 DEF QuietInv, ServerInv, Serving, At
<1>7. QED BY <1>5, <1>6

(* The steps of the accept thread that leave the requests alone. *)
LEMMA AcceptThreadStep ==
    ASSUME QuietInv,
           \/ AcceptLoop \/ NextMessage \/ EndOfStream \/ CloseConnection \/ CalledTooLate
           \/ \E t \in Testers : Accept(t)
    PROVE  IpTyped' /\ ServerInv'
<1>0. IpTyped /\ ServerInv BY DEF QuietInv
<1>1. CASE AcceptLoop
  <2>1. PICK pc \in {"accepting", "ended"} : Goto(pc) BY <1>1, Zenon DEF AcceptLoop
  <2>2. /\ ip' \in [pc : Places, peer : Testers \cup {Nobody}]
        /\ ip'.pc = pc /\ ip'.peer = ip.peer
    BY <1>0, <2>1, GotoStep DEF Places
  <2>3. IpTyped' BY <1>0, <1>1, <2>2 DEF AcceptLoop, IpTyped, wire
  <2>4. ServerInv'
    BY <1>0, <1>1, <2>2 DEF AcceptLoop, ServerInv, Serving, At, udsVars
  <2>5. QED BY <2>3, <2>4
<1>2. CASE NextMessage
  <2>1. PICK pc \in {"receiving", "closing"} : Goto(pc) BY <1>2, Zenon DEF NextMessage
  <2>2. /\ ip' \in [pc : Places, peer : Testers \cup {Nobody}]
        /\ ip'.pc = pc /\ ip'.peer = ip.peer
    BY <1>0, <2>1, GotoStep DEF Places
  <2>3. IpTyped' BY <1>0, <1>2, <2>2 DEF NextMessage, IpTyped, wire
  <2>4. ServerInv'
    BY <1>0, <1>2, <2>2 DEF NextMessage, ServerInv, Serving, At, udsVars
  <2>5. QED BY <2>3, <2>4
<1>3. CASE EndOfStream
  <2>1. Goto("closing") BY <1>3 DEF EndOfStream
  <2>2. /\ ip' \in [pc : Places, peer : Testers \cup {Nobody}]
        /\ ip'.pc = "closing" /\ ip'.peer = ip.peer
    BY <1>0, <2>1, GotoStep DEF Places
  <2>3. IpTyped' BY <1>0, <1>3, <2>2 DEF EndOfStream, IpTyped, wire
  <2>4. ServerInv'
    BY <1>0, <1>3, <2>2 DEF EndOfStream, ServerInv, Serving, At, udsVars
  <2>5. QED BY <2>3, <2>4
<1>4. CASE CloseConnection
  <2>1. ip.peer \in Testers /\ ip.pc = "closing"
    BY <1>0, <1>4 DEF CloseConnection, At, ServerInv, Serving
  <2>2. IpTyped'
    BY <1>0, <1>4, <2>1 DEF CloseConnection, IpTyped, Places
  <2>3. ServerInv'
    BY <1>0, <1>4, <2>1 DEF CloseConnection, IpTyped, ServerInv, Serving, At, udsVars
  <2>4. QED BY <2>2, <2>3
<1>5. CASE CalledTooLate
  <2>1. \/ ip.pc = "accepting" /\ Goto("loop")
        \/ ip.pc = "receiving" /\ Goto("closing")
    BY <1>5 DEF CalledTooLate, At
  <2>2. /\ ip' \in [pc : Places, peer : Testers \cup {Nobody}]
        /\ ip'.peer = ip.peer
        /\ \/ ip.pc = "accepting" /\ ip'.pc = "loop"
           \/ ip.pc = "receiving" /\ ip'.pc = "closing"
    BY <1>0, <2>1, GotoStep DEF Places
  <2>3. IpTyped' BY <1>0, <1>5, <2>2 DEF CalledTooLate, IpTyped, wire
  <2>4. ServerInv'
    BY <1>0, <1>5, <2>2 DEF CalledTooLate, ServerInv, Serving, At, udsVars
  <2>5. QED BY <2>3, <2>4
<1>6. ASSUME NEW t \in Testers, Accept(t) PROVE IpTyped' /\ ServerInv'
  <2>1. IpTyped' BY <1>0, <1>6 DEF Accept, IpTyped, Places, wire
  <2>2. ServerInv'
    BY <1>0, <1>6 DEF Accept, IpTyped, ServerInv, Serving, At, udsVars
  <2>3. QED BY <2>1, <2>2
<1>7. QED BY <1>1, <1>2, <1>3, <1>4, <1>5, <1>6

LEMMA TesterStep ==
    ASSUME QuietInv, NEW t \in Testers,
           Connect(t) \/ Leave(t) \/ \E m \in Messages : SendMessage(t, m)
    PROVE  IpTyped' /\ ServerInv'
<1>0. IpTyped /\ ServerInv BY DEF QuietInv
<1>1. CASE Connect(t)
  BY <1>0, <1>1 DEF Connect, IpTyped, ServerInv, At, udsVars, wire
<1>2. CASE Leave(t)
  BY <1>0, <1>2 DEF Leave, IpTyped, ServerInv, At, udsVars, wire
<1>3. ASSUME NEW m \in Messages, SendMessage(t, m) PROVE IpTyped' /\ ServerInv'
  <2>1. toServer' \in [Testers -> Seq(Messages)]
    BY <1>0, <1>3 DEF SendMessage, IpTyped
  <2>2. UNCHANGED <<ip, client, conn, task, listening, stop>>
    BY <1>3 DEF SendMessage, udsVars
  <2>3. QED BY <1>0, <2>1, <2>2 DEF IpTyped, ServerInv, At
<1>4. QED BY <1>1, <1>2, <1>3

LEMMA ShutdownSteps ==
    ASSUME QuietInv, Shutdown \/ ShutdownStep
    PROVE  IpTyped' /\ ServerInv'
<1>0. IpTyped /\ ServerInv BY DEF QuietInv
<1>1. IpTyped'
  BY <1>0 DEF Shutdown, ShutdownStep, CloseClient, CloseListener, Join, IpTyped, wire
<1>2. ServerInv'
  BY <1>0
  DEF Shutdown, ShutdownStep, CloseClient, CloseListener, Join, ServerInv, At, udsVars
<1>3. QED BY <1>1, <1>2

(* A request over CAN, and the steps of the handler. *)
LEMMA HandlerKeepsServer ==
    ASSUME QuietInv, UNCHANGED ipVars,
           \/ \E th \in Threads : UdsStep(th)
           \/ SendCanResponse \/ \E r \in Requests : OnCanFrame(r)
    PROVE  IpTyped' /\ ServerInv'
<1>1. IpTyped' BY DEF QuietInv, IpTyped, ipVars
<1>2. task'["doip"].pc # "idle" => task["doip"].pc # "idle"
  <2>1. "doip" \in Threads \ {"docan"} /\ Threads = {"doip", "docan"} BY DEF Threads
  <2>2. ASSUME NEW th \in Threads, UdsStep(th)
        PROVE  task'["doip"].pc # "idle" => task["doip"].pc # "idle"
    <3>1. CASE th = "doip" BY <2>2, <3>1, UdsSteps DEF QuietInv
    <3>2. CASE th = "docan" BY <2>1, <2>2, <3>2, UdsSteps DEF QuietInv, OthersKeep
    <3>3. QED BY <2>1, <3>1, <3>2
  <2>3. CASE SendCanResponse
    BY <2>1, <2>3, TakeStep DEF SendCanResponse, QuietInv, OthersKeep
  <2>4. ASSUME NEW r \in Requests, OnCanFrame(r) PROVE task'["doip"] = task["doip"]
    BY <2>1, <2>4, AskStep DEF OnCanFrame, QuietInv, OthersKeep
  <2>5. QED BY <2>2, <2>3, <2>4
<1>3. QED BY <1>1, <1>2 DEF QuietInv, ServerInv, ipVars, At

LEMMA QuietStep == QuietInv /\ [Next]_vars => QuietInv'
<1> SUFFICES ASSUME QuietInv, [Next]_vars PROVE QuietInv'
  OBVIOUS
<1>1. TasksTyped' BY TasksStep
<1>2. CASE DoIpThread
  <2>1. CASE UdsStep("doip") /\ UNCHANGED <<ipVars, frames, canReplies>>
    BY <1>1, <2>1, HandlerKeepsServer DEF QuietInv, Threads
  <2>2. CASE Receive BY <1>1, <2>2, ReceiveStep DEF QuietInv
  <2>3. CASE Reply BY <1>1, <2>3, ReplyStep DEF QuietInv
  <2>4. CASE AcceptLoop \/ NextMessage \/ EndOfStream \/ CloseConnection
               \/ \E t \in Testers : Accept(t)
    BY <1>1, <2>4, AcceptThreadStep DEF QuietInv
  <2>5. QED BY <1>2, <2>1, <2>2, <2>3, <2>4, Zenon DEF DoIpThread, AcceptThread
<1>3. CASE CanThread
  <2>1. UNCHANGED ipVars /\ (UdsStep("docan") \/ SendCanResponse)
    BY <1>3 DEF CanThread, SendCanResponse
  <2>2. QED BY <1>1, <2>1, HandlerKeepsServer DEF QuietInv, Threads
<1>4. ASSUME NEW r \in Requests, OnCanFrame(r) PROVE QuietInv'
  BY <1>1, <1>4, HandlerKeepsServer DEF QuietInv, OnCanFrame
<1>5. CASE Environment \/ ShutdownStep
  BY <1>1, <1>5, TesterStep, ShutdownSteps, AcceptThreadStep DEF Environment, QuietInv
<1>6. CASE UNCHANGED vars
  BY <1>1, <1>6 DEF vars, udsVars, ipVars, QuietInv, IpTyped, ServerInv, At
<1>7. QED BY <1>2, <1>3, <1>4, <1>5, <1>6, Zenon DEF Next

LEMMA QuietImplied == QuietInv => QuietAfterShutdown
<1> SUFFICES ASSUME QuietInv, stop = "done"
             PROVE  /\ task["doip"].pc = "idle"
                    /\ client = Nobody /\ ~listening
                    /\ \A t \in Testers : conn[t] \notin {"open", "reset"}
  BY Zenon DEF QuietAfterShutdown
<1>1. ip.pc = "ended" /\ ip.pc \notin Serving
  BY DEF QuietInv, ServerInv, At, Serving
<1>2. QED BY <1>1 DEF QuietInv, ServerInv

(* Once shutdown() of the DoIP transport has returned, its thread is gone with
   every request of its own, and no connection is open: nothing can call the
   handler that the program destroys next.                                    *)
THEOREM QuietAfterShutdownAlways == Spec => []QuietAfterShutdown
  BY QuietInit, QuietStep, QuietImplied, PTL DEF Spec

-----------------------------------------------------------------------------
(* Control and session. *)

(* Before anything came in over CAN, that transport's thread has nothing to do,
   and what the other has permitted is permitted still.                       *)
SessionInv ==
    frames = <<>> => /\ task["docan"].pc = "idle"
                     /\ task["doip"].pc = "permitted" => session = "extended"

LEMMA SessionInit == Init => SessionInv
  BY RestingType DEF Init, UdsInit, SessionInv, Threads

LEMMA SessionStep ==
    ASSUME QuietInv, SessionInv, [Next]_vars
    PROVE  /\ SessionInv'
           /\ frames = <<>> /\ controlled' # controlled => session = "extended"
<1>0. "doip" \in Threads \ {"docan"} /\ "docan" \in Threads \ {"doip"} BY DEF Threads
<1>1. TasksTyped BY DEF QuietInv
<1>2. CASE Untouched /\ UNCHANGED canVars BY <1>2 DEF canVars, Untouched, udsVars, SessionInv
<1>3. CASE DoIpAsked /\ UNCHANGED canVars
  BY <1>0, <1>1, <1>3, AskStep DEF canVars, DoIpAsked, SessionInv, OthersKeep
<1>4. CASE Taken("doip") /\ UNCHANGED canVars
  BY <1>0, <1>1, <1>4, TakeStep DEF canVars, SendCanResponse, Taken, SessionInv, OthersKeep
<1>5. CASE UdsStep("doip") /\ UNCHANGED canVars
  BY <1>0, <1>1, <1>5, UdsSteps DEF canVars, SessionInv, OthersKeep
<1>6. CASE UdsStep("docan") /\ UNCHANGED canVars
  BY <1>0, <1>1, <1>6, UdsSteps DEF canVars, SessionInv
<1>7. CASE Taken("docan") /\ SendCanResponse
  BY <1>0, <1>1, <1>7, TakeStep DEF canVars, SendCanResponse, Taken, SessionInv, OthersKeep
<1>8. ASSUME frames' # <<>>, NEW r \in Requests, OnCanFrame(r)
      PROVE  SessionInv' /\ UNCHANGED controlled
  BY <1>8 DEF OnCanFrame, SessionInv
<1>9. QED BY <1>2, <1>3, <1>4, <1>5, <1>6, <1>7, <1>8, HandlerSteps, Zenon

(* Without CAN traffic an actuator is controlled in the extended session only,
   though the check and the control are two steps: one thread has both.       *)
THEOREM DoIpControlInExtendedOnlyAlways == Spec => DoIpControlInExtendedOnly
<1>1. Init => QuietInv /\ SessionInv BY QuietInit, SessionInit
<1>2. QuietInv /\ SessionInv /\ [Next]_vars => (QuietInv /\ SessionInv)'
  BY QuietStep, SessionStep, Zenon
<1>3. QuietInv /\ SessionInv /\ [Next]_vars
        => [frames = <<>> /\ controlled' # controlled => session = "extended"]_vars
  BY SessionStep
<1>4. QED BY <1>1, <1>2, <1>3, PTL DEF Spec, DoIpControlInExtendedOnly

-----------------------------------------------------------------------------
(* Diagnosis over CAN: one frame at a time, and what fits is answered.        *)

(* The frames that are dealt with: while a request is under way, all but the
   last.                                                                      *)
Answered == IF task["docan"].pc = "idle" THEN Len(frames) ELSE Len(frames) - 1

(* The thread's request is the last frame, its answer too long if the VIN is
   asked for only, and what was answered before is what fits, in order.       *)
CanInv ==
    /\ frames \in Seq(Requests) /\ canReplies \in Seq({r.sid : r \in Requests})
    /\ task["docan"].pc # "idle" =>
          frames # <<>> /\ task["docan"].req = frames[Len(frames)]
    /\ task["docan"].pc = "permitted" => task["docan"].req.sid = "control"
    /\ task["docan"].pc = "answered" =>
          (task["docan"].answer.size <= 7 <=> FitsFrame(task["docan"].req))
    /\ Len(canReplies) = Cardinality(ShortUpTo(frames, Answered))
    /\ \A i \in ShortUpTo(frames, Answered) :
          canReplies[Cardinality(ShortUpTo(frames, i))] = frames[i].sid

LEMMA ShortFinite ==
    ASSUME NEW reqs, NEW n \in Nat
    PROVE  IsFiniteSet(ShortUpTo(reqs, n)) /\ Cardinality(ShortUpTo(reqs, n)) \in Nat
<1>1. IsFiniteSet(1..n) BY FS_Interval
<1>2. ShortUpTo(reqs, n) \in SUBSET (1..n) BY DEF ShortUpTo
<1>3. QED BY <1>1, <1>2, FS_Subset, FS_CardinalityType

(* One request more is one short one more, or none. *)
LEMMA ShortNext ==
    ASSUME NEW reqs, NEW n \in Nat
    PROVE  /\ ShortUpTo(reqs, n + 1) =
                 ShortUpTo(reqs, n) \cup (IF FitsFrame(reqs[n + 1]) THEN {n + 1} ELSE {})
           /\ Cardinality(ShortUpTo(reqs, n + 1)) =
                 Cardinality(ShortUpTo(reqs, n)) + (IF FitsFrame(reqs[n + 1]) THEN 1 ELSE 0)
<1>1. ShortUpTo(reqs, n + 1) =
         ShortUpTo(reqs, n) \cup (IF FitsFrame(reqs[n + 1]) THEN {n + 1} ELSE {})
  BY DEF ShortUpTo
<1>2. n + 1 \notin ShortUpTo(reqs, n) BY DEF ShortUpTo
<1>3. CASE FitsFrame(reqs[n + 1])
  <2>1. Cardinality(ShortUpTo(reqs, n) \cup {n + 1}) = Cardinality(ShortUpTo(reqs, n)) + 1
    BY <1>2, ShortFinite, FS_AddElement
  <2>2. QED BY <1>1, <1>3, <2>1
<1>4. CASE ~FitsFrame(reqs[n + 1]) BY <1>1, <1>4, ShortFinite
<1>5. QED BY <1>1, <1>3, <1>4

LEMMA ShortPlace ==
    ASSUME NEW reqs, NEW n \in Nat, NEW i \in ShortUpTo(reqs, n)
    PROVE  Cardinality(ShortUpTo(reqs, i)) \in 1..Cardinality(ShortUpTo(reqs, n))
<1>1. i \in 1..n /\ i \in Nat /\ FitsFrame(reqs[i]) BY DEF ShortUpTo
<1>2. ShortUpTo(reqs, i) \in SUBSET ShortUpTo(reqs, n) /\ i \in ShortUpTo(reqs, i)
  BY <1>1 DEF ShortUpTo
<1>3. Cardinality(ShortUpTo(reqs, i)) <= Cardinality(ShortUpTo(reqs, n))
  BY <1>2, ShortFinite, FS_Subset
<1>4. Cardinality(ShortUpTo(reqs, i)) # 0 BY <1>1, <1>2, ShortFinite, FS_EmptySet
<1>5. QED BY <1>1, <1>3, <1>4, ShortFinite

LEMMA ShortAppend ==
    ASSUME NEW reqs \in Seq(Requests), NEW r \in Requests, NEW n \in 0..Len(reqs)
    PROVE  ShortUpTo(Append(reqs, r), n) = ShortUpTo(reqs, n)
  BY DEF ShortUpTo

(* What the handler answers has so many bytes. *)
LEMMA UdsAnswers ==
    ASSUME TasksTyped, NEW th \in Threads, UdsStep(th),
           task[th].pc = "permitted" => task[th].req.sid = "control"
    PROVE  /\ task'[th].pc = "permitted" => task[th].req.sid = "control"
           /\ task'[th].pc = "answered" =>
                (task'[th].answer.size <= 7 <=> FitsFrame(task[th].req))
<1> DEFINE req == task[th].req
<1>0. task[th] \in Tasks /\ req \in AllRequests BY DEF TasksTyped, Tasks
<1>1. ASSUME NEW a \in Answers, Answer(th, a), a.size <= 7 <=> FitsFrame(req)
      PROVE  /\ task'[th].pc = "answered"
             /\ task'[th].answer.size <= 7 <=> FitsFrame(req)
  BY <1>0, <1>1 DEF TasksTyped, Tasks, Answer
<1>2. /\ No \in Answers /\ No.size <= 7
      /\ \A n \in {2, 3, 4, 6} : Yes(n) \in Answers /\ Yes(n).size <= 7
      /\ Yes(20) \in Answers /\ ~(Yes(20).size <= 7)
  BY YesAndNo DEF Yes, No
<1>3. req.sid # "read" => FitsFrame(req) BY DEF FitsFrame
<1>4. CASE HandleRequest(th)
  <2>1. CASE req.sid = "session" /\ SessionControl(th)
    <3>1. Answer(th, Yes(2)) \/ Answer(th, No) BY <2>1, Zenon DEF SessionControl
    <3>2. QED BY <1>1, <1>2, <1>3, <2>1, <3>1
  <2>2. CASE req.sid = "read" /\ ReadDataById(th)
    <3>1. req.arg \in Dids /\ req = [sid |-> "read", arg |-> req.arg]
      BY <1>0, <2>2 DEF AllRequests
    <3>2. FitsFrame(req) <=> req.arg # "vin" BY <3>1 DEF FitsFrame
    <3>3. CASE req.arg = "vin"
      BY <1>1, <1>2, <2>2, <3>2, <3>3 DEF ReadDataById, DataSize
    <3>4. CASE req.arg \in {"lights", "door"}
      <4>1. 3 + DataSize[req.arg] \in {4, 6} /\ req.arg \in DOMAIN DataSize
        BY <3>4 DEF DataSize
      <4>2. Answer(th, Yes(3 + DataSize[req.arg])) BY <2>2, <4>1 DEF ReadDataById
      <4>3. QED BY <1>1, <1>2, <3>2, <3>4, <4>1, <4>2
    <3>5. CASE req.arg = "unknown"
      <4>1. Answer(th, No) BY <2>2, <3>5 DEF ReadDataById, DataSize
      <4>2. QED BY <1>1, <1>2, <3>2, <3>5, <4>1
    <3>6. QED BY <3>1, <3>3, <3>4, <3>5 DEF Dids
  <2>3. CASE req.sid = "dtc" /\ ReadDtc(th)
    BY <1>1, <1>2, <1>3, <2>3 DEF ReadDtc
  <2>4. CASE req.sid = "control" /\ PermitIoControl(th)
    <3>1. CASE session = "extended"
      BY <1>0, <2>4, <3>1 DEF PermitIoControl, TasksTyped, Tasks
    <3>2. CASE session # "extended"
      BY <1>1, <1>2, <1>3, <2>4, <3>2 DEF PermitIoControl
    <3>3. QED BY <3>1, <3>2
  <2>5. CASE req.sid = "malformed" /\ Answer(th, No)
    BY <1>1, <1>2, <1>3, <2>5
  <2>6. req.sid \in {"session", "read", "dtc", "control", "malformed"}
    BY <1>0 DEF AllRequests
  <2>7. QED BY <1>4, <2>1, <2>2, <2>3, <2>4, <2>5, <2>6 DEF HandleRequest
<1>5. CASE IoControl(th)
  <2>1. Answer(th, Yes(3)) \/ Answer(th, No) BY <1>5, Zenon DEF IoControl
  <2>2. FitsFrame(req) BY <1>3, <1>5 DEF IoControl
  <2>3. QED BY <1>1, <1>2, <2>1, <2>2
<1>6. QED BY <1>4, <1>5 DEF UdsStep

LEMMA CanInit == Init => CanInv
<1> SUFFICES ASSUME Init PROVE CanInv
  OBVIOUS
<1>1. /\ frames = <<>> /\ canReplies = <<>> /\ task["docan"].pc = "idle"
  BY RestingType DEF Init, UdsInit, Threads
<1>2. Answered = 0 /\ ShortUpTo(frames, 0) = {} BY <1>1 DEF Answered, ShortUpTo
<1>3. Cardinality(ShortUpTo(frames, Answered)) = 0 /\ Len(canReplies) = 0
  BY <1>1, <1>2, FS_EmptySet
<1>4. frames \in Seq(Requests) /\ canReplies \in Seq({r.sid : r \in Requests})
  BY <1>1
<1>5. QED BY <1>1, <1>2, <1>3, <1>4 DEF CanInv

(* A frame arrives while no request is under way. *)
LEMMA OnCanFrameStep ==
    ASSUME TasksTyped, CanInv, NEW r \in Requests, OnCanFrame(r)
    PROVE  CanInv'
<1>1. /\ task["docan"].pc = "idle" /\ Answered = Len(frames)
      /\ frames \in Seq(Requests) /\ frames' = Append(frames, r)
      /\ canReplies' = canReplies /\ Ask("docan", r)
  BY DEF OnCanFrame, CanInv, Answered
<1>2. task'["docan"].pc = "asked" /\ task'["docan"].req = r
  BY <1>1 DEF Ask, TasksTyped, Tasks, Threads
<1>3. /\ frames' \in Seq(Requests) /\ frames' # <<>> /\ Len(frames') = Len(frames) + 1
      /\ frames'[Len(frames')] = r
      /\ \A i \in 1..Len(frames) : frames'[i] = frames[i]
  BY <1>1
<1>4. Answered' = Len(frames) BY <1>1, <1>2, <1>3 DEF Answered
<1>5. \A n \in 0..Len(frames) : ShortUpTo(frames', n) = ShortUpTo(frames, n)
  BY <1>1, ShortAppend
<1>6. Len(frames) \in 0..Len(frames) BY <1>1
<1>7. \A i \in ShortUpTo(frames, Len(frames)) : i \in 1..Len(frames) /\ i \in 0..Len(frames)
  BY <1>1 DEF ShortUpTo
<1>8. Len(canReplies') = Cardinality(ShortUpTo(frames', Answered'))
  BY <1>1, <1>4, <1>5, <1>6 DEF CanInv
<1>9. \A i \in ShortUpTo(frames', Answered') :
         canReplies'[Cardinality(ShortUpTo(frames', i))] = frames'[i].sid
  BY <1>1, <1>3, <1>4, <1>5, <1>6, <1>7 DEF CanInv
<1>10. QED BY <1>1, <1>2, <1>3, <1>8, <1>9 DEF CanInv

(* The answer is sent or dropped. *)
LEMMA SendCanStep ==
    ASSUME TasksTyped, CanInv, SendCanResponse
    PROVE  CanInv'
<1> DEFINE n == Len(frames) - 1
           r == frames[Len(frames)]
<1>1. /\ task["docan"].pc = "answered" /\ frames # <<>> /\ task["docan"].req = r
      /\ frames \in Seq(Requests) /\ UNCHANGED frames
      /\ canReplies \in Seq({q.sid : q \in Requests})
      /\ Answered = n /\ Take("docan")
      /\ canReplies' = IF FitsFrame(r) THEN Append(canReplies, r.sid) ELSE canReplies
  BY DEF SendCanResponse, CanInv, Answered
<1>2. n \in Nat /\ n + 1 = Len(frames) /\ r \in Requests BY <1>1
<1>3. task'["docan"].pc = "idle" BY <1>1, TakeStep DEF Threads
<1>4. Answered' = n + 1 BY <1>1, <1>2, <1>3 DEF Answered
<1>5. /\ ShortUpTo(frames, n + 1) =
           ShortUpTo(frames, n) \cup (IF FitsFrame(r) THEN {n + 1} ELSE {})
      /\ Cardinality(ShortUpTo(frames, n + 1)) =
           Cardinality(ShortUpTo(frames, n)) + (IF FitsFrame(r) THEN 1 ELSE 0)
  BY <1>2, ShortNext
<1>6. Len(canReplies) = Cardinality(ShortUpTo(frames, n))
  BY <1>1 DEF CanInv
<1>7. canReplies' \in Seq({q.sid : q \in Requests}) BY <1>1, <1>2
<1>8. Len(canReplies') = Cardinality(ShortUpTo(frames', Answered'))
  BY <1>1, <1>4, <1>5, <1>6
<1>9. ASSUME NEW i \in ShortUpTo(frames, n + 1)
      PROVE  canReplies'[Cardinality(ShortUpTo(frames, i))] = frames[i].sid
  <2>1. CASE i \in ShortUpTo(frames, n)
    <3>1. Cardinality(ShortUpTo(frames, i)) \in 1..Len(canReplies)
      BY <1>2, <1>6, <2>1, ShortPlace
    <3>2. canReplies'[Cardinality(ShortUpTo(frames, i))]
             = canReplies[Cardinality(ShortUpTo(frames, i))]
      BY <1>1, <3>1
    <3>3. QED BY <1>1, <2>1, <3>2 DEF CanInv
  <2>2. CASE FitsFrame(r) /\ i = n + 1
    <3>1. Cardinality(ShortUpTo(frames, i)) = Len(canReplies) + 1 BY <1>5, <1>6, <2>2
    <3>2. QED BY <1>1, <1>2, <2>2, <3>1
  <2>3. QED BY <1>5, <1>9, <2>1, <2>2
<1>10. QED BY <1>1, <1>3, <1>4, <1>7, <1>8, <1>9 DEF CanInv

LEMMA CanStep ==
    ASSUME QuietInv, CanInv, [Next]_vars
    PROVE  CanInv'
<1>0. "doip" \in Threads /\ "docan" \in Threads \ {"doip"} /\ TasksTyped BY DEF Threads, QuietInv
<1>1. ASSUME task'["docan"] = task["docan"], UNCHANGED canVars PROVE CanInv'
  BY <1>1 DEF CanInv, Answered, canVars
<1>2. CASE Untouched /\ UNCHANGED canVars BY <1>1, <1>2 DEF Untouched, udsVars
<1>3. CASE DoIpAsked /\ UNCHANGED canVars
  BY <1>0, <1>1, <1>3, AskStep DEF DoIpAsked, OthersKeep
<1>4. CASE Taken("doip") /\ UNCHANGED canVars
  BY <1>0, <1>1, <1>4, TakeStep DEF Taken, OthersKeep
<1>5. CASE UdsStep("doip") /\ UNCHANGED canVars
  BY <1>0, <1>1, <1>5, UdsSteps DEF OthersKeep
<1>6. CASE UdsStep("docan") /\ UNCHANGED canVars
  <2>1. /\ task["docan"].pc # "idle" /\ task'["docan"].pc # "idle"
        /\ task'["docan"].req = task["docan"].req
        /\ task'["docan"].pc = "permitted" => task["docan"].req.sid = "control"
        /\ task'["docan"].pc = "answered" =>
             (task'["docan"].answer.size <= 7 <=> FitsFrame(task["docan"].req))
    BY <1>0, <1>6, UdsSteps, UdsAnswers DEF CanInv
  <2>2. Answered' = Answered BY <1>6, <2>1 DEF Answered, canVars
  <2>3. QED BY <1>6, <2>1, <2>2 DEF CanInv, canVars
<1>7. CASE Taken("docan") /\ SendCanResponse BY <1>0, <1>7, SendCanStep
<1>8. ASSUME NEW r \in Requests, OnCanFrame(r) PROVE CanInv'
  BY <1>0, <1>8, OnCanFrameStep
<1>9. QED BY <1>2, <1>3, <1>4, <1>5, <1>6, <1>7, <1>8, HandlerSteps, Zenon

(* Whatever the DoIP side does meanwhile, a tester on the CAN bus has the
   answers to its own requests, in order, and all the short ones
   (DoCanTransport::onCanFrame(), sendResponse()).                           *)
THEOREM CanAnswersInOrderAlways == Spec => []CanAnswersInOrder
<1>1. Init => QuietInv /\ CanInv BY QuietInit, CanInit
<1>2. QuietInv /\ CanInv /\ [Next]_vars => (QuietInv /\ CanInv)'
  BY QuietStep, CanStep, Zenon
<1>3. CanInv => CanAnswersInOrder
  <2> SUFFICES ASSUME CanInv, task["docan"].pc = "idle"
               PROVE  \E answered \in SUBSET (1..Len(frames)) :
                          /\ ShortUpTo(frames, Len(frames)) \subseteq answered
                          /\ Len(canReplies) = Cardinality(answered)
                          /\ \A i \in answered :
                                canReplies[Cardinality(answered \cap (1..i))] = frames[i].sid
    BY DEF CanAnswersInOrder
  <2> DEFINE short == ShortUpTo(frames, Len(frames))
  <2>1. Len(frames) \in Nat BY DEF CanInv
  <2>2. short \in SUBSET (1..Len(frames)) BY DEF ShortUpTo
  <2>3. \A i \in short : short \cap (1..i) = ShortUpTo(frames, i)
    BY <2>1 DEF ShortUpTo
  <2>4. Len(canReplies) = Cardinality(short)
        /\ \A i \in short : canReplies[Cardinality(ShortUpTo(frames, i))] = frames[i].sid
    BY DEF CanInv, Answered
  <2> HIDE DEF short
  <2>5. \A i \in short : canReplies[Cardinality(short \cap (1..i))] = frames[i].sid
    BY <2>3, <2>4
  <2>6. ShortUpTo(frames, Len(frames)) \subseteq short BY DEF short
  <2>7. QED BY <2>2, <2>4, <2>5, <2>6
<1>4. QED BY <1>1, <1>2, <1>3, PTL DEF Spec

-----------------------------------------------------------------------------
(* What the testers are told. *)

(* The n-th reply is the n-th that is due. *)
RightReplies(msgs, replies) ==
    \A n \in DOMAIN replies :
        \E p \in Due(msgs) :
            /\ Cardinality(DueUpTo(msgs, p)) = n
            /\ replies[n] = RepliesTo(msgs[p[1]])[p[2]]

WireTyped ==
    /\ asked \in [Testers -> Seq(Messages)]
    /\ toTester \in [Testers -> Seq(Replies)]

(* How many of the tester's messages the server has read. *)
NumRead(t) == Len(asked[t]) - Len(toServer[t])

Served(t)   == ip.pc \in Serving /\ ip.peer = t
Handling(t) == Served(t) /\ At("handling")
Current(t)  ==
    /\ Served(t) /\ ip.pc \in {"next", "receiving", "handling"}
    /\ client = t /\ conn[t] = "open"

(* All that is due for the messages read is sent, but for the answer to the
   request being handled.                                                     *)
AllSent(t) ==
    /\ \A i \in 1..NumRead(t) : ~EndsConnection(asked[t][i])
    /\ Len(toTester[t]) =
          Cardinality(DueUpTo(asked[t], <<NumRead(t), IF Handling(t) THEN 1 ELSE 2>>))

(* What is unread is the end of what was sent, the request being handled the
   last one read; a tester that is not served has not been told anything, and
   one whose connection is whole has been told all so far.                    *)
TesterInv(t) ==
    /\ NumRead(t) >= 0
    /\ \A j \in DOMAIN toServer[t] : toServer[t][j] = asked[t][NumRead(t) + j]
    /\ RightReplies(asked[t], toTester[t])
    /\ ~Served(t) => toTester[t] = <<>> /\ toServer[t] = asked[t]
    /\ Handling(t) => /\ NumRead(t) > 0
                      /\ asked[t][NumRead(t)] = [kind |-> "diag", req |-> task["doip"].req]
    /\ Current(t) => AllSent(t)

WireInv == WireTyped /\ \A t \in Testers : TesterInv(t)

LEMMA RepliesShape ==
    ASSUME NEW m \in Messages
    PROVE  /\ m.kind = "diag" => RepliesTo(m) = <<"ack", m.req.sid>> /\ m.req \in Requests
           /\ m.kind = "service" => RepliesTo(m) = <<"service">>
           /\ m.kind = "version" => RepliesTo(m) = <<"nack">>
           /\ m.kind \in {"ignored", "oversize"} => RepliesTo(m) = <<>>
           /\ m.kind \in {"diag", "service", "version", "ignored", "oversize"}
<1>1. m.kind = "diag" => m.req \in Requests BY DEF Messages
<1>2. m.kind \in {"diag", "service", "version", "ignored", "oversize"} BY DEF Messages
<1>3. m.kind = "diag" => RepliesTo(m) = <<"ack", m.req.sid>> BY Zenon DEF RepliesTo
<1>4. m.kind = "service" => RepliesTo(m) = <<"service">> BY DEF RepliesTo
<1>5. m.kind = "version" => RepliesTo(m) = <<"nack">> BY DEF RepliesTo
<1>6. m.kind \in {"ignored", "oversize"} => RepliesTo(m) = <<>> BY DEF RepliesTo
<1>7. QED BY <1>1, <1>2, <1>3, <1>4, <1>5, <1>6

LEMMA DueFinite ==
    ASSUME NEW msgs \in Seq(Messages), NEW p
    PROVE  /\ IsFiniteSet(DueUpTo(msgs, p))
           /\ Cardinality(DueUpTo(msgs, p)) \in Nat
<1>1. Len(msgs) \in Int /\ 1 \in Int /\ 2 \in Int OBVIOUS
<1>2. IsFiniteSet((1..Len(msgs)) \X (1..2)) BY <1>1, FS_Interval, FS_Product
<1>3. DueUpTo(msgs, p) \in SUBSET ((1..Len(msgs)) \X (1..2)) BY DEF DueUpTo, Due
<1>4. QED BY <1>2, <1>3, FS_Subset, FS_CardinalityType

LEMMA NothingDueAtFirst ==
    ASSUME NEW msgs \in Seq(Messages)
    PROVE  Cardinality(DueUpTo(msgs, <<0, 2>>)) = 0
<1>1. DueUpTo(msgs, <<0, 2>>) = {} BY DEF DueUpTo, Due
<1>2. QED BY <1>1, FS_EmptySet

(* A message more changes nothing of what the earlier ones are due. *)
LEMMA DueAppend ==
    ASSUME NEW msgs \in Seq(Messages), NEW m \in Messages
    PROVE  /\ \A n \in 0..Len(msgs), k \in {1, 2} :
                 DueUpTo(Append(msgs, m), <<n, k>>) = DueUpTo(msgs, <<n, k>>)
           /\ \A p \in Due(msgs) :
                 /\ p \in Due(Append(msgs, m)) /\ p[1] \in 1..Len(msgs)
                 /\ DueUpTo(Append(msgs, m), p) = DueUpTo(msgs, p)
<1> DEFINE more == Append(msgs, m)
<1>1. /\ DOMAIN msgs = 1..Len(msgs) /\ DOMAIN more = 1..(Len(msgs) + 1)
      /\ \A i \in 1..Len(msgs) : more[i] = msgs[i]
  OBVIOUS
<1>2. \A p \in (1..Len(msgs)) \X {1, 2} : p \in Due(more) <=> p \in Due(msgs)
  BY <1>1 DEF Due
<1>3. \A p \in Due(msgs) : p \in (1..Len(msgs)) \X {1, 2} BY <1>1 DEF Due
<1>4. \A p \in Due(more) : p \in (1..(Len(msgs) + 1)) \X {1, 2} BY <1>1 DEF Due
<1>5. ASSUME NEW n \in 0..Len(msgs), NEW k
      PROVE  DueUpTo(more, <<n, k>>) = DueUpTo(msgs, <<n, k>>)
  BY <1>2, <1>3, <1>4, <1>5 DEF DueUpTo
<1>6. ASSUME NEW p \in Due(msgs)
      PROVE  /\ p \in Due(more) /\ p[1] \in 1..Len(msgs)
             /\ DueUpTo(more, p) = DueUpTo(msgs, p)
  <2>1. p \in Due(more) /\ p[1] \in 1..Len(msgs) BY <1>2, <1>3, <1>6
  <2>2. DueUpTo(more, p) = DueUpTo(msgs, p)
    BY <1>2, <1>3, <1>4, <2>1 DEF DueUpTo
  <2>3. QED BY <2>1, <2>2
<1>7. QED BY <1>5, <1>6

(* What the next message adds, if none before it ends the connection. *)
LEMMA DueNext ==
    ASSUME NEW msgs \in Seq(Messages), NEW n \in Nat, n + 1 \in 1..Len(msgs),
           \A i \in 1..n : ~EndsConnection(msgs[i])
    PROVE  LET m      == msgs[n + 1]
               before == Cardinality(DueUpTo(msgs, <<n, 2>>))
               first  == <<n + 1, 1>>
               second == <<n + 1, 2>>
           IN  /\ m.kind \in {"diag", "service", "version"} =>
                    first \in Due(msgs) /\ Cardinality(DueUpTo(msgs, first)) = before + 1
               /\ m.kind = "diag" =>
                    second \in Due(msgs) /\ Cardinality(DueUpTo(msgs, second)) =
                                              Cardinality(DueUpTo(msgs, first)) + 1
               /\ m.kind = "service" => Cardinality(DueUpTo(msgs, second)) = before + 1
               /\ m.kind \in {"ignored", "oversize"} =>
                    Cardinality(DueUpTo(msgs, second)) = before
<1> DEFINE m      == msgs[n + 1]
           first  == <<n + 1, 1>>
           second == <<n + 1, 2>>
           before == DueUpTo(msgs, <<n, 2>>)
<1>1. m \in Messages /\ DOMAIN msgs = 1..Len(msgs) OBVIOUS
<1>2. first \in Due(msgs) <=> 1 \in DOMAIN RepliesTo(m) BY <1>1 DEF Due
<1>3. second \in Due(msgs) <=> 2 \in DOMAIN RepliesTo(m) BY <1>1 DEF Due
<1>4. \A q \in Due(msgs) : q = <<q[1], q[2]>> /\ q[1] \in 1..Len(msgs) /\ q[2] \in {1, 2}
  BY <1>1 DEF Due
<1>5. first \notin before /\ second \notin DueUpTo(msgs, first) BY DEF DueUpTo
<1>6. DueUpTo(msgs, first) = before \cup (IF first \in Due(msgs) THEN {first} ELSE {})
  BY <1>4 DEF DueUpTo
<1>7. DueUpTo(msgs, second) =
         DueUpTo(msgs, first) \cup (IF second \in Due(msgs) THEN {second} ELSE {})
  BY <1>4 DEF DueUpTo
<1>8. Cardinality(DueUpTo(msgs, first)) =
         Cardinality(before) + (IF first \in Due(msgs) THEN 1 ELSE 0)
  <2>1. Cardinality(before \cup {first}) = Cardinality(before) + 1
    BY <1>5, DueFinite, FS_AddElement
  <2>2. Cardinality(before) \in Nat BY DueFinite
  <2>3. CASE first \in Due(msgs)
    <3>1. DueUpTo(msgs, first) = before \cup {first} BY <1>6, <2>3
    <3>2. QED BY <2>1, <2>3, <3>1
  <2>4. CASE first \notin Due(msgs)
    <3>1. DueUpTo(msgs, first) = before BY <1>6, <2>4
    <3>2. QED BY <2>2, <2>4, <3>1
  <2>5. QED BY <2>3, <2>4
<1>9. Cardinality(DueUpTo(msgs, second)) =
         Cardinality(DueUpTo(msgs, first)) + (IF second \in Due(msgs) THEN 1 ELSE 0)
  <2>1. Cardinality(DueUpTo(msgs, first) \cup {second}) = Cardinality(DueUpTo(msgs, first)) + 1
    BY <1>5, DueFinite, FS_AddElement
  <2>2. Cardinality(DueUpTo(msgs, first)) \in Nat BY DueFinite
  <2>3. CASE second \in Due(msgs)
    <3>1. DueUpTo(msgs, second) = DueUpTo(msgs, first) \cup {second} BY <1>7, <2>3
    <3>2. QED BY <2>1, <2>3, <3>1
  <2>4. CASE second \notin Due(msgs)
    <3>1. DueUpTo(msgs, second) = DueUpTo(msgs, first) BY <1>7, <2>4
    <3>2. QED BY <2>2, <2>4, <3>1
  <2>5. QED BY <2>3, <2>4
<1>10. Cardinality(before) \in Nat BY DueFinite
<1>11. /\ m.kind \in {"diag", "service", "version"} => 1 \in DOMAIN RepliesTo(m)
       /\ m.kind = "diag" => 2 \in DOMAIN RepliesTo(m)
       /\ m.kind = "service" => 2 \notin DOMAIN RepliesTo(m)
       /\ m.kind \in {"ignored", "oversize"} =>
            1 \notin DOMAIN RepliesTo(m) /\ 2 \notin DOMAIN RepliesTo(m)
  BY <1>1, RepliesShape
<1>12. QED BY <1>2, <1>3, <1>8, <1>9, <1>10, <1>11

LEMMA OneReplyMore ==
    ASSUME NEW msgs, NEW replies \in Seq(Replies), RightReplies(msgs, replies),
           NEW p \in Due(msgs), Cardinality(DueUpTo(msgs, p)) = Len(replies) + 1,
           NEW reply, reply = RepliesTo(msgs[p[1]])[p[2]]
    PROVE  RightReplies(msgs, Append(replies, reply))
<1> SUFFICES ASSUME NEW n \in DOMAIN Append(replies, reply)
             PROVE  \E q \in Due(msgs) :
                       /\ Cardinality(DueUpTo(msgs, q)) = n
                       /\ Append(replies, reply)[n] = RepliesTo(msgs[q[1]])[q[2]]
  BY DEF RightReplies
<1>1. CASE n \in DOMAIN replies
  <2>1. Append(replies, reply)[n] = replies[n] BY <1>1
  <2>2. QED BY <1>1, <2>1 DEF RightReplies
<1>2. CASE n = Len(replies) + 1
  <2>1. Append(replies, reply)[n] = reply BY <1>2
  <2>2. QED BY <1>2, <2>1
<1>3. QED BY <1>1, <1>2

LEMMA WireInit == Init => WireInv
<1> SUFFICES ASSUME Init PROVE WireInv
  OBVIOUS
<1>1. WireTyped BY DEF Init, DoIpInit, WireTyped
<1>2. ASSUME NEW t \in Testers PROVE TesterInv(t)
  <2>1. /\ asked[t] = <<>> /\ toServer[t] = <<>> /\ toTester[t] = <<>> /\ ip.pc = "loop"
    BY DEF Init, DoIpInit
  <2>2. ~Served(t) /\ ~Handling(t) /\ ~Current(t)
    BY <2>1 DEF Served, Serving, Handling, Current
  <2>3. RightReplies(asked[t], toTester[t]) BY <2>1 DEF RightReplies
  <2>4. QED BY <2>1, <2>2, <2>3 DEF TesterInv, NumRead
<1>3. QED BY <1>1, <1>2 DEF WireInv

(* Steps that neither send nor read anything of a tester's. *)
LEMMA NothingMoved ==
    ASSUME NEW t \in Testers, TesterInv(t),
           asked'[t] = asked[t], toServer'[t] = toServer[t], toTester'[t] = toTester[t],
           Served(t)' <=> Served(t),
           Handling(t)' => Handling(t) /\ task'["doip"].req = task["doip"].req,
           Current(t)' => Current(t) /\ (Handling(t)' <=> Handling(t))
    PROVE  TesterInv(t)'
<1>1. NumRead(t)' = NumRead(t) BY DEF NumRead
<1>2. Current(t)' => AllSent(t)'
  <2>1. SUFFICES ASSUME Current(t)' PROVE AllSent(t)'
    OBVIOUS
  <2>2. AllSent(t) /\ (Handling(t)' <=> Handling(t)) BY <2>1 DEF TesterInv
  <2>3. QED BY <1>1, <2>2 DEF AllSent
<1>3. RightReplies(asked[t], toTester[t])' BY DEF TesterInv, RightReplies
<1>4. QED BY <1>1, <1>2, <1>3 DEF TesterInv

(* Steps of the accept thread before and after a message. *)
LEMMA WireQuiet ==
    ASSUME QuietInv, WireInv, NEW t \in Testers,
           \/ AcceptLoop \/ NextMessage \/ EndOfStream \/ CalledTooLate
           \/ Shutdown \/ ShutdownStep
           \/ \E u \in Testers : Connect(u) \/ Leave(u)
    PROVE  TesterInv(t)'
<1>0. TesterInv(t) /\ IpTyped /\ ServerInv BY DEF WireInv, QuietInv
<1>1. UNCHANGED <<task, wire>>
  BY Zenon DEF AcceptLoop, NextMessage, EndOfStream, CalledTooLate, Shutdown, ShutdownStep,
     CloseClient, CloseListener, Join, Connect, Leave, udsVars
<1>2. /\ asked'[t] = asked[t] /\ toServer'[t] = toServer[t] /\ toTester'[t] = toTester[t]
      /\ task'["doip"].req = task["doip"].req
  BY <1>1 DEF wire
<1>3. CASE Shutdown \/ ShutdownStep \/ \E u \in Testers : Connect(u) \/ Leave(u)
  <2>1. UNCHANGED ip
    BY <1>3, Zenon DEF Shutdown, ShutdownStep, CloseClient, CloseListener, Join, Connect, Leave
  <2>2. (Served(t)' <=> Served(t)) /\ (Handling(t)' <=> Handling(t))
    BY <2>1 DEF Served, Handling, At
  <2>3. client' = t => client = t
    BY <1>3, DoIpAssumption
    DEF Shutdown, ShutdownStep, CloseClient, CloseListener, Join, Connect, Leave
  <2>4. conn'[t] = "open" => conn[t] = "open"
    BY <1>0, <1>3
    DEF Shutdown, ShutdownStep, CloseClient, CloseListener, Join, Connect, Leave, IpTyped
  <2>5. Current(t)' => Current(t) BY <2>1, <2>2, <2>3, <2>4 DEF Current
  <2>6. QED BY <1>0, <1>2, <2>2, <2>5, NothingMoved
<1>4. CASE AcceptLoop \/ NextMessage \/ EndOfStream \/ CalledTooLate
  <2>1. PICK pc \in Places :
          /\ Goto(pc)
          /\ \/ ip.pc \in {"loop", "accepting"} /\ pc \in {"loop", "accepting", "ended"}
             \/ ip.pc = "next" /\ pc \in {"receiving", "closing"}
             \/ ip.pc = "receiving" /\ pc = "closing"
    <3>1. CASE AcceptLoop BY <3>1 DEF AcceptLoop, At, Places
    <3>2. CASE NextMessage BY <3>2 DEF NextMessage, At, Places
    <3>3. CASE EndOfStream BY <3>3 DEF EndOfStream, At, Places
    <3>4. CASE CalledTooLate BY <3>4 DEF CalledTooLate, At, Places
    <3>5. QED BY <1>4, <3>1, <3>2, <3>3, <3>4
  <2>2. ip'.pc = pc /\ ip'.peer = ip.peer BY <1>0, <2>1, GotoStep
  <2>3. UNCHANGED <<client, conn>>
    BY <1>4, Zenon DEF AcceptLoop, NextMessage, EndOfStream, CalledTooLate
  <2>4. (Served(t)' <=> Served(t)) /\ ~Handling(t)' /\ ~Handling(t)
    BY <2>1, <2>2 DEF Served, Serving, Handling, At
  <2>5. Current(t)' => Current(t) BY <2>1, <2>2, <2>3, <2>4 DEF Current, Served, Serving
  <2>6. QED BY <1>0, <1>2, <2>4, <2>5, NothingMoved
<1>5. QED BY <1>3, <1>4

LEMMA WireAccept ==
    ASSUME QuietInv, WireInv, NEW t \in Testers, NEW u \in Testers, Accept(u)
    PROVE  TesterInv(t)'
<1>0. /\ TesterInv(t) /\ IpTyped /\ WireTyped /\ asked[t] \in Seq(Messages)
  BY DEF WireInv, QuietInv, WireTyped
<1>1. /\ ip.pc = "accepting" /\ ip' = [pc |-> "next", peer |-> u]
      /\ asked'[t] = asked[t] /\ toServer'[t] = toServer[t] /\ toTester'[t] = toTester[t]
  BY DEF Accept, At, wire
<1>2. ~Served(t) /\ ~Handling(t)' /\ (Served(t)' <=> t = u)
  BY <1>1 DEF Served, Serving, Handling, At
<1>3. toTester[t] = <<>> /\ toServer[t] = asked[t] BY <1>0, <1>2 DEF TesterInv
<1>4. NumRead(t)' = 0 /\ NumRead(t) = 0 BY <1>0, <1>1, <1>3 DEF NumRead
<1>5. AllSent(t)'
  BY <1>0, <1>1, <1>2, <1>3, <1>4, NothingDueAtFirst DEF AllSent
<1>6. RightReplies(asked[t], toTester[t])' BY <1>1, <1>3 DEF RightReplies
<1>7. \A j \in DOMAIN toServer'[t] : toServer'[t][j] = asked'[t][0 + j]
  BY <1>0, <1>1, <1>3
<1>8. QED BY <1>1, <1>2, <1>3, <1>4, <1>5, <1>6, <1>7 DEF TesterInv

LEMMA WireSend ==
    ASSUME QuietInv, WireInv, NEW t \in Testers, NEW u \in Testers, NEW m \in Messages,
           SendMessage(u, m)
    PROVE  TesterInv(t)'
<1>0. /\ TesterInv(t) /\ IpTyped /\ WireTyped
      /\ asked[t] \in Seq(Messages) /\ toServer[t] \in Seq(Messages)
  BY DEF WireInv, QuietInv, WireTyped, IpTyped
<1>1. UNCHANGED <<ip, client, conn, task, toTester>> BY DEF SendMessage, udsVars
<1>2. /\ Served(t)' <=> Served(t)
      /\ Handling(t)' <=> Handling(t)
      /\ Current(t)' <=> Current(t)
      /\ task'["doip"].req = task["doip"].req
  BY <1>1 DEF Served, Handling, Current, At
<1>3. CASE u # t
  <2>1. asked'[t] = asked[t] /\ toServer'[t] = toServer[t] /\ toTester'[t] = toTester[t]
    BY <1>0, <1>1, <1>3 DEF SendMessage, WireTyped, IpTyped
  <2>2. QED BY <1>0, <1>2, <2>1, NothingMoved
<1>4. CASE u = t
  <2>1. /\ asked'[t] = Append(asked[t], m) /\ toServer'[t] = Append(toServer[t], m)
        /\ toTester'[t] = toTester[t]
    BY <1>0, <1>1, <1>4 DEF SendMessage, WireTyped, IpTyped
  <2>2. /\ NumRead(t)' = NumRead(t) /\ NumRead(t) \in 0..Len(asked[t])
        /\ NumRead(t) + Len(toServer[t]) = Len(asked[t])
    <3>1. NumRead(t) >= 0 BY <1>0 DEF TesterInv
    <3>2. /\ Len(asked'[t]) = Len(asked[t]) + 1 /\ Len(toServer'[t]) = Len(toServer[t]) + 1
          /\ Len(asked[t]) \in Nat /\ Len(toServer[t]) \in Nat
      BY <1>0, <2>1
    <3>3. NumRead(t) = Len(asked[t]) - Len(toServer[t]) BY DEF NumRead
    <3>4. NumRead(t)' = Len(asked'[t]) - Len(toServer'[t]) BY DEF NumRead
    <3>5. NumRead(t)' = NumRead(t) BY <3>2, <3>3, <3>4
    <3>6. NumRead(t) \in Int /\ NumRead(t) + Len(toServer[t]) = Len(asked[t])
      BY <3>2, <3>3
    <3>7. NumRead(t) \in 0..Len(asked[t]) BY <3>1, <3>2, <3>6
    <3>8. QED BY <3>5, <3>6, <3>7
  <2>3. ASSUME NEW j \in DOMAIN toServer'[t]
        PROVE  toServer'[t][j] = asked'[t][NumRead(t) + j]
    <3>1. CASE j \in DOMAIN toServer[t]
      <4>1. toServer[t][j] = asked[t][NumRead(t) + j] BY <1>0, <3>1 DEF TesterInv
      <4>2. j \in 1..Len(toServer[t]) /\ NumRead(t) + j \in 1..Len(asked[t])
        BY <1>0, <2>2, <3>1
      <4>3. QED BY <1>0, <2>1, <4>1, <4>2
    <3>2. CASE j = Len(toServer[t]) + 1
      <4>1. Len(toServer[t]) \in Nat /\ Len(asked[t]) \in Nat BY <1>0
      <4>2. NumRead(t) + j = Len(asked[t]) + 1 BY <2>2, <3>2, <4>1
      <4>3. asked'[t][Len(asked[t]) + 1] = m /\ toServer'[t][Len(toServer[t]) + 1] = m
        BY <1>0, <2>1
      <4>4. QED BY <3>2, <4>2, <4>3
    <3>3. DOMAIN toServer'[t] = DOMAIN toServer[t] \cup {Len(toServer[t]) + 1}
      BY <1>0, <2>1
    <3>4. QED BY <3>1, <3>2, <3>3
  <2>4. RightReplies(asked'[t], toTester'[t])
    <3>1. SUFFICES ASSUME NEW n \in DOMAIN toTester[t]
                   PROVE  \E p \in Due(asked'[t]) :
                             /\ Cardinality(DueUpTo(asked'[t], p)) = n
                             /\ toTester[t][n] = RepliesTo(asked'[t][p[1]])[p[2]]
      BY <2>1 DEF RightReplies
    <3>2. PICK p \in Due(asked[t]) :
            /\ Cardinality(DueUpTo(asked[t], p)) = n
            /\ toTester[t][n] = RepliesTo(asked[t][p[1]])[p[2]]
      BY <1>0 DEF TesterInv, RightReplies
    <3>3. /\ p \in Due(asked'[t]) /\ p[1] \in 1..Len(asked[t])
          /\ DueUpTo(asked'[t], p) = DueUpTo(asked[t], p)
      BY <1>0, <2>1, DueAppend
    <3>4. asked'[t][p[1]] = asked[t][p[1]] BY <1>0, <2>1, <3>3
    <3>5. QED BY <3>2, <3>3, <3>4
  <2>5. ~Served(t)' => toTester'[t] = <<>> /\ toServer'[t] = asked'[t]
    BY <1>0, <1>2, <2>1 DEF TesterInv
  <2>6. Handling(t)' =>
          NumRead(t) > 0 /\ asked'[t][NumRead(t)] = [kind |-> "diag", req |-> task'["doip"].req]
    BY <1>0, <1>2, <2>1, <2>2 DEF TesterInv
  <2>7. ASSUME Current(t)' PROVE AllSent(t)'
    <3>1. AllSent(t) BY <1>0, <1>2, <2>7 DEF TesterInv
    <3>2. \A i \in 1..NumRead(t) : asked'[t][i] = asked[t][i] BY <1>0, <2>1, <2>2
    <3>3. \A k \in {1, 2} : DueUpTo(asked'[t], <<NumRead(t), k>>) = DueUpTo(asked[t], <<NumRead(t), k>>)
      BY <1>0, <2>1, <2>2, DueAppend
    <3>4. QED BY <1>2, <2>1, <2>2, <3>1, <3>2, <3>3 DEF AllSent
  <2>8. QED BY <2>2, <2>3, <2>4, <2>5, <2>6, <2>7 DEF TesterInv
<1>5. QED BY <1>3, <1>4

LEMMA WireClose ==
    ASSUME QuietInv, WireInv, NEW t \in Testers, CloseConnection
    PROVE  TesterInv(t)'
<1>0. /\ TesterInv(t) /\ IpTyped /\ WireTyped
      /\ ip.pc = "closing" /\ ip.peer \in Testers /\ ip'.pc = "loop"
  BY DEF WireInv, QuietInv, CloseConnection, At, ServerInv, Serving
<1>1. ~Served(t)' /\ ~Handling(t)' /\ ~Current(t)'
  BY <1>0 DEF Served, Serving, Handling, Current
<1>2. CASE t = ip.peer
  <2>1. asked'[t] = <<>> /\ toServer'[t] = <<>> /\ toTester'[t] = <<>>
    BY <1>0, <1>2 DEF CloseConnection, WireTyped, IpTyped
  <2>2. RightReplies(asked[t], toTester[t])' BY <2>1 DEF RightReplies
  <2>3. QED BY <1>1, <2>1, <2>2 DEF TesterInv, NumRead
<1>3. CASE t # ip.peer
  <2>1. asked'[t] = asked[t] /\ toServer'[t] = toServer[t] /\ toTester'[t] = toTester[t]
    BY <1>0, <1>3 DEF CloseConnection, WireTyped, IpTyped
  <2>2. ~Served(t) BY <1>3 DEF Served
  <2>3. QED BY <1>0, <1>1, <2>1, <2>2, NothingMoved
<1>4. QED BY <1>2, <1>3

(* A reply is sent on a connection that is whole, or not at all. *)
Whole(t) == client = t /\ conn[t] = "open"

LEMMA SendRawTells ==
    ASSUME QuietInv, WireTyped, ip.peer \in Testers, NEW reply \in Replies, NEW pc,
           SendRaw(reply, pc)
    PROVE  /\ toTester' \in [Testers -> Seq(Replies)]
           /\ \A u \in Testers \ {ip.peer} : toTester'[u] = toTester[u]
           /\ Whole(ip.peer) => toTester'[ip.peer] = Append(toTester[ip.peer], reply)
           /\ ~Whole(ip.peer) => /\ toTester' = toTester
                                 /\ client = ip.peer => conn'[ip.peer] # "open"
<1>1. /\ conn \in [Testers -> {"off", "queued", "open", "left", "reset"}]
      /\ toTester \in [Testers -> Seq(Replies)]
  BY DEF QuietInv, IpTyped, WireTyped
<1>2. CASE Whole(ip.peer)
  <2>1. toTester' = [toTester EXCEPT ![ip.peer] = Append(toTester[ip.peer], reply)]
    BY <1>2 DEF SendRaw, Whole
  <2>2. Append(toTester[ip.peer], reply) \in Seq(Replies) BY <1>1
  <2>3. QED BY <1>1, <1>2, <2>1, <2>2
<1>3. CASE ~Whole(ip.peer)
  <2>1. toTester' = toTester BY <1>3 DEF SendRaw, Whole
  <2>2. client = ip.peer => conn'[ip.peer] # "open" BY <1>1, <1>3 DEF SendRaw, Whole
  <2>3. QED BY <1>1, <1>3, <2>1, <2>2
<1>4. QED BY <1>2, <1>3

LEMMA SidSent ==
    ASSUME TasksTyped
    PROVE  task["doip"].req.sid \in Replies
  BY DEF TasksTyped, Tasks, Threads, Replies

(* The message read is the next of the tester's. *)
LEMMA MessageRead ==
    ASSUME QuietInv, WireInv, NEW t \in Testers, t = ip.peer, Receive
    PROVE  LET n == NumRead(t) IN
           /\ n \in Nat /\ n + 1 \in 1..Len(asked[t])
           /\ Head(toServer[t]) = asked[t][n + 1] /\ asked[t][n + 1] \in Messages
           /\ NumRead(t)' = n + 1 /\ asked'[t] = asked[t]
           /\ \A j \in DOMAIN toServer'[t] : toServer'[t][j] = asked[t][n + 1 + j]
<1> DEFINE n == NumRead(t)
<1>0. /\ TesterInv(t) /\ asked[t] \in Seq(Messages) /\ toServer[t] \in Seq(Messages)
      /\ toServer \in [Testers -> Seq(Messages)]
      /\ toServer[t] # <<>> /\ ReadMessage(t) /\ asked' = asked
  BY DEF WireInv, QuietInv, WireTyped, IpTyped, Receive
<1>1. /\ Len(asked[t]) \in Nat /\ Len(toServer[t]) \in Nat /\ Len(toServer[t]) > 0
      /\ toServer'[t] = Tail(toServer[t]) /\ Len(toServer'[t]) = Len(toServer[t]) - 1
      /\ \A j \in 1..(Len(toServer[t]) - 1) : toServer'[t][j] = toServer[t][j + 1]
      /\ DOMAIN toServer'[t] = 1..(Len(toServer[t]) - 1)
      /\ DOMAIN toServer[t] = 1..Len(toServer[t])
      /\ Head(toServer[t]) = toServer[t][1]
  BY <1>0 DEF ReadMessage
<1>2. n = Len(asked[t]) - Len(toServer[t]) /\ NumRead(t)' = Len(asked'[t]) - Len(toServer'[t])
  BY DEF NumRead
<1>3. n >= 0 BY <1>0 DEF TesterInv
<1>4. n \in Nat /\ n + 1 \in 1..Len(asked[t])
  <2>1. Len(asked[t]) \in Nat /\ Len(toServer[t]) \in Nat /\ Len(toServer[t]) > 0 BY <1>1
  <2>2. n = Len(asked[t]) - Len(toServer[t]) BY <1>2
  <2>3. n \in Int BY <2>1, <2>2
  <2>4. n < Len(asked[t])
    <3>1. \A a, b \in Nat : b > 0 => a - b < a OBVIOUS
    <3>2. QED BY <2>1, <2>2, <3>1
  <2>5. n \in Nat BY <1>3, <2>3
  <2>6. n + 1 \in 1..Len(asked[t]) BY <2>1, <2>4, <2>5
  <2>7. QED BY <2>5, <2>6
<1>5. NumRead(t)' = n + 1 BY <1>0, <1>1, <1>2
<1>6. \A j \in 1..Len(toServer[t]) : toServer[t][j] = asked[t][n + j]
  BY <1>0, <1>1 DEF TesterInv
<1>7. toServer[t][1] = asked[t][n + 1] BY <1>1, <1>6
<1>8. ASSUME NEW j \in DOMAIN toServer'[t] PROVE toServer'[t][j] = asked[t][n + 1 + j]
  <2>1. j \in 1..(Len(toServer[t]) - 1) /\ j + 1 \in 1..Len(toServer[t]) BY <1>1
  <2>2. toServer'[t][j] = asked[t][n + (j + 1)] BY <1>1, <1>6, <2>1
  <2>3. n + (j + 1) = n + 1 + j BY <1>4, <2>1
  <2>4. QED BY <2>2, <2>3
<1>9. asked[t][n + 1] \in Messages BY <1>0, <1>4
<1>10. QED BY <1>0, <1>1, <1>4, <1>5, <1>7, <1>8, <1>9

(* If the connection is whole, the first reply to the message is the next due. *)
LEMMA FirstReply ==
    ASSUME QuietInv, WireInv, NEW t \in Testers, t = ip.peer, Receive,
           NEW reply \in Replies, NEW pc \in Places, SendRaw(reply, pc),
           Head(toServer[t]).kind \in {"diag", "service", "version"},
           reply = RepliesTo(Head(toServer[t]))[1]
    PROVE  /\ RightReplies(asked[t], toTester'[t])
           /\ Current(t)' =>
                /\ \A i \in 1..NumRead(t) : ~EndsConnection(asked[t][i])
                /\ Len(toTester'[t]) =
                     Cardinality(DueUpTo(asked[t], <<NumRead(t), 2>>)) + 1
                /\ Len(toTester'[t]) =
                     Cardinality(DueUpTo(asked[t], <<NumRead(t) + 1, 1>>))
<1> DEFINE n == NumRead(t)
<1>0. /\ TesterInv(t) /\ WireTyped /\ asked[t] \in Seq(Messages)
      /\ toTester[t] \in Seq(Replies) /\ UNCHANGED client
      /\ ip.pc = "receiving"
  BY DEF WireInv, WireTyped, Receive, At
<1>1. /\ n \in Nat /\ n + 1 \in 1..Len(asked[t])
      /\ Head(toServer[t]) = asked[t][n + 1]
  BY MessageRead
<1>2. CASE Whole(t)
  <2>1. Current(t) /\ ~Handling(t) BY <1>0, <1>2 DEF Current, Served, Serving, Whole, Handling, At
  <2>2. /\ \A i \in 1..n : ~EndsConnection(asked[t][i])
        /\ Len(toTester[t]) = Cardinality(DueUpTo(asked[t], <<n, 2>>))
    BY <1>0, <2>1 DEF TesterInv, AllSent
  <2>3. /\ <<n + 1, 1>> \in Due(asked[t])
        /\ Cardinality(DueUpTo(asked[t], <<n + 1, 1>>)) = Len(toTester[t]) + 1
    BY <1>0, <1>1, <2>2, DueNext
  <2>4. toTester'[t] = Append(toTester[t], reply) BY <1>0, <1>2, SendRawTells
  <2>5. RightReplies(asked[t], toTester[t]) BY <1>0 DEF TesterInv
  <2>6. reply = RepliesTo(asked[t][(<<n + 1, 1>>)[1]])[(<<n + 1, 1>>)[2]] BY <1>1
  <2>7. RightReplies(asked[t], Append(toTester[t], reply))
    BY <1>0, <2>3, <2>5, <2>6, OneReplyMore
  <2>8. Len(toTester'[t]) = Len(toTester[t]) + 1 BY <1>0, <2>4
  <2>9. QED BY <2>2, <2>3, <2>4, <2>7, <2>8
<1>3. CASE ~Whole(t)
  <2>1. toTester'[t] = toTester[t] /\ ~Current(t)'
    BY <1>0, <1>3, SendRawTells DEF Current
  <2>2. QED BY <1>0, <2>1 DEF TesterInv
<1>4. QED BY <1>2, <1>3

LEMMA WireReceive ==
    ASSUME QuietInv, WireInv, Receive, NEW t \in Testers
    PROVE  TesterInv(t)'
<1> DEFINE m == Head(toServer[ip.peer])
           n == NumRead(t)
<1>0. /\ ip.peer \in Testers /\ ip.pc = "receiving" /\ ip.pc \in Serving
      /\ TesterInv(t) /\ WireTyped /\ IpTyped /\ TasksTyped /\ asked[t] \in Seq(Messages)
      /\ UNCHANGED <<asked, client>> /\ ReadMessage(ip.peer)
  BY DEF QuietInv, WireInv, WireTyped, ServerInv, Serving, Receive, At
<1>1. \/ /\ m.kind = "diag"
         /\ SendRaw("ack", "handling") /\ Ask("doip", m.req)
      \/ m.kind = "service" /\ SendRaw("service", "next")
      \/ m.kind = "version" /\ SendRaw("nack", "closing")
      \/ /\ m.kind \in {"ignored", "oversize"}
         /\ Goto(AfterMessage(m)) /\ UNCHANGED <<conn, toTester>>
      \/ Goto("closing") /\ UNCHANGED <<conn, toTester>>
  BY Zenon DEF Receive, AfterMessage
<1>2. /\ "ack" \in Replies /\ "service" \in Replies /\ "nack" \in Replies
      /\ "handling" \in Places /\ "next" \in Places /\ "closing" \in Places
      /\ AfterMessage(m) \in {"next", "closing"}
  BY DEF Replies, Places, AfterMessage
<1>3. PICK pc \in {"handling", "next", "closing"} :
        \/ \E reply \in Replies : SendRaw(reply, pc)
        \/ Goto(pc) /\ UNCHANGED <<conn, toTester>>
  BY <1>1, <1>2, Zenon
<1>4. /\ ip'.peer = ip.peer /\ ip'.pc \in {"handling", "next", "closing", "killed"}
      /\ \A u \in Testers \ {ip.peer} : toTester'[u] = toTester[u]
  BY <1>0, <1>2, <1>3, SendRawStep, GotoStep, SendRawTells
<1>5. CASE t # ip.peer
  <2>1. asked'[t] = asked[t] /\ toServer'[t] = toServer[t] /\ toTester'[t] = toTester[t]
    BY <1>0, <1>4, <1>5 DEF ReadMessage, IpTyped
  <2>2. ~Served(t) /\ ~Served(t)' BY <1>4, <1>5 DEF Served
  <2>3. ~Handling(t)' /\ ~Current(t)' BY <2>2 DEF Handling, Current
  <2>4. QED BY <1>0, <2>1, <2>2, <2>3, NothingMoved
<1>6. CASE t = ip.peer
  <2>0. /\ n \in Nat /\ n + 1 \in 1..Len(asked[t])
        /\ m = asked[t][n + 1] /\ m \in Messages
        /\ NumRead(t)' = n + 1 /\ asked'[t] = asked[t]
        /\ \A j \in DOMAIN toServer'[t] : toServer'[t][j] = asked[t][n + 1 + j]
    BY <1>6, MessageRead
  <2>1. Served(t)' BY <1>4, <1>6 DEF Served, Serving
  <2>2. SUFFICES /\ RightReplies(asked[t], toTester'[t])
                 /\ Handling(t)' => m = [kind |-> "diag", req |-> task'["doip"].req]
                 /\ Current(t)' => AllSent(t)'
    BY <2>0, <2>1 DEF TesterInv
  <2>3. ASSUME \A i \in 1..n : ~EndsConnection(asked[t][i]), ~EndsConnection(m)
        PROVE  \A i \in 1..NumRead(t)' : ~EndsConnection(asked'[t][i])
    <3>1. \A i \in 1..(n + 1) : i \in 1..n \/ i = n + 1 BY <2>0
    <3>2. QED BY <2>0, <2>3, <3>1
  <2>4. CASE m.kind = "diag" /\ SendRaw("ack", "handling") /\ Ask("doip", m.req)
    <3>1. RepliesTo(m)[1] = "ack" /\ m.req \in Requests BY <2>0, <2>4, RepliesShape
    <3>2. ip'.pc \in {"handling", "killed"} BY <1>0, <1>2, <2>4, SendRawStep
    <3>3. task'["doip"].req = m.req
      BY <1>0, <2>4, <3>1 DEF Ask, TasksTyped, Tasks, Threads
    <3>4. m = [kind |-> "diag", req |-> m.req] BY <2>0, <2>4 DEF Messages
    <3>5. ~EndsConnection(m) BY <2>4 DEF EndsConnection
    <3>6. ASSUME Current(t)' PROVE AllSent(t)'
      <4>1. Handling(t)' BY <3>2, <3>6 DEF Current, Handling, At
      <4>2. /\ \A i \in 1..n : ~EndsConnection(asked[t][i])
            /\ Len(toTester'[t]) = Cardinality(DueUpTo(asked[t], <<n + 1, 1>>))
        BY <1>2, <1>6, <2>4, <3>1, <3>6, FirstReply
      <4>3. QED BY <2>0, <2>3, <3>5, <4>1, <4>2 DEF AllSent
    <3>7. RightReplies(asked[t], toTester'[t]) BY <1>2, <1>6, <2>4, <3>1, FirstReply
    <3>8. QED BY <2>2, <3>3, <3>4, <3>6, <3>7
  <2>5. CASE m.kind = "service" /\ SendRaw("service", "next")
    <3>1. RepliesTo(m)[1] = "service" BY <2>0, <2>5, RepliesShape
    <3>2. ip'.pc \in {"next", "killed"} BY <1>0, <1>2, <2>5, SendRawStep
    <3>3. ~Handling(t)' BY <3>2 DEF Handling, At
    <3>4. ~EndsConnection(m) BY <2>5 DEF EndsConnection
    <3>5. ASSUME Current(t)' PROVE AllSent(t)'
      <4>1. /\ \A i \in 1..n : ~EndsConnection(asked[t][i])
            /\ Len(toTester'[t]) = Cardinality(DueUpTo(asked[t], <<n, 2>>)) + 1
        BY <1>2, <1>6, <2>5, <3>1, <3>5, FirstReply
      <4>2. Cardinality(DueUpTo(asked[t], <<n + 1, 2>>))
              = Cardinality(DueUpTo(asked[t], <<n, 2>>)) + 1
        BY <1>0, <2>0, <2>5, <4>1, DueNext
      <4>3. QED BY <2>0, <2>3, <3>3, <3>4, <4>1, <4>2 DEF AllSent
    <3>6. RightReplies(asked[t], toTester'[t]) BY <1>2, <1>6, <2>5, <3>1, FirstReply
    <3>7. QED BY <2>2, <3>3, <3>5, <3>6
  <2>6. CASE m.kind = "version" /\ SendRaw("nack", "closing")
    <3>1. RepliesTo(m)[1] = "nack" BY <2>0, <2>6, RepliesShape
    <3>2. ip'.pc \in {"closing", "killed"} BY <1>0, <1>2, <2>6, SendRawStep
    <3>3. ~Handling(t)' /\ ~Current(t)' BY <3>2 DEF Handling, Current, At
    <3>4. RightReplies(asked[t], toTester'[t]) BY <1>2, <1>6, <2>6, <3>1, FirstReply
    <3>5. QED BY <2>2, <3>3, <3>4
  <2>7. CASE \/ m.kind = "ignored" /\ Goto("next") /\ UNCHANGED <<conn, toTester>>
             \/ Goto("closing") /\ UNCHANGED <<conn, toTester>>
    <3>1. /\ \/ m.kind = "ignored" /\ ip'.pc = "next"
             \/ ip'.pc = "closing"
          /\ UNCHANGED <<conn, toTester>>
      BY <1>0, <1>2, <2>7, GotoStep
    <3>2. ~Handling(t)' BY <3>1 DEF Handling, At
    <3>3. ASSUME Current(t)' PROVE AllSent(t)'
      <4>1. m.kind = "ignored" BY <3>1, <3>3 DEF Current
      <4>2. Current(t) /\ ~Handling(t)
        BY <1>0, <1>6, <3>1, <3>3 DEF Current, Served, Handling, At
      <4>3. /\ \A i \in 1..n : ~EndsConnection(asked[t][i])
            /\ Len(toTester[t]) = Cardinality(DueUpTo(asked[t], <<n, 2>>))
        BY <1>0, <4>2 DEF TesterInv, AllSent
      <4>4. ~EndsConnection(m) BY <4>1 DEF EndsConnection
      <4>5. Cardinality(DueUpTo(asked[t], <<n + 1, 2>>))
              = Cardinality(DueUpTo(asked[t], <<n, 2>>))
        BY <1>0, <2>0, <4>1, <4>3, DueNext
      <4>6. QED BY <2>0, <2>3, <3>1, <3>2, <4>3, <4>4, <4>5 DEF AllSent
    <3>4. RightReplies(asked[t], toTester'[t]) BY <1>0, <3>1 DEF TesterInv
    <3>5. QED BY <2>2, <3>2, <3>3, <3>4
  <2>8. QED BY <1>1, <2>4, <2>5, <2>6, <2>7 DEF AfterMessage
<1>7. QED BY <1>5, <1>6

LEMMA WireReply ==
    ASSUME QuietInv, WireInv, Reply, NEW t \in Testers
    PROVE  TesterInv(t)'
<1> DEFINE n     == NumRead(t)
           reply == task["doip"].req.sid
<1>0. /\ ip.peer \in Testers /\ ip.pc = "handling" /\ ip.pc \in Serving
      /\ TesterInv(t) /\ WireTyped /\ IpTyped /\ TasksTyped /\ asked[t] \in Seq(Messages)
      /\ toTester[t] \in Seq(Replies)
      /\ UNCHANGED <<asked, client, toServer>> /\ SendRaw(reply, "next")
  BY DEF QuietInv, WireInv, WireTyped, ServerInv, Serving, Reply, At
<1>1. reply \in Replies /\ "next" \in Places BY <1>0, SidSent DEF Places
<1>2. /\ ip'.peer = ip.peer /\ ip'.pc \in {"next", "killed"}
      /\ \A u \in Testers \ {ip.peer} : toTester'[u] = toTester[u]
  BY <1>0, <1>1, SendRawStep, SendRawTells
<1>3. ~Handling(t)' BY <1>2 DEF Handling, At
<1>4. CASE t # ip.peer
  <2>1. asked'[t] = asked[t] /\ toServer'[t] = toServer[t] /\ toTester'[t] = toTester[t]
    BY <1>0, <1>2, <1>4
  <2>2. ~Served(t) /\ ~Served(t)' /\ ~Current(t)' BY <1>2, <1>4 DEF Served, Current
  <2>3. QED BY <1>0, <1>3, <2>1, <2>2, NothingMoved
<1>5. CASE t = ip.peer
  <2>1. Served(t) /\ Served(t)' /\ Handling(t)
    BY <1>0, <1>2, <1>5 DEF Served, Serving, Handling, At
  <2>2. n > 0 /\ asked[t][n] = [kind |-> "diag", req |-> task["doip"].req]
    BY <1>0, <2>1 DEF TesterInv
  <2>3. NumRead(t)' = n /\ asked'[t] = asked[t] /\ toServer'[t] = toServer[t]
    BY <1>0 DEF NumRead
  <2>4. /\ RightReplies(asked[t], toTester'[t])
        /\ Current(t)' =>
             /\ \A i \in 1..n : ~EndsConnection(asked[t][i])
             /\ Len(toTester'[t]) = Cardinality(DueUpTo(asked[t], <<n, 2>>))
    <3>1. CASE Whole(t)
      <4>1. /\ \A i \in 1..n : ~EndsConnection(asked[t][i])
            /\ Len(toTester[t]) = Cardinality(DueUpTo(asked[t], <<n, 1>>))
        BY <1>0, <2>1, <3>1 DEF TesterInv, AllSent, Current, Whole
      <4>2. n - 1 \in Nat /\ (n - 1) + 1 = n /\ n \in 1..Len(asked[t])
        <5>1. n = Len(asked[t]) - Len(toServer[t]) BY DEF NumRead
        <5>2. Len(asked[t]) \in Nat /\ Len(toServer[t]) \in Nat
          BY <1>0 DEF IpTyped
        <5>3. \A a, b \in Nat : a - b \in Int /\ a - b <= a OBVIOUS
        <5>4. n \in Int /\ n <= Len(asked[t]) BY <5>1, <5>2, <5>3
        <5>5. QED BY <2>2, <5>2, <5>4
      <4>3. asked[t][n].kind = "diag" /\ asked[t][n] \in Messages
        BY <1>0, <2>2, <4>2
      <4>4. \A i \in 1..(n - 1) : ~EndsConnection(asked[t][i]) BY <4>1, <4>2
      <4>5. /\ <<n, 2>> \in Due(asked[t])
            /\ Cardinality(DueUpTo(asked[t], <<n, 2>>)) = Len(toTester[t]) + 1
        <5>1. \A k \in Nat :
                 /\ k + 1 \in 1..Len(asked[t])
                 /\ \A i \in 1..k : ~EndsConnection(asked[t][i])
                 /\ asked[t][k + 1].kind = "diag"
                 => /\ <<k + 1, 2>> \in Due(asked[t])
                    /\ Cardinality(DueUpTo(asked[t], <<k + 1, 2>>)) =
                          Cardinality(DueUpTo(asked[t], <<k + 1, 1>>)) + 1
          BY <1>0, DueNext
        <5>2. QED BY <4>1, <4>2, <4>3, <4>4, <5>1
      <4>6. reply = RepliesTo(asked[t][n])[2]
        BY <2>2, <4>3, RepliesShape
      <4>7. toTester'[t] = Append(toTester[t], reply)
        BY <1>0, <1>1, <1>5, <3>1, SendRawTells
      <4>8. RightReplies(asked[t], toTester[t]) BY <1>0 DEF TesterInv
      <4>9. reply = RepliesTo(asked[t][(<<n, 2>>)[1]])[(<<n, 2>>)[2]] BY <4>6
      <4>10. RightReplies(asked[t], Append(toTester[t], reply))
        BY <1>0, <1>1, <4>5, <4>8, <4>9, OneReplyMore
      <4>11. Len(toTester'[t]) = Len(toTester[t]) + 1 BY <1>0, <1>1, <4>7
      <4>12. QED BY <4>1, <4>5, <4>7, <4>10, <4>11
    <3>2. CASE ~Whole(t)
      <4>1. toTester'[t] = toTester[t] /\ ~Current(t)'
        BY <1>0, <1>1, <1>5, <3>2, SendRawTells DEF Current
      <4>2. QED BY <1>0, <4>1 DEF TesterInv
    <3>3. QED BY <3>1, <3>2
  <2>5. Current(t)' => AllSent(t)' BY <1>3, <2>3, <2>4 DEF AllSent
  <2>6. QED BY <1>0, <1>3, <2>1, <2>3, <2>4, <2>5 DEF TesterInv
<1>6. QED BY <1>4, <1>5

(* The steps of the handler, and of the transport on CAN. *)
LEMMA WireHandler ==
    ASSUME QuietInv, WireInv, UNCHANGED ipVars, NEW t \in Testers,
           \/ \E th \in Threads : UdsStep(th)
           \/ SendCanResponse \/ \E r \in Requests : OnCanFrame(r)
    PROVE  TesterInv(t)'
<1>0. /\ TesterInv(t) /\ TasksTyped
      /\ asked'[t] = asked[t] /\ toServer'[t] = toServer[t] /\ toTester'[t] = toTester[t]
      /\ UNCHANGED <<ip, client, conn>>
  BY DEF WireInv, QuietInv, ipVars
<1>1. "doip" \in Threads \ {"docan"} /\ "docan" \in Threads /\ Threads = {"doip", "docan"}
  BY DEF Threads
<1>2. task'["doip"].req = task["doip"].req
  <2>1. ASSUME NEW th \in Threads, UdsStep(th) PROVE task'["doip"].req = task["doip"].req
    <3>1. CASE th = "doip" BY <1>0, <2>1, <3>1, UdsSteps
    <3>2. CASE th = "docan" BY <1>0, <1>1, <2>1, <3>2, UdsSteps DEF OthersKeep
    <3>3. QED BY <1>1, <3>1, <3>2
  <2>2. CASE SendCanResponse BY <1>0, <1>1, <2>2, TakeStep DEF SendCanResponse, OthersKeep
  <2>3. ASSUME NEW r \in Requests, OnCanFrame(r) PROVE task'["doip"] = task["doip"]
    BY <1>0, <1>1, <2>3, AskStep DEF OnCanFrame, OthersKeep
  <2>4. QED BY <2>1, <2>2, <2>3
<1>3. (Served(t)' <=> Served(t)) /\ (Handling(t)' <=> Handling(t)) /\ (Current(t)' <=> Current(t))
  BY <1>0 DEF Served, Handling, Current, At
<1>4. QED BY <1>0, <1>2, <1>3, NothingMoved

LEMMA WireTypes ==
    ASSUME QuietInv, WireTyped, [Next]_vars
    PROVE  WireTyped'
<1>0. /\ asked \in [Testers -> Seq(Messages)] /\ toTester \in [Testers -> Seq(Replies)]
  BY DEF WireTyped
<1>1. CASE UNCHANGED <<asked, toTester>> BY <1>1 DEF WireTyped
<1>2. ASSUME NEW u \in Testers, NEW m \in Messages, SendMessage(u, m) PROVE WireTyped'
  <2>1. asked' = [asked EXCEPT ![u] = Append(asked[u], m)] /\ toTester' = toTester
    BY <1>2 DEF SendMessage
  <2>2. Append(asked[u], m) \in Seq(Messages) BY <1>0
  <2>3. QED BY <1>0, <2>1, <2>2 DEF WireTyped
<1>3. CASE CloseConnection
  <2>1. <<>> \in Seq(Messages) /\ <<>> \in Seq(Replies) OBVIOUS
  <2>2. QED BY <1>0, <1>3, <2>1 DEF CloseConnection, WireTyped
<1>4. CASE Receive
  <2>1. asked' = asked /\ ip.peer \in Testers
    BY <1>4 DEF Receive, QuietInv, ServerInv, Serving, At
  <2>2. UNCHANGED toTester \/ \E reply \in {"ack", "service", "nack"}, pc \in Places : SendRaw(reply, pc)
    <3>1. \A m : AfterMessage(m) \in Places /\ "handling" \in Places /\ "next" \in Places
      BY DEF AfterMessage, Places
    <3>2. QED BY <1>4, <3>1, Zenon DEF Receive
  <2>3. "ack" \in Replies /\ "service" \in Replies /\ "nack" \in Replies
    BY DEF Replies
  <2>4. QED BY <1>0, <2>1, <2>2, <2>3, SendRawTells DEF WireTyped
<1>5. CASE Reply
  <2>1. asked' = asked /\ ip.peer \in Testers
    BY <1>5 DEF Reply, QuietInv, ServerInv, Serving, At
  <2>2. task["doip"].req.sid \in Replies BY SidSent DEF QuietInv
  <2>3. QED BY <1>0, <1>5, <2>1, <2>2, SendRawTells DEF Reply, WireTyped
<1>6. CASE AcceptLoop \/ NextMessage \/ EndOfStream \/ CalledTooLate
             \/ Shutdown \/ ShutdownStep
             \/ \E u \in Testers : Connect(u) \/ Leave(u) \/ Accept(u)
  <2>1. UNCHANGED wire
    BY <1>6, Zenon DEF AcceptLoop, NextMessage, EndOfStream, CalledTooLate, Shutdown,
       ShutdownStep, CloseClient, CloseListener, Join, Connect, Leave, Accept
  <2>2. QED BY <1>1, <2>1 DEF wire
<1>7. CASE UNCHANGED ipVars BY <1>1, <1>7 DEF ipVars
<1>8. CASE UNCHANGED vars BY <1>7, <1>8 DEF vars
<1>9. QED
  <2>1. CASE DoIpThread
    BY <1>3, <1>4, <1>5, <1>6, <1>7, <2>1, Zenon DEF DoIpThread, AcceptThread
  <2>2. CASE CanThread BY <1>7, <2>2 DEF CanThread, SendCanResponse
  <2>3. ASSUME NEW r \in Requests, OnCanFrame(r) PROVE WireTyped'
    BY <1>7, <2>3 DEF OnCanFrame
  <2>4. CASE Environment \/ ShutdownStep BY <1>2, <1>6, <2>4, Zenon DEF Environment
  <2>5. QED BY <1>8, <2>1, <2>2, <2>3, <2>4, Zenon DEF Next

LEMMA WireStep ==
    ASSUME QuietInv, WireInv, [Next]_vars
    PROVE  WireInv'
<1>1. WireTyped' BY WireTypes DEF WireInv
<1>2. ASSUME NEW t \in Testers PROVE TesterInv(t)'
  <2>1. CASE DoIpThread
    <3>1. CASE UdsStep("doip") /\ UNCHANGED <<ipVars, frames, canReplies>>
      BY <3>1, WireHandler DEF Threads
    <3>2. CASE AcceptThread
      BY <3>2, WireQuiet, WireReceive, WireReply, WireClose, WireAccept, Zenon DEF AcceptThread
    <3>3. QED BY <2>1, <3>1, <3>2 DEF DoIpThread
  <2>2. CASE CanThread
    <3>1. UNCHANGED ipVars /\ (UdsStep("docan") \/ SendCanResponse)
      BY <2>2 DEF CanThread, SendCanResponse
    <3>2. QED BY <3>1, WireHandler DEF Threads
  <2>3. ASSUME NEW r \in Requests, OnCanFrame(r) PROVE TesterInv(t)'
    BY <2>3, WireHandler DEF OnCanFrame
  <2>4. CASE Environment \/ ShutdownStep
    BY <2>4, WireQuiet, WireSend, Zenon DEF Environment
  <2>5. CASE UNCHANGED vars
    <3>1. UNCHANGED <<ip, client, conn, task, wire>> BY <2>5 DEF vars, ipVars, udsVars, wire
    <3>2. (Served(t)' <=> Served(t)) /\ (Handling(t)' <=> Handling(t))
             /\ (Current(t)' <=> Current(t))
      BY <3>1 DEF Served, Handling, Current, At
    <3>3. TesterInv(t) /\ asked' = asked /\ toServer' = toServer /\ toTester' = toTester
      BY <3>1 DEF WireInv, wire
    <3>4. QED BY <3>1, <3>2, <3>3, NothingMoved
  <2>6. QED BY <2>1, <2>2, <2>3, <2>4, <2>5, Zenon DEF Next
<1>3. QED BY <1>1, <1>2 DEF WireInv

(* However testers come, go and write ahead, whatever the other transport asks
   and whenever the transport is shut down: the replies on a connection are
   the answers to its own messages, each acknowledged first, in their order,
   and none behind the message that ends it.                                  *)
THEOREM OwnAnswersInOrderAlways == Spec => []OwnAnswersInOrder
<1>1. Init => QuietInv /\ WireInv BY QuietInit, WireInit
<1>2. QuietInv /\ WireInv /\ [Next]_vars => (QuietInv /\ WireInv)'
  BY QuietStep, WireStep, Zenon
<1>3. WireInv => OwnAnswersInOrder
  BY DEF WireInv, TesterInv, RightReplies, OwnAnswersInOrder
<1>4. QED BY <1>1, <1>2, <1>3, PTL DEF Spec

-----------------------------------------------------------------------------
(* Types. *)

SwitchesTyped ==
    /\ session \in Sessions /\ controlled \in [Controllable -> BOOLEAN]
    /\ running \in BOOLEAN /\ listening \in BOOLEAN
    /\ stop \in {"up", "client", "listen", "join", "done"}

LEMMA UdsSwitches ==
    ASSUME session \in Sessions, controlled \in [Controllable -> BOOLEAN],
           NEW th \in Threads, UdsStep(th)
    PROVE  session' \in Sessions /\ controlled' \in [Controllable -> BOOLEAN]
<1>1. CASE HandleRequest(th)
  <2>1. \/ SessionControl(th) \/ UNCHANGED <<session, controlled>>
    BY <1>1, Zenon DEF HandleRequest, ReadDataById, ReadDtc, PermitIoControl
  <2>2. SessionControl(th) => session' \in Sessions /\ UNCHANGED controlled
    BY DEF SessionControl
  <2>3. QED BY <2>1, <2>2
<1>2. CASE IoControl(th)
  <2>1. /\ UNCHANGED session
        /\ \/ \E value \in BOOLEAN :
                controlled' = [controlled EXCEPT ![task[th].req.arg] = value]
           \/ UNCHANGED controlled
    BY <1>2, Zenon DEF IoControl
  <2>2. QED BY <2>1
<1>3. QED BY <1>1, <1>2 DEF UdsStep

LEMMA SwitchesStep ==
    ASSUME QuietInv, SwitchesTyped, [Next]_vars
    PROVE  SwitchesTyped'
<1>1. session' \in Sessions /\ controlled' \in [Controllable -> BOOLEAN]
  <2>1. CASE \/ Untouched \/ DoIpAsked \/ Taken("doip") \/ Taken("docan")
             \/ \E r \in Requests : OnCanFrame(r)
    BY <2>1 DEF Untouched, udsVars, DoIpAsked, Taken, OnCanFrame, SwitchesTyped
  <2>2. CASE UdsStep("doip") \/ UdsStep("docan")
    BY <2>2, UdsSwitches DEF Threads, SwitchesTyped
  <2>3. QED BY <2>1, <2>2, HandlerSteps, Zenon
<1>2. /\ running' \in BOOLEAN /\ listening' \in BOOLEAN
      /\ stop' \in {"up", "client", "listen", "join", "done"}
  <2>0. /\ running \in BOOLEAN /\ listening \in BOOLEAN
        /\ stop \in {"up", "client", "listen", "join", "done"}
    BY DEF SwitchesTyped
  <2>1. CASE UNCHANGED <<running, listening, stop>> BY <2>0, <2>1
  <2>2. CASE Shutdown \/ ShutdownStep
    BY <2>0, <2>2 DEF Shutdown, ShutdownStep, CloseClient, CloseListener, Join
  <2>3. CASE DoIpThread
    <3>1. UNCHANGED <<running, listening, stop>>
      BY <2>3, Zenon DEF DoIpThread, AcceptThread, AcceptLoop, NextMessage, Receive,
         EndOfStream, Reply, CloseConnection, Accept, ipVars
    <3>2. QED BY <2>1, <3>1
  <2>4. CASE CanThread \/ \E r \in Requests : OnCanFrame(r)
    <3>1. UNCHANGED ipVars BY <2>4 DEF CanThread, SendCanResponse, OnCanFrame
    <3>2. QED BY <2>1, <3>1 DEF ipVars
  <2>5. CASE Environment
    <3>1. Shutdown \/ UNCHANGED <<running, listening, stop>>
      BY <2>5, Zenon DEF Environment, Connect, Leave, SendMessage, CalledTooLate
    <3>2. QED BY <2>1, <2>2, <3>1
  <2>6. CASE UNCHANGED vars BY <2>1, <2>6 DEF vars, ipVars
  <2>7. QED BY <2>2, <2>3, <2>4, <2>5, <2>6, Zenon DEF Next
<1>3. QED BY <1>1, <1>2 DEF SwitchesTyped

(* Handler, both transports, testers and histories keep their types. *)
THEOREM DiagnosticsTypeCorrect == Spec => []TypeOK
<1> DEFINE Inv == QuietInv /\ CanInv /\ WireInv /\ SwitchesTyped
<1>1. Init => Inv
  BY QuietInit, CanInit, WireInit
  DEF Init, UdsInit, DoIpInit, SwitchesTyped, Sessions
<1>2. Inv /\ [Next]_vars => Inv'
  BY QuietStep, CanStep, WireStep, SwitchesStep, Zenon
<1>3. Inv => TypeOK
  BY DEF QuietInv, TasksTyped, Tasks, IpTyped, CanInv, WireInv, WireTyped, SwitchesTyped,
     TypeOK, UdsTypeOK, DoIpTypeOK
<1>4. QED BY <1>1, <1>2, <1>3, PTL DEF Spec

=============================================================================
