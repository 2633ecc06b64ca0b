---------------------------- MODULE Diagnostics ----------------------------
(* The diagnostics of the body ECU on POSIX: one UdsServiceHandler that two
   transports call from their own threads, DoIpTransport from its accept
   thread and DoCanTransport from the CAN adapter's receive thread.          *)
EXTENDS DoIp

CONSTANT MaxFrames       \* bound: diagnostic frames on the CAN bus

VARIABLES frames,        \* history: requests received over CAN
          canReplies     \* history: frames sent in answer

vars == <<udsVars, ipVars, frames, canReplies>>

TypeOK ==
    /\ UdsTypeOK
    /\ DoIpTypeOK
    /\ frames \in Seq(Requests) /\ canReplies \in Seq({r.sid : r \in Requests})

Init ==
    /\ UdsInit
    /\ DoIpInit
    /\ frames = <<>> /\ canReplies = <<>>

(* DoCanTransport::onCanFrame().  Frames with another identifier or a length
   that is not a single frame's change nothing.                              *)
OnCanFrame(r) ==
    /\ task["docan"].pc = "idle"
    /\ Len(frames) < MaxFrames
    /\ frames' = Append(frames, r)
    /\ Ask("docan", r)
    /\ UNCHANGED <<session, controlled, ipVars, canReplies>>

(* Mistake: a refusal is not sent. *)
SendCanResponse_Positive ==
    /\ task["docan"].pc = "answered"
    /\ canReplies' = IF task["docan"].answer.ok /\ task["docan"].answer.size <= 7
                     THEN Append(canReplies, task["docan"].req.sid) ELSE canReplies
    /\ Take("docan")
    /\ UNCHANGED <<session, controlled, ipVars, frames>>

(* DoCanTransport::sendResponse(): an answer that fits no single frame is
   dropped.                                                                  *)
SendCanResponse ==
    /\ task["docan"].pc = "answered"
    /\ canReplies' = IF task["docan"].answer.size <= 7
                     THEN Append(canReplies, task["docan"].req.sid) ELSE canReplies
    /\ Take("docan")
    /\ UNCHANGED <<session, controlled, ipVars, frames>>

CanThread ==
    \/ UdsStep("docan") /\ UNCHANGED <<ipVars, frames, canReplies>>
    \/ SendCanResponse

DoIpThread ==
    \/ UdsStep("doip") /\ UNCHANGED <<ipVars, frames, canReplies>>
    \/ AcceptThread /\ UNCHANGED <<frames, canReplies>>

Environment ==
    \/ \E t \in Testers : Connect(t) \/ Leave(t)
    \/ \E t \in Testers, m \in Messages : SendMessage(t, m)
    \/ Shutdown
    \/ CalledTooLate

(* A process that was killed does nothing any more. *)
Next ==
    /\ ip.pc # "killed"
    /\ \/ DoIpThread
       \/ CanThread
       \/ \E r \in Requests : OnCanFrame(r)
       \/ (Environment \/ ShutdownStep) /\ UNCHANGED <<frames, canReplies>>

Spec == Init /\ [][Next]_vars

(* The threads run on; no tester has to connect, send, or leave. *)
FairSpec ==
    /\ Spec
    /\ WF_vars(ip.pc # "killed" /\ DoIpThread)
    /\ WF_vars(ip.pc # "killed" /\ CanThread)
    /\ WF_vars(ip.pc # "killed" /\ ShutdownStep /\ UNCHANGED <<frames, canReplies>>)

-----------------------------------------------------------------------------
(* Properties. *)

(* The places of all that a sequence of messages is answered with, one for
   each reply: a message and which reply to it.  Nothing is due behind a
   message that ends the connection.                                         *)
EndsConnection(m) == m.kind \in {"version", "oversize"}

Due(msgs) ==
    {p \in (DOMAIN msgs) \X {1, 2} :
        /\ p[2] \in DOMAIN RepliesTo(msgs[p[1]])
        /\ \A i \in 1..(p[1] - 1) : ~EndsConnection(msgs[i])}

(* Those of them up to a place. *)
DueUpTo(msgs, p) ==
    {q \in Due(msgs) : q[1] < p[1] \/ (q[1] = p[1] /\ q[2] <= p[2])}

(* What a tester is sent is what its own messages are answered with, in the
   order in which it sent them, each acknowledged first, and nothing of
   another connection, of the other transport, or after a message that ends
   the connection: the n-th reply is the n-th that is due.                   *)
OwnAnswersInOrder ==
    \A t \in Testers :
        conn[t] # "off" =>
            \A n \in DOMAIN toTester[t] :
                \E p \in Due(asked[t]) :
                    /\ Cardinality(DueUpTo(asked[t], p)) = n
                    /\ toTester[t][n] = RepliesTo(asked[t][p[1]])[p[2]]

(* Every message of the tester that is being served is answered, as long as it
   stays and nobody stops the transport or has the connection ended.         *)
ServedIsAnswered ==
    \A t \in Testers :
        (ip.peer = t /\ conn[t] = "open")
            ~> \/ ip.peer # t \/ conn[t] # "open" \/ ~running
               \/ Len(toTester[t]) = Cardinality(Due(asked[t]))

(* When shutdown() has returned the accept thread is gone, no request is under
   way in it, and no descriptor of it is in use: the handler it would call is
   cleared then.                                                             *)
QuietAfterShutdown ==
    stop = "done" => /\ task["doip"].pc = "idle"
                     /\ client = Nobody /\ ~listening
                     /\ \A t \in Testers : conn[t] \notin {"open", "reset"}

(* As long as nothing comes in over CAN, an actuator is controlled in the
   extended session only.  The check and the call of the provider are two
   steps, and a session outlives the connection that opened it.              *)
DoIpControlInExtendedOnly ==
    [][frames = <<>> /\ controlled' # controlled => session = "extended"]_vars

(* What goes out over CAN are answers to the requests that came in there, each
   at most once, in their order, and none to a request of the DoIP tester that
   is served meanwhile; every request with a short answer, be it a refusal, has
   one.  Whether the VIN, too long for one frame, is answered is left open:
   sendResponse() drops it, where docs/decisions/005 has "Same UDS services
   reachable over both Ethernet and CAN-FD".                                 *)
FitsFrame(r) == r # [sid |-> "read", arg |-> "vin"]

ShortUpTo(reqs, n) == {i \in 1..n : FitsFrame(reqs[i])}

CanAnswersInOrder ==
    task["docan"].pc = "idle" =>
        \E answered \in SUBSET (1..Len(frames)) :
            /\ ShortUpTo(frames, Len(frames)) \subseteq answered
            /\ Len(canReplies) = Cardinality(answered)
            /\ \A i \in answered :
                  canReplies[Cardinality(answered \cap (1..i))] = frames[i].sid

-----------------------------------------------------------------------------
(* What the documents say and the code does not do. *)

(* docs/decisions/005: "IOControl is restricted to extended diagnostic session
   for safety".                                                              *)
IoControlInExtendedOnly ==
    [][controlled' # controlled => session = "extended"]_vars

(* TransportTest.cpp: "transport.shutdown(); EXPECT_FALSE(
   transport.isListening());" of a transport nobody has connected to: shutdown()
   returns, and with it the run level that calls it.                         *)
ShutdownReturns == stop = "client" ~> (stop = "done" \/ At("killed"))

=============================================================================
