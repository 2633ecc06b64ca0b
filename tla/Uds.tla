-------------------------------- MODULE Uds --------------------------------
(* UdsServiceHandler: one session and one list of data providers, shared by
   every transport.  Each transport's thread calls handleRequest(), and
   nothing guards the session, so a request is two steps where the code reads
   the session first and calls a provider afterwards.                        *)
EXTENDS Integers

CONSTANTS Requests       \* the requests testers send, of AllRequests

VARIABLES session,       \* session_
          controlled,    \* what each controllable provider was last set to
          task           \* each thread's request and how far it is

udsVars == <<session, controlled, task>>

Threads  == {"doip", "docan"}
Sessions == {"default", "extended"}

(* The data identifiers of the providers of app.cpp, and one nobody knows.  A
   serial number is read like the VIN.                                       *)
Dids == {"vin", "lights", "door", "unknown"}
Controllable == {"lights", "door"}

(* arg: the session, or the identifier.  "malformed" stands for an unknown
   service and for every request that is too short.                          *)
AllRequests ==
    [sid : {"session"}, arg : Sessions \cup {"other"}]
        \cup [sid : {"read", "control"}, arg : Dids]
        \cup [sid : {"dtc", "malformed"}, arg : {"none"}]

ASSUME RequestsAssumption == Requests \subseteq AllRequests

(* An answer is positive or not, and so many bytes long. *)
Yes(size) == [ok |-> TRUE, size |-> size]
No        == [ok |-> FALSE, size |-> 3]

DataSize == [vin |-> 17, lights |-> 3, door |-> 1]

Answers == [ok : BOOLEAN, size : {2, 3, 4, 6, 20}]

Resting == [pc |-> "idle", req |-> [sid |-> "malformed", arg |-> "none"], answer |-> No]

UdsTypeOK ==
    /\ session \in Sessions
    /\ controlled \in [Controllable -> BOOLEAN]
    /\ task \in [Threads -> [pc : {"idle", "asked", "permitted", "answered"},
                             req : AllRequests, answer : Answers]]

UdsInit ==
    /\ session = "default"
    /\ controlled = [d \in Controllable |-> FALSE]
    /\ task = [th \in Threads |-> Resting]

-----------------------------------------------------------------------------
(* A transport calls handleRequest(), and takes the answer. *)
Ask(th, r) == task' = [task EXCEPT ![th].pc = "asked", ![th].req = r]
Take(th)   == task' = [task EXCEPT ![th] = Resting]

Answer(th, a) == task' = [task EXCEPT ![th].pc = "answered", ![th].answer = a]

SessionControl(th) ==
    LET sub == task[th].req.arg IN
    /\ session' = IF sub \in Sessions THEN sub ELSE session
    /\ Answer(th, IF sub \in Sessions THEN Yes(2) ELSE No)
    /\ UNCHANGED controlled

(* The first provider that knows the identifier answers. *)
ReadDataById(th) ==
    LET did == task[th].req.arg IN
    /\ Answer(th, IF did \in DOMAIN DataSize THEN Yes(3 + DataSize[did]) ELSE No)
    /\ UNCHANGED <<session, controlled>>

(* Nothing in the program stores a trouble code: the list is empty. *)
ReadDtc(th) ==
    /\ Answer(th, Yes(2))
    /\ UNCHANGED <<session, controlled>>

(* Mistake: the session is not looked at. *)
PermitIoControl_Always(th) ==
    /\ task' = [task EXCEPT ![th].pc = "permitted"]
    /\ UNCHANGED <<session, controlled>>

(* handleIoControl() up to the check of the session ... *)
PermitIoControl(th) ==
    /\ IF session = "extended"
       THEN task' = [task EXCEPT ![th].pc = "permitted"]
       ELSE Answer(th, No)
    /\ UNCHANGED <<session, controlled>>

(* ... and from there.  A provider may refuse: the parameter is wrong, or the
   door's interlock says no.  The next provider is asked then, and none of
   them knows the identifier.                                                *)
IoControl(th) ==
    /\ task[th].pc = "permitted"
    /\ \/ /\ task[th].req.arg \in Controllable
          /\ \E value \in BOOLEAN :
                controlled' = [controlled EXCEPT ![task[th].req.arg] = value]
          /\ Answer(th, Yes(3))
       \/ Answer(th, No) /\ UNCHANGED controlled
    /\ UNCHANGED session

HandleRequest(th) ==
    /\ task[th].pc = "asked"
    /\ CASE task[th].req.sid = "session" -> SessionControl(th)
         [] task[th].req.sid = "read"    -> ReadDataById(th)
         [] task[th].req.sid = "dtc"     -> ReadDtc(th)
         [] task[th].req.sid = "control" -> PermitIoControl(th)
         [] OTHER -> Answer(th, No) /\ UNCHANGED <<session, controlled>>

UdsStep(th) == HandleRequest(th) \/ IoControl(th)

=============================================================================
