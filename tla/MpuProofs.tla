------------------------------ MODULE MpuProofs ------------------------------
(* Theorems about the MPU process, for any number of datagrams on the wire, of
   inputs and faults, of attempts to learn the VIN, and for any VIN.          *)
EXTENDS Mpu, SequenceTheorems, TLAPS

LastOf(s) == s[Len(s)]
IsEvent(m) == m.kind = "locked"

(* The last of the lock events under way is what the ECU reported last; when
   none is under way, the broker has it.                                      *)
NewestEvent(link, last, known) ==
    /\ \A i \in 1..Len(link) :
          IsEvent(link[i]) /\ (\A j \in i + 1..Len(link) : ~IsEvent(link[j]))
              => link[i].value = last
    /\ (\A i \in 1..Len(link) : ~IsEvent(link[i])) /\ last # None => known = last

EventInv == ~lost => NewestEvent(uplink, reported, store["locked"])

(* What the reader of a signal has not read yet ends with the signal's value. *)
NewestLast(s) ==
    LET queue == streams[s].queue IN queue # <<>> => LastOf(queue) = store[s]

QueuesInv ==
    \A s \in Signals :
        /\ ~streams[s].on => streams[s].queue = <<>>
        /\ streams[s].queue # <<>> => store[s] # None
        /\ ~lost => NewestLast(s)

CommandInv ==
    /\ main.pc \in {"connect", "bridge"} => ~streams["command"].on /\ requested = None
    /\ (streams["command"].on /\ streams["command"].queue = <<>> /\ ~lost)
          => requested = store["command"]

(* Where the threads are. *)
BeforeInfo == {"connect", "bridge", "cli", "ask", "wait", "gateway"}
BeforeCli == BeforeInfo \cup {"subscribe", "publish"}

StepsInv ==
    /\ \A p \in Publishers : held[p].step = "idle" => held[p] = Idle
    /\ main.pc \in BeforeInfo => /\ ~connected /\ ~streams["locked"].on
                                 /\ \A p \in Publishers : held[p] = Idle
    /\ main.pc \in BeforeCli => cli = "off"
    /\ held["cli"].step # "idle" => cli = "update"
    /\ mutex = None => held["reader"].step = "idle"

AttemptsInv ==
    /\ main.pc \in {"connect", "bridge", "cli"} => main.attempts = 0
    /\ main.pc = "ask" => main.attempts < MaxAttempts

Pending(p) == held[p].step = "publish"

(* The signal keeps having a value once somebody has seen one. *)
SeenInv ==
    /\ app # None => store["locked"] # None
    /\ \A p \in Publishers : Pending(p) => store["locked"] # None

(* The app has the broker's lock state, or the reader thread has it, or will
   read it; and what other threads have yet to publish is no older, unless one
   of them was about to when a reader published last.                         *)
LockInv ==
    connected /\ streams["locked"].on /\ streams["locked"].queue = <<>> /\ ~lost =>
        IF Pending("reader") THEN held["reader"].locked = store["locked"]
        ELSE ~overtaken =>
                /\ app = store["locked"]
                /\ \A p \in Publishers : Pending(p) => held[p].locked = store["locked"]

Relations == EventInv /\ QueuesInv /\ CommandInv /\ StepsInv
             /\ SeenInv /\ LockInv

MpuInv == TypeOK /\ AttemptsInv /\ Relations

-----------------------------------------------------------------------------
(* Types. *)

StoreTyped == store \in [Signals -> Values]
StreamsTyped == streams \in [Signals -> [on : BOOLEAN, queue : Seq(Payloads)]]
CountTyped == lost \in BOOLEAN /\ inputs \in 0..MaxInputs
LinksTyped ==
    /\ uplink \in Seq(Messages) /\ Len(uplink) <= MaxInFlight
    /\ downlink \in Seq(Requests) /\ Len(downlink) <= MaxInFlight
RestTyped ==
    /\ mutex \in Signals \cup {None} /\ socket \in BOOLEAN
    /\ mcu \in [locked : LockStates, known : BOOLEAN, announced : BOOLEAN]
    /\ reported \in Values /\ requested \in Values

LEMMA BridgeTypes ==
    BridgeTypeOK <=> StoreTyped /\ StreamsTyped /\ CountTyped /\ LinksTyped /\ RestTyped
  BY DEF BridgeTypeOK, StoreTyped, StreamsTyped, CountTyped, LinksTyped, RestTyped

LEMMA Bounds == MaxInFlight \in Nat \ {0} /\ MaxInputs \in Nat
  BY Zenon, BridgeAssumption

LEMMA NoAttempts == 0 \in 0..MaxAttempts
  BY MpuAssumption

LEMMA SomePayload == None \notin Payloads /\ LockStates \subseteq Payloads
  BY BridgeAssumption DEF None, Payloads, LockStates

LEMMA InputTyped ==
    ASSUME CountTyped, Input
    PROVE  inputs' \in 0..MaxInputs
  BY Bounds DEF CountTyped, Input

LEMMA TailTyped ==
    ASSUME NEW S, NEW s \in Seq(S), s # <<>>
    PROVE  /\ Head(s) \in S /\ Tail(s) \in Seq(S)
           /\ Len(Tail(s)) = Len(s) - 1 /\ Len(s) \in Nat /\ Len(s) > 0
           /\ Head(s) = s[1]
           /\ \A i \in 1..Len(Tail(s)) : Tail(s)[i] = s[i + 1]
  BY HeadTailProperties, LenProperties, EmptySeq

(* A full buffer drops all, one that is not keeps the order. *)
LEMMA WireTyped ==
    ASSUME NEW S, NEW link \in Seq(S), Len(link) <= MaxInFlight, NEW ms \in Seq(S)
    PROVE  Wire(link, ms) \in Seq(S) /\ Len(Wire(link, ms)) <= MaxInFlight
  BY ConcatProperties DEF Wire, Fits

LEMMA SendTyped ==
    ASSUME LinksTyped, CountTyped, socket \in BOOLEAN, NEW request \in Requests, Send(request)
    PROVE  /\ downlink' \in Seq(Requests) /\ Len(downlink') <= MaxInFlight
           /\ lost' \in BOOLEAN
           /\ lost => lost'
<1>1. <<request>> \in Seq(Requests) BY IsASeq
<1>2. QED BY <1>1, WireTyped DEF Send, LinksTyped, CountTyped, Fits

(* What publish() does: the value is there, and every reader will come to it;
   or something was lost.                                                     *)
Published(s, v) ==
    /\ store' = [store EXCEPT ![s] = v] /\ lost' = lost /\ inputs' = inputs
    /\ \A r \in Signals \ {s} : streams'[r] = streams[r]
    /\ streams'[s].on = streams[s].on
    /\ streams[s].on => streams'[s].queue # <<>> /\ LastOf(streams'[s].queue) = v
    /\ ~streams[s].on => streams'[s] = streams[s]

LEMMA PublishSteps ==
    ASSUME StoreTyped, StreamsTyped, CountTyped, NEW s \in Signals, NEW v \in Payloads,
           PublishSignal(s, v)
    PROVE  /\ StoreTyped' /\ StreamsTyped' /\ CountTyped'
           /\ Published(s, v) \/ (lost' /\ UNCHANGED <<store, streams>>)
<1>1. CASE Fault /\ UNCHANGED <<store, streams>>
  <2>1. inputs' \in 0..MaxInputs /\ lost' = TRUE BY <1>1, InputTyped DEF Fault
  <2>2. QED BY <1>1, <2>1 DEF StoreTyped, StreamsTyped, CountTyped
<1>2. ASSUME store' = [store EXCEPT ![s] = v], UNCHANGED <<lost, inputs>>,
             NEW q \in Buffered(streams[s], v), streams' = [streams EXCEPT ![s] = q]
      PROVE  StoreTyped' /\ StreamsTyped' /\ CountTyped' /\ Published(s, v)
  <2> DEFINE old == streams[s].queue
  <2>1. streams[s] \in [on : BOOLEAN, queue : Seq(Payloads)] /\ old \in Seq(Payloads)
    BY DEF StreamsTyped
  <2>2. /\ Append(old, v) \in Seq(Payloads) /\ Len(Append(old, v)) = Len(old) + 1
        /\ Append(old, v)[Len(old) + 1] = v /\ Len(old) \in Nat
    BY <2>1, AppendProperties, LenProperties
  <2>3. /\ <<v>> \in Seq(Payloads) /\ LastOf(<<v>>) = v /\ <<v>> # <<>>
    BY IsASeq DEF LastOf
  <2>4. Append(old, v) # <<>> /\ LastOf(Append(old, v)) = v
    BY <2>2 DEF LastOf
  <2>5. \/ streams[s].on /\ q.on = streams[s].on /\ q.queue \in {Append(old, v), <<v>>}
           /\ q \in [on : BOOLEAN, queue : Seq(Payloads)]
        \/ ~streams[s].on /\ q = streams[s]
    <3>1. CASE streams[s].on
      <4>1. q \in {[streams[s] EXCEPT !.queue = Append(@, v)],
                   [streams[s] EXCEPT !.queue = <<v>>]}
        BY <1>2, <3>1 DEF Buffered
      <4>2. QED BY <2>1, <2>2, <2>3, <3>1, <4>1
    <3>2. CASE ~streams[s].on BY <1>2, <3>2 DEF Buffered
    <3>3. QED BY <3>1, <3>2
  <2>6. q \in [on : BOOLEAN, queue : Seq(Payloads)] BY <2>1, <2>5
  <2>7. streams'[s] = q /\ \A r \in Signals \ {s} : streams'[r] = streams[r]
    BY <1>2 DEF StreamsTyped
  <2>8. StoreTyped' BY <1>2 DEF StoreTyped, Values
  <2>9. StreamsTyped' BY <1>2, <2>6 DEF StreamsTyped
  <2>10. CountTyped' BY <1>2 DEF CountTyped
  <2>11. Published(s, v) BY <1>2, <2>3, <2>4, <2>5, <2>7 DEF Published
  <2>12. QED BY <2>8, <2>9, <2>10, <2>11
<1>3. QED BY <1>1, <1>2 DEF PublishSignal

-----------------------------------------------------------------------------
(* The types of the gateway's variables and main's. *)

HeldTyped ==
    held \in [Publishers -> [step : {"idle", "get", "publish"}, locked : Payloads]]
AppTyped == app \in Values
FlagsTyped == connected \in BOOLEAN /\ vin \in Vins /\ overtaken \in BOOLEAN
CommandsTyped == commands \in Seq(LockStates)
MainTyped ==
    main \in [pc : {"connect", "bridge", "cli", "ask", "wait", "gateway",
                    "subscribe", "publish", "running", "stopCli",
                    "stopGateway", "stopSomeIp", "disconnect", "ended"},
              attempts : 0..MaxAttempts]
CliTyped ==
    /\ cli \in {"off", "idle", "wait", "update", "other", "ended"}
    /\ handlers \in {"none", "bridge", "cli"}
ResponseTyped == response \in Messages \cup {NoResponse}

LEMMA GatewayTypes ==
    GatewayTypeOK <=> HeldTyped /\ AppTyped /\ FlagsTyped /\ CommandsTyped
  BY DEF GatewayTypeOK, HeldTyped, AppTyped, FlagsTyped, CommandsTyped

LEMMA Types ==
    TypeOK <=> /\ StoreTyped /\ StreamsTyped /\ CountTyped /\ LinksTyped /\ RestTyped
               /\ HeldTyped /\ AppTyped /\ FlagsTyped /\ CommandsTyped
               /\ MainTyped /\ CliTyped /\ ResponseTyped
  BY BridgeTypes, GatewayTypes DEF TypeOK, MainTyped, CliTyped, ResponseTyped

LEMMA TypesNext ==
    /\ StoreTyped' /\ StreamsTyped' /\ CountTyped' /\ LinksTyped' /\ RestTyped'
    /\ HeldTyped' /\ AppTyped' /\ FlagsTyped' /\ CommandsTyped'
    /\ MainTyped' /\ CliTyped' /\ ResponseTyped'
    => TypeOK'
<1>1. (TypeOK <=> /\ StoreTyped /\ StreamsTyped /\ CountTyped /\ LinksTyped /\ RestTyped
                  /\ HeldTyped /\ AppTyped /\ FlagsTyped /\ CommandsTyped
                  /\ MainTyped /\ CliTyped /\ ResponseTyped)'
  BY Types, PTL
<1>2. QED BY <1>1

(* A thread's entry is replaced as a whole or in part. *)
LEMMA IdleTyped == Idle \in [step : {"idle", "get", "publish"}, locked : Payloads]
  BY DEF Idle, LockStates, Payloads

LEMMA HeldSteps ==
    ASSUME HeldTyped, NEW p \in Publishers, NEW r \in [step : {"idle", "get", "publish"},
                                                       locked : Payloads],
           held' = [held EXCEPT ![p] = r]
    PROVE  HeldTyped' /\ held'[p] = r /\ \A q \in Publishers \ {p} : held'[q] = held[q]
  BY DEF HeldTyped

(* updateVin(): nothing, or the current state is to follow. *)
LEMMA UpdateSteps ==
    ASSUME HeldTyped, NEW p \in Publishers, NEW v, updateVin(p, v)
    PROVE  /\ HeldTyped' /\ \A q \in Publishers \ {p} : held'[q] = held[q]
           /\ held' = held \/ (connected /\ held'[p].step = "get")
<1>1. [held[p] EXCEPT !.step = "get"] \in [step : {"idle", "get", "publish"},
                                            locked : Payloads]
  BY DEF HeldTyped
<1>2. held' = held \/ (connected /\ held' = [held EXCEPT ![p] = [held[p] EXCEPT !.step = "get"]])
  BY DEF updateVin
<1>3. [held[p] EXCEPT !.step = "get"].step = "get" BY DEF HeldTyped
<1>4. QED BY <1>1, <1>2, <1>3, HeldSteps DEF HeldTyped

LEMMA DoneSteps ==
    ASSUME HeldTyped, NEW p \in Publishers, Done(p)
    PROVE  HeldTyped' /\ held'[p] = Idle /\ \A q \in Publishers \ {p} : held'[q] = held[q]
  BY IdleTyped DEF HeldTyped, Done

LEMMA ToAppTyped ==
    ASSUME AppTyped, CountTyped, NEW m \in Values, ToApp(m)
    PROVE  /\ AppTyped' /\ CountTyped'
           /\ (app' = m /\ lost' = lost) \/ (app' = app /\ lost' = TRUE)
  BY InputTyped DEF AppTyped, CountTyped, ToApp, Fault

LEMMA MainSteps ==
    ASSUME MainTyped,
           NEW pc \in {"connect", "bridge", "cli", "ask", "wait", "gateway",
                       "subscribe", "publish", "running", "stopCli",
                       "stopGateway", "stopSomeIp", "disconnect", "ended"},
           Main(pc)
    PROVE  MainTyped' /\ main'.pc = pc /\ main'.attempts = main.attempts
  BY DEF MainTyped, Main

-----------------------------------------------------------------------------
(* Steps that leave alone what the invariants speak of. *)

(* How far a step that only moves the threads along may move them. *)
MovesOn ==
    /\ main'.pc \in {"connect", "bridge"} => main.pc \in {"connect", "bridge"}
    /\ main'.pc \in BeforeInfo => main.pc \in BeforeInfo
    /\ main'.pc \in BeforeCli => main.pc \in BeforeCli /\ cli' = "off"
    /\ held["cli"].step # "idle" => cli' = "update"
    /\ mutex' = mutex

LEMMA EventStays ==
    ASSUME EventInv, UNCHANGED <<uplink, reported>>, store'["locked"] = store["locked"],
           ~lost' => ~lost
    PROVE  EventInv'
  BY DEF EventInv

LEMMA QueuesStay ==
    ASSUME QueuesInv, UNCHANGED <<streams, store>>, ~lost' => ~lost
    PROVE  QueuesInv'
  BY DEF QueuesInv, NewestLast

LEMMA CommandStays ==
    ASSUME CommandInv, streams'["command"] = streams["command"],
           store'["command"] = store["command"], UNCHANGED requested, ~lost' => ~lost,
           main'.pc \in {"connect", "bridge"} => main.pc \in {"connect", "bridge"}
    PROVE  CommandInv'
  BY DEF CommandInv

LEMMA SeenStays ==
    ASSUME SeenInv, UNCHANGED held, app' \in {app, None},
           store["locked"] # None => store'["locked"] # None
    PROVE  SeenInv'
  BY DEF SeenInv, Pending

LEMMA LockStays ==
    ASSUME LockInv, UNCHANGED held, connected' => connected, ~lost' => ~lost,
           ~overtaken' => ~overtaken, app' = app,
           store'["locked"] = store["locked"], streams'["locked"] = streams["locked"]
    PROVE  LockInv'
  BY DEF LockInv, Pending

LEMMA QuietButEvents ==
    ASSUME Relations, MovesOn, EventInv', ~lost' => ~lost,
           UNCHANGED <<store, streams, requested, connected, vin, held, app, overtaken>>
    PROVE  Relations'
<1>1. QueuesInv' BY QueuesStay DEF Relations
<1>2. CommandInv' BY CommandStays DEF Relations, MovesOn
<1>3. StepsInv' BY DEF Relations, MovesOn, StepsInv
<1>4. SeenInv' BY SeenStays DEF Relations
<1>5. LockInv' BY LockStays DEF Relations
<1>6. QED BY <1>1, <1>2, <1>3, <1>4, <1>5 DEF Relations

LEMMA QuietStep ==
    ASSUME Relations, MovesOn, ~lost' => ~lost,
           UNCHANGED <<store, streams, uplink, reported, requested,
                       connected, vin, held, app, overtaken>>
    PROVE  Relations'
<1>1. EventInv' BY EventStays DEF Relations
<1>2. QED BY <1>1, QuietButEvents

LEMMA TypesKept ==
    ASSUME TypeOK
    PROVE  /\ UNCHANGED store => StoreTyped'
           /\ UNCHANGED streams => StreamsTyped'
           /\ UNCHANGED <<lost, inputs>> => CountTyped'
           /\ UNCHANGED <<uplink, downlink>> => LinksTyped'
           /\ UNCHANGED <<mutex, socket, mcu, reported, requested>> => RestTyped'
           /\ UNCHANGED held => HeldTyped'
           /\ UNCHANGED app => AppTyped'
           /\ UNCHANGED <<connected, vin, overtaken>> => FlagsTyped'
           /\ UNCHANGED commands => CommandsTyped'
           /\ UNCHANGED main => MainTyped'
           /\ UNCHANGED <<cli, handlers>> => CliTyped'
           /\ UNCHANGED response => ResponseTyped'
  BY Types DEF StoreTyped, StreamsTyped, CountTyped, LinksTyped, RestTyped, HeldTyped,
               AppTyped, FlagsTyped, CommandsTyped, MainTyped, CliTyped, ResponseTyped

LEMMA SendRequestSteps ==
    ASSUME TypeOK, NEW method \in Methods, SendRequest(method)
    PROVE  /\ ResponseTyped' /\ LinksTyped' /\ RestTyped' /\ StoreTyped' /\ StreamsTyped'
           /\ lost' \in BOOLEAN /\ (~lost' => ~lost)
<1>1. [method |-> method, value |-> "unlocked", live |-> TRUE] \in Requests
  BY DEF Requests, Payloads, LockStates
<1>2. /\ downlink' \in Seq(Requests) /\ Len(downlink') <= MaxInFlight
      /\ lost' \in BOOLEAN /\ (lost => lost')
  BY <1>1, SendTyped, Types DEF SendRequest, RestTyped
<1>3. QED BY <1>2, Types, TypesKept DEF SendRequest, LinksTyped, RestTyped, ResponseTyped

-----------------------------------------------------------------------------
(* The threads move along. *)

LEMMA ConnectStep == MpuInv /\ Connect => MpuInv'
<1> SUFFICES ASSUME MpuInv, Connect PROVE MpuInv'
  OBVIOUS
<1> USE DEF MpuInv, Connect, gatewayVars
<1>1. MainTyped' /\ main'.pc = "bridge" /\ main'.attempts = main.attempts
  BY Types, MainSteps
<1>2. TypeOK'
  BY <1>1, Types, TypesKept, TypesNext DEF RestTyped
<1>3. AttemptsInv' BY <1>1 DEF AttemptsInv
<1>4. MovesOn
  BY <1>1 DEF MovesOn, BeforeCli, BeforeInfo, StepsInv, Relations
<1>5. Relations' BY <1>4, QuietStep
<1>6. QED BY <1>2, <1>3, <1>5

LEMMA InitCliStep == MpuInv /\ InitCli => MpuInv'
<1> SUFFICES ASSUME MpuInv, InitCli PROVE MpuInv'
  OBVIOUS
<1> USE DEF MpuInv, InitCli, bridgeVars, gatewayVars
<1>1. MainTyped' /\ main'.pc = "ask" /\ main'.attempts = main.attempts
  BY Types, MainSteps
<1>2. TypeOK'
  BY <1>1, Types, TypesKept, TypesNext DEF CliTyped
<1>3. AttemptsInv' BY <1>1, MpuAssumption DEF AttemptsInv
<1>4. MovesOn
  BY <1>1 DEF MovesOn, BeforeCli, BeforeInfo, StepsInv, Relations
<1>5. Relations' BY <1>4, QuietStep
<1>6. QED BY <1>2, <1>3, <1>5

LEMMA AskStep == MpuInv /\ Ask => MpuInv'
<1> SUFFICES ASSUME MpuInv, Ask PROVE MpuInv'
  OBVIOUS
<1> USE DEF MpuInv, Ask, gatewayVars
<1>1. /\ ResponseTyped' /\ LinksTyped' /\ RestTyped' /\ StoreTyped' /\ StreamsTyped'
      /\ lost' \in BOOLEAN /\ (~lost' => ~lost)
  BY SendRequestSteps DEF Methods
<1>2. main' = [pc |-> "wait", attempts |-> main.attempts + 1]
  OBVIOUS
<1>3. MainTyped'
  BY <1>2, Types, MpuAssumption DEF MainTyped, AttemptsInv
<1>4. TypeOK'
  BY <1>1, <1>3, Types, TypesKept, TypesNext DEF CountTyped
<1>5. AttemptsInv' BY <1>2 DEF AttemptsInv
<1>6. MovesOn
  BY <1>2 DEF MovesOn, SendRequest, BeforeCli, BeforeInfo, StepsInv, Relations
<1>7. Relations' BY <1>1, <1>6, QuietStep DEF SendRequest
<1>8. QED BY <1>4, <1>5, <1>7

LEMMA StartCliStep == MpuInv /\ StartCli => MpuInv'
<1> SUFFICES ASSUME MpuInv, StartCli PROVE MpuInv'
  OBVIOUS
<1> USE DEF MpuInv, StartCli, bridgeVars, gatewayVars
<1>1. MainTyped' /\ main'.pc = "running" /\ main'.attempts = main.attempts
  BY Types, MainSteps
<1>2. TypeOK'
  BY <1>1, Types, TypesKept, TypesNext DEF CliTyped
<1>3. AttemptsInv' BY <1>1 DEF AttemptsInv
<1>4. MovesOn
  BY <1>1 DEF MovesOn, BeforeCli, BeforeInfo, StepsInv, Relations
<1>5. Relations' BY <1>4, QuietStep
<1>6. QED BY <1>2, <1>3, <1>5

LEMMA StatusStep == MpuInv /\ Status => MpuInv'
<1> SUFFICES ASSUME MpuInv, Status PROVE MpuInv'
  OBVIOUS
<1> USE DEF MpuInv, Status, gatewayVars
<1>1. /\ ResponseTyped' /\ LinksTyped' /\ RestTyped' /\ StoreTyped' /\ StreamsTyped'
      /\ lost' \in BOOLEAN /\ (~lost' => ~lost)
  BY SendRequestSteps DEF Methods
<1>2. CountTyped' BY <1>1, Types, InputTyped DEF CountTyped
<1>3. TypeOK'
  BY <1>1, <1>2, Types, TypesKept, TypesNext DEF CliTyped
<1>4. AttemptsInv' BY DEF AttemptsInv
<1>5. MovesOn
  BY DEF MovesOn, SendRequest, BeforeCli, BeforeInfo, StepsInv, Relations, Idle
<1>6. Relations' BY <1>1, <1>5, QuietStep DEF SendRequest
<1>7. QED BY <1>3, <1>4, <1>6

LEMMA StatusRestStep == MpuInv /\ StatusRest => MpuInv'
<1> SUFFICES ASSUME MpuInv, StatusRest PROVE MpuInv'
  OBVIOUS
<1> USE DEF MpuInv, StatusRest, gatewayVars
<1>1. /\ ResponseTyped' /\ LinksTyped' /\ RestTyped' /\ StoreTyped' /\ StreamsTyped'
      /\ lost' \in BOOLEAN /\ (~lost' => ~lost)
  BY SendRequestSteps DEF Methods
<1>2. CountTyped' BY <1>1, Types DEF CountTyped
<1>3. TypeOK'
  BY <1>1, <1>2, Types, TypesKept, TypesNext DEF CliTyped
<1>4. AttemptsInv' BY DEF AttemptsInv
<1>5. MovesOn
  BY DEF MovesOn, SendRequest, BeforeCli, BeforeInfo, StepsInv, Relations, Idle
<1>6. Relations' BY <1>1, <1>5, QuietStep DEF SendRequest
<1>7. QED BY <1>3, <1>4, <1>6

LEMMA CommandStep == MpuInv /\ Command => MpuInv'
<1> SUFFICES ASSUME MpuInv, Command PROVE MpuInv'
  OBVIOUS
<1> USE DEF MpuInv, Command, gatewayVars
<1>1. /\ ResponseTyped' /\ LinksTyped' /\ RestTyped' /\ StoreTyped' /\ StreamsTyped'
      /\ lost' \in BOOLEAN /\ (~lost' => ~lost)
  BY SendRequestSteps DEF Methods
<1>2. CountTyped' BY <1>1, Types, InputTyped DEF CountTyped
<1>3. TypeOK'
  BY <1>1, <1>2, Types, TypesKept, TypesNext DEF CliTyped
<1>4. AttemptsInv' BY DEF AttemptsInv
<1>5. MovesOn
  BY DEF MovesOn, SendRequest, BeforeCli, BeforeInfo, StepsInv, Relations, Idle
<1>6. Relations' BY <1>1, <1>5, QuietStep DEF SendRequest
<1>7. QED BY <1>3, <1>4, <1>6

LEMMA CommandDoneStep == MpuInv /\ CommandDone => MpuInv'
<1> SUFFICES ASSUME MpuInv, CommandDone PROVE MpuInv'
  OBVIOUS
<1> USE DEF MpuInv, CommandDone, bridgeVars, gatewayVars
<1>1. TypeOK'
  BY Types, TypesKept, TypesNext DEF CliTyped
<1>2. AttemptsInv' BY DEF AttemptsInv
<1>3. MovesOn
  BY DEF MovesOn, BeforeCli, BeforeInfo, StepsInv, Relations
<1>4. Relations' BY <1>3, QuietStep
<1>5. QED BY <1>1, <1>2, <1>4

LEMMA EndOfInputStep == MpuInv /\ EndOfInput => MpuInv'
<1> SUFFICES ASSUME MpuInv, EndOfInput PROVE MpuInv'
  OBVIOUS
<1> USE DEF MpuInv, EndOfInput, gatewayVars
<1>1. TypeOK'
  BY Types, TypesKept, TypesNext, InputTyped DEF CliTyped, CountTyped
<1>2. AttemptsInv' BY DEF AttemptsInv
<1>3. MovesOn
  BY DEF MovesOn, BeforeCli, BeforeInfo, StepsInv, Relations
<1>4. Relations' BY <1>3, QuietStep
<1>5. QED BY <1>1, <1>2, <1>4

LEMMA StopSignalStep == MpuInv /\ StopSignal => MpuInv'
<1> SUFFICES ASSUME MpuInv, StopSignal PROVE MpuInv'
  OBVIOUS
<1> USE DEF MpuInv, StopSignal, gatewayVars
<1>1. MainTyped' /\ main'.pc = "stopCli" /\ main'.attempts = main.attempts
  BY Types, MainSteps
<1>2. TypeOK'
  BY <1>1, Types, TypesKept, TypesNext, InputTyped DEF CountTyped
<1>3. AttemptsInv' BY <1>1 DEF AttemptsInv
<1>4. MovesOn
  BY <1>1 DEF MovesOn, BeforeCli, BeforeInfo, StepsInv, Relations
<1>5. Relations' BY <1>4, QuietStep
<1>6. QED BY <1>2, <1>3, <1>5

LEMMA CliEndedStep == MpuInv /\ CliEnded => MpuInv'
<1> SUFFICES ASSUME MpuInv, CliEnded PROVE MpuInv'
  OBVIOUS
<1> USE DEF MpuInv, CliEnded, bridgeVars, gatewayVars
<1>1. MainTyped' /\ main'.pc = "stopCli" /\ main'.attempts = main.attempts
  BY Types, MainSteps
<1>2. TypeOK'
  BY <1>1, Types, TypesKept, TypesNext
<1>3. AttemptsInv' BY <1>1 DEF AttemptsInv
<1>4. MovesOn
  BY <1>1 DEF MovesOn, BeforeCli, BeforeInfo, StepsInv, Relations
<1>5. Relations' BY <1>4, QuietStep
<1>6. QED BY <1>2, <1>3, <1>5

LEMMA StopCliStep == MpuInv /\ StopCli => MpuInv'
<1> SUFFICES ASSUME MpuInv, StopCli PROVE MpuInv'
  OBVIOUS
<1> USE DEF MpuInv, StopCli, bridgeVars, gatewayVars
<1>1. MainTyped' /\ main'.pc = "stopGateway" /\ main'.attempts = main.attempts
  BY Types, MainSteps
<1>2. TypeOK'
  BY <1>1, Types, TypesKept, TypesNext
<1>3. AttemptsInv' BY <1>1 DEF AttemptsInv
<1>4. MovesOn
  BY <1>1 DEF MovesOn, BeforeCli, BeforeInfo, StepsInv, Relations
<1>5. Relations' BY <1>4, QuietStep
<1>6. QED BY <1>2, <1>3, <1>5

LEMMA McuRestartsStep == MpuInv /\ McuRestarts /\ UNCHANGED <<gatewayVars, mainVars>> => MpuInv'
<1> SUFFICES ASSUME MpuInv, McuRestarts, UNCHANGED <<gatewayVars, mainVars>> PROVE MpuInv'
  OBVIOUS
<1> USE DEF MpuInv, McuRestarts, gatewayVars, mainVars
<1>1. TypeOK'
  BY Types, TypesKept, TypesNext, InputTyped DEF CountTyped, RestTyped, LockStates
<1>2. AttemptsInv' BY DEF AttemptsInv
<1>3. MovesOn
  BY DEF MovesOn, BeforeCli, StepsInv, Relations
<1>4. Relations' BY <1>3, QuietStep
<1>5. QED BY <1>1, <1>2, <1>4

LEMMA AppCommandStep ==
    \A v \in LockStates : MpuInv /\ AppCommand(v) /\ UNCHANGED mainVars => MpuInv'
<1> SUFFICES ASSUME NEW v \in LockStates, MpuInv, AppCommand(v), UNCHANGED mainVars
             PROVE  MpuInv'
  OBVIOUS
<1> USE DEF MpuInv, AppCommand, mainVars
<1>1. CommandsTyped' BY Types, AppendProperties DEF CommandsTyped
<1>2. TypeOK'
  BY <1>1, Types, TypesKept, TypesNext, InputTyped DEF CountTyped
<1>3. AttemptsInv' BY DEF AttemptsInv
<1>4. MovesOn
  BY DEF MovesOn, BeforeCli, StepsInv, Relations
<1>5. Relations' BY <1>4, QuietStep
<1>6. QED BY <1>2, <1>3, <1>5

-----------------------------------------------------------------------------
(* The wire and the body ECU. *)

LEMMA NewestAfterTail ==
    ASSUME NEW link \in Seq(Messages), link # <<>>, NEW last, NEW known,
           NewestEvent(link, last, known)
    PROVE  NewestEvent(Tail(link), last,
                       IF IsEvent(Head(link)) THEN Head(link).value ELSE known)
<1>1. /\ Len(Tail(link)) = Len(link) - 1 /\ Len(link) \in Nat /\ Len(link) > 0
      /\ Head(link) = link[1]
      /\ \A i \in 1..Len(Tail(link)) : Tail(link)[i] = link[i + 1]
  BY TailTyped
<1>2. \A i \in 2..Len(link) : link[i] = Tail(link)[i - 1] /\ i - 1 \in 1..Len(Tail(link))
  BY <1>1
<1>3. ASSUME NEW i \in 1..Len(Tail(link)), IsEvent(Tail(link)[i]),
             \A j \in i + 1..Len(Tail(link)) : ~IsEvent(Tail(link)[j])
      PROVE  Tail(link)[i].value = last
  <2>1. i + 1 \in 1..Len(link) /\ IsEvent(link[i + 1]) BY <1>1, <1>3
  <2>2. ASSUME NEW j \in (i + 1) + 1..Len(link) PROVE ~IsEvent(link[j])
    <3>1. j \in 2..Len(link) /\ j - 1 \in i + 1..Len(Tail(link)) BY <1>1
    <3>2. QED BY <1>2, <1>3, <3>1
  <2>3. link[i + 1].value = last BY <2>1, <2>2 DEF NewestEvent
  <2>4. QED BY <1>1, <2>3
<1>4. ASSUME \A i \in 1..Len(Tail(link)) : ~IsEvent(Tail(link)[i]), last # None
      PROVE  (IF IsEvent(Head(link)) THEN Head(link).value ELSE known) = last
  <2>1. \A i \in 2..Len(link) : ~IsEvent(link[i]) BY <1>2, <1>4
  <2>2. 1 \in 1..Len(link) /\ \A j \in 1 + 1..Len(link) : j \in 2..Len(link) BY <1>1
  <2>3. CASE IsEvent(Head(link))
    BY <1>1, <2>1, <2>2, <2>3 DEF NewestEvent
  <2>4. CASE ~IsEvent(Head(link))
    <3>1. \A i \in 1..Len(link) : i = 1 \/ i \in 2..Len(link) BY <1>1
    <3>2. QED BY <1>1, <1>4, <2>1, <2>4, <3>1 DEF NewestEvent
  <2>5. QED BY <2>3, <2>4
<1>5. QED BY <1>3, <1>4 DEF NewestEvent

(* What the ECU appends has an event at its end, or none. *)
LEMMA NewestAfterAppend ==
    ASSUME NEW link \in Seq(Messages), NEW ms \in Seq(Messages), NEW last, NEW known,
           NewestEvent(link, last, known), NEW last2,
           \/ last2 = last /\ \A i \in 1..Len(ms) : ~IsEvent(ms[i])
           \/ Len(ms) > 0 /\ IsEvent(ms[Len(ms)]) /\ ms[Len(ms)].value = last2
    PROVE  NewestEvent(link \o ms, last2, known)
<1> DEFINE all == link \o ms
<1>1. /\ Len(all) = Len(link) + Len(ms) /\ Len(link) \in Nat /\ Len(ms) \in Nat
      /\ \A i \in 1..Len(link) : all[i] = link[i]
      /\ \A i \in 1..Len(ms) : all[Len(link) + i] = ms[i]
  BY ConcatProperties, LenProperties
<1>2. CASE last2 = last /\ \A i \in 1..Len(ms) : ~IsEvent(ms[i])
  <2>1. ASSUME NEW i \in 1..Len(all), i \notin 1..Len(link) PROVE ~IsEvent(all[i])
    <3>1. i - Len(link) \in 1..Len(ms) /\ Len(link) + (i - Len(link)) = i BY <1>1, <2>1
    <3>2. all[i] = ms[i - Len(link)] BY <1>1, <3>1
    <3>3. QED BY <1>2, <3>1, <3>2
  <2>2. ASSUME NEW i \in 1..Len(all), IsEvent(all[i]),
               \A j \in i + 1..Len(all) : ~IsEvent(all[j])
        PROVE  all[i].value = last
    <3>1. i \in 1..Len(link) /\ IsEvent(link[i]) BY <1>1, <2>1, <2>2
    <3>2. \A j \in i + 1..Len(link) : j \in i + 1..Len(all) /\ j \in 1..Len(link)
      BY <1>1, <3>1
    <3>3. \A j \in i + 1..Len(link) : ~IsEvent(link[j]) BY <1>1, <2>2, <3>2
    <3>4. QED BY <1>1, <3>1, <3>3 DEF NewestEvent
  <2>3. ASSUME \A i \in 1..Len(all) : ~IsEvent(all[i]), last # None PROVE known = last
    <3>1. \A i \in 1..Len(link) : i \in 1..Len(all) BY <1>1
    <3>2. \A i \in 1..Len(link) : ~IsEvent(link[i]) BY <1>1, <2>3, <3>1
    <3>3. QED BY <2>3, <3>2 DEF NewestEvent
  <2>4. QED BY <1>2, <2>2, <2>3 DEF NewestEvent
<1>3. CASE Len(ms) > 0 /\ IsEvent(ms[Len(ms)]) /\ ms[Len(ms)].value = last2
  <2>1. /\ Len(all) \in 1..Len(all) /\ IsEvent(all[Len(all)])
        /\ all[Len(all)].value = last2
    <3>1. Len(ms) \in 1..Len(ms) BY <1>1, <1>3
    <3>2. all[Len(all)] = ms[Len(ms)] BY <1>1, <3>1
    <3>3. QED BY <1>1, <1>3, <3>2
  <2>2. \A i \in 1..Len(all) : i = Len(all) \/ Len(all) \in i + 1..Len(all) BY <1>1
  <2>3. QED BY <2>1, <2>2 DEF NewestEvent
<1>4. QED BY <1>2, <1>3

LEMMA WireAppend ==
    ASSUME LinksTyped, NEW ms \in Seq(Messages), EventInv,
           uplink' = Wire(uplink, ms), lost' = (lost \/ ~Fits(uplink, ms)),
           store'["locked"] = store["locked"],
           \/ reported' = reported /\ \A i \in 1..Len(ms) : ~IsEvent(ms[i])
           \/ Len(ms) > 0 /\ IsEvent(ms[Len(ms)]) /\ ms[Len(ms)].value = reported'
    PROVE  EventInv' /\ uplink' \in Seq(Messages) /\ Len(uplink') <= MaxInFlight
<1>1. uplink' \in Seq(Messages) /\ Len(uplink') <= MaxInFlight
  BY WireTyped DEF LinksTyped
<1>2. ASSUME ~lost' PROVE NewestEvent(uplink', reported', store'["locked"])
  <2>1. uplink' = uplink \o ms /\ ~lost BY <1>2 DEF Wire
  <2>2. NewestEvent(uplink, reported, store["locked"]) BY <2>1 DEF EventInv
  <2>3. NewestEvent(uplink \o ms, reported', store["locked"])
    BY <2>2, NewestAfterAppend DEF LinksTyped
  <2>4. QED BY <2>1, <2>3
<1>3. QED BY <1>1, <1>2 DEF EventInv

LEMMA LoseDatagramStep ==
    MpuInv /\ LoseDatagram /\ UNCHANGED <<gatewayVars, mainVars>> => MpuInv'
<1> SUFFICES ASSUME MpuInv, LoseDatagram, UNCHANGED <<gatewayVars, mainVars>> PROVE MpuInv'
  OBVIOUS
<1> USE DEF MpuInv, LoseDatagram, Fault, gatewayVars, mainVars
<1>1. CountTyped' BY Types, InputTyped DEF CountTyped
<1>2. LinksTyped'
  <2>1. uplink \in Seq(Messages) /\ Len(uplink) <= MaxInFlight
        /\ downlink \in Seq(Requests) /\ Len(downlink) <= MaxInFlight
    BY Types DEF LinksTyped
  <2>2. uplink # <<>> => Tail(uplink) \in Seq(Messages) /\ Len(Tail(uplink)) <= MaxInFlight
    BY <2>1, TailTyped, Bounds
  <2>3. downlink # <<>> => Tail(downlink) \in Seq(Requests)
                           /\ Len(Tail(downlink)) <= MaxInFlight
    BY <2>1, TailTyped, Bounds
  <2>4. QED BY <2>1, <2>2, <2>3 DEF LinksTyped
<1>3. TypeOK' BY <1>1, <1>2, Types, TypesKept, TypesNext
<1>4. AttemptsInv' BY DEF AttemptsInv
<1>5. MovesOn BY DEF MovesOn, BeforeCli, StepsInv, Relations
<1>6. EventInv' BY DEF EventInv
<1>7. Relations' BY <1>5, <1>6, QuietButEvents
<1>8. QED BY <1>3, <1>4, <1>7

(* The replies: none, a response, an event, or both in this order. *)
LEMMA RepliesTyped ==
    ASSUME TypeOK, NEW request \in Requests, NEW o \in Outcomes(request)
    PROVE  LET ms == Replies(request, o)
               moved == o.to # mcu.locked /\ (mcu.known \/ request.live) IN
           /\ ms \in Seq(Messages)
           /\ ~moved => \A i \in 1..Len(ms) : ~IsEvent(ms[i])
           /\ moved => Len(ms) > 0 /\ IsEvent(ms[Len(ms)]) /\ ms[Len(ms)].value = o.to
<1> DEFINE answer == Answer(request, o)
           event == LockEvent(o.to)
           moved == o.to # mcu.locked /\ (mcu.known \/ request.live)
           first == IF request.live THEN <<answer>> ELSE <<>>
           second == IF moved THEN <<event>> ELSE <<>>
<1>1. o \in [value : Payloads, ok : BOOLEAN, to : LockStates] BY DEF Outcomes
<1>2. answer \in Messages /\ ~IsEvent(answer)
  BY <1>1 DEF Answer, Messages, Requests, Methods, IsEvent
<1>3. event \in Messages /\ IsEvent(event) /\ event.value = o.to
  BY <1>1, SomePayload DEF LockEvent, Messages, Signals, IsEvent
<1>4. /\ first \in Seq(Messages) /\ Len(first) \in {0, 1}
      /\ \A i \in 1..Len(first) : first[i] = answer
  <2>1. <<answer>> \in Seq(Messages) /\ Len(<<answer>>) = 1 /\ <<answer>>[1] = answer
    BY <1>2, IsASeq
  <2>2. <<>> \in Seq(Messages) /\ Len(<<>>) = 0 BY EmptySeq
  <2>3. CASE request.live
    <3>1. first = <<answer>> BY <2>3
    <3>2. QED BY <2>1, <3>1
  <2>4. CASE ~request.live
    <3>1. first = <<>> BY <2>4
    <3>2. QED BY <2>2, <3>1
  <2>5. QED BY <2>3, <2>4
<1>5. /\ second \in Seq(Messages)
      /\ moved => Len(second) = 1 /\ second[1] = event
      /\ ~moved => Len(second) = 0
  <2>1. <<event>> \in Seq(Messages) /\ Len(<<event>>) = 1 /\ <<event>>[1] = event
    BY <1>3, IsASeq
  <2>2. <<>> \in Seq(Messages) /\ Len(<<>>) = 0 BY EmptySeq
  <2>3. CASE moved
    <3>1. second = <<event>> BY <2>3
    <3>2. QED BY <2>1, <2>3, <3>1
  <2>4. CASE ~moved
    <3>1. second = <<>> BY <2>4
    <3>2. QED BY <2>2, <2>4, <3>1
  <2>5. QED BY <2>3, <2>4
<1>6. Replies(request, o) = first \o second BY DEF Replies
<1> HIDE DEF first, second, answer, event, moved
<1>7. /\ first \o second \in Seq(Messages)
      /\ Len(first \o second) = Len(first) + Len(second)
      /\ \A i \in 1..Len(first) : (first \o second)[i] = first[i]
      /\ \A i \in 1..Len(second) : (first \o second)[Len(first) + i] = second[i]
  BY <1>4, <1>5, ConcatProperties
<1>8. ~moved => \A i \in 1..Len(first \o second) : ~IsEvent((first \o second)[i])
  BY <1>2, <1>4, <1>5, <1>7
<1>9. moved => /\ Len(first \o second) > 0
               /\ IsEvent((first \o second)[Len(first \o second)])
               /\ (first \o second)[Len(first \o second)].value = o.to
  <2>1. ASSUME moved PROVE (first \o second)[Len(first \o second)] = event
    <3>1. Len(second) = 1 /\ second[1] = event BY <1>5, <2>1
    <3>2. 1 \in 1..Len(second) BY <3>1
    <3>3. (first \o second)[Len(first) + 1] = event BY <1>7, <3>1, <3>2
    <3>4. QED BY <1>7, <3>1, <3>3
  <2>2. QED BY <2>1, <1>3, <1>4, <1>5, <1>7
<1>10. QED BY <1>6, <1>7, <1>8, <1>9 DEF moved

LEMMA McuHandlesStep ==
    MpuInv /\ McuHandles /\ UNCHANGED <<gatewayVars, mainVars>> => MpuInv'
<1> SUFFICES ASSUME MpuInv, McuHandles, UNCHANGED <<gatewayVars, mainVars>> PROVE MpuInv'
  OBVIOUS
<1> USE DEF MpuInv, gatewayVars, mainVars
<1> DEFINE request == Head(downlink)
<1>1. /\ request \in Requests /\ Tail(downlink) \in Seq(Requests)
      /\ Len(Tail(downlink)) <= MaxInFlight
  BY Types, TailTyped, Bounds DEF McuHandles, LinksTyped
<1>2. PICK o \in Outcomes(request) :
         /\ mcu' = [mcu EXCEPT !.locked = o.to, !.known = @ \/ request.live]
         /\ uplink' = Wire(uplink, Replies(request, o))
         /\ lost' = (lost \/ ~Fits(uplink, Replies(request, o)))
         /\ reported' = IF o.to # mcu.locked /\ mcu'.known THEN o.to ELSE reported
  BY Zenon DEF McuHandles
<1>3. o.to \in LockStates /\ request.live \in BOOLEAN
      /\ lost \in BOOLEAN
      /\ mcu \in [locked : LockStates, known : BOOLEAN, announced : BOOLEAN]
  BY <1>1, Types DEF Outcomes, Requests, CountTyped, RestTyped
<1> DEFINE ms == Replies(request, o)
           moved == o.to # mcu.locked /\ (mcu.known \/ request.live)
<1>4. /\ ms \in Seq(Messages)
      /\ ~moved => \A i \in 1..Len(ms) : ~IsEvent(ms[i])
      /\ moved => Len(ms) > 0 /\ IsEvent(ms[Len(ms)]) /\ ms[Len(ms)].value = o.to
  BY <1>1, RepliesTyped
<1>5. reported' = IF moved THEN o.to ELSE reported BY <1>2, <1>3
<1>6. EventInv' /\ uplink' \in Seq(Messages) /\ Len(uplink') <= MaxInFlight
  <2> HIDE DEF ms, moved
  <2>1. uplink' = Wire(uplink, ms) /\ lost' = (lost \/ ~Fits(uplink, ms)) /\ LinksTyped
        /\ EventInv /\ store'["locked"] = store["locked"]
    BY <1>2, Types DEF ms, Relations, McuHandles
  <2>2. QED BY <1>4, <1>5, <2>1, WireAppend
<1>7. LinksTyped' BY <1>1, <1>6 DEF LinksTyped, McuHandles
<1>8. CountTyped' /\ (~lost' => ~lost)
  BY <1>2, <1>3, Types DEF CountTyped, McuHandles
<1>9. RestTyped'
  BY <1>2, <1>3, Types DEF RestTyped, McuHandles, Payloads, Values
<1>10. TypeOK' BY <1>7, <1>8, <1>9, Types, TypesKept, TypesNext DEF McuHandles
<1>11. AttemptsInv' BY DEF AttemptsInv
<1>12. MovesOn BY DEF MovesOn, BeforeCli, StepsInv, Relations, McuHandles
<1>13. Relations' BY <1>6, <1>8, <1>12, QuietButEvents DEF McuHandles
<1>14. QED BY <1>10, <1>11, <1>13

LEMMA McuChangesStep ==
    MpuInv /\ McuChanges /\ UNCHANGED <<gatewayVars, mainVars>> => MpuInv'
<1> SUFFICES ASSUME MpuInv, McuChanges, UNCHANGED <<gatewayVars, mainVars>> PROVE MpuInv'
  OBVIOUS
<1> USE DEF MpuInv, gatewayVars, mainVars
<1> DEFINE to == Opposite(mcu.locked)
           ms == IF mcu.known THEN <<LockEvent(to)>> ELSE <<>>
<1>1. /\ mcu' = [mcu EXCEPT !.locked = to]
      /\ uplink' = Wire(uplink, ms) /\ lost' = (lost \/ ~Fits(uplink, ms))
      /\ reported' = IF mcu.known THEN to ELSE reported
  BY DEF McuChanges
<1>2. to \in LockStates /\ lost \in BOOLEAN
      /\ mcu \in [locked : LockStates, known : BOOLEAN, announced : BOOLEAN]
  BY Types DEF Opposite, LockStates, CountTyped, RestTyped
<1>3. /\ ms \in Seq(Messages)
      /\ ~mcu.known => \A i \in 1..Len(ms) : ~IsEvent(ms[i])
      /\ mcu.known => Len(ms) > 0 /\ IsEvent(ms[Len(ms)]) /\ ms[Len(ms)].value = to
  <2>1. LockEvent(to) \in Messages /\ IsEvent(LockEvent(to)) /\ LockEvent(to).value = to
    BY <1>2, SomePayload DEF LockEvent, Messages, Signals, IsEvent
  <2>2. CASE mcu.known
    <3>1. ms = <<LockEvent(to)>> BY <2>2
    <3>2. <<LockEvent(to)>> \in Seq(Messages) /\ Len(<<LockEvent(to)>>) = 1
          /\ <<LockEvent(to)>>[1] = LockEvent(to)
      BY <2>1, IsASeq
    <3>3. QED BY <2>1, <2>2, <3>1, <3>2
  <2>3. CASE ~mcu.known
    <3>1. ms = <<>> /\ <<>> \in Seq(Messages) /\ Len(<<>>) = 0 BY <2>3, EmptySeq
    <3>2. QED BY <2>3, <3>1
  <2>4. QED BY <2>2, <2>3
<1>4. EventInv' /\ uplink' \in Seq(Messages) /\ Len(uplink') <= MaxInFlight
  <2> HIDE DEF ms, to
  <2>1. LinksTyped /\ EventInv /\ store'["locked"] = store["locked"]
    BY Types DEF Relations, McuChanges
  <2>2. QED BY <1>1, <1>3, <2>1, WireAppend
<1>5. LinksTyped' BY <1>4, Types DEF LinksTyped, McuChanges
<1>6. CountTyped' /\ (~lost' => ~lost)
  BY <1>1, <1>2, Types, InputTyped DEF CountTyped, McuChanges
<1>7. RestTyped'
  BY <1>1, <1>2, Types DEF RestTyped, McuChanges, Payloads, Values
<1>8. TypeOK' BY <1>5, <1>6, <1>7, Types, TypesKept, TypesNext DEF McuChanges
<1>9. AttemptsInv' BY DEF AttemptsInv
<1>10. MovesOn BY DEF MovesOn, BeforeCli, StepsInv, Relations, McuChanges
<1>11. Relations' BY <1>4, <1>6, <1>10, QuietButEvents DEF McuChanges
<1>12. QED BY <1>8, <1>9, <1>11

LEMMA McuAnnouncesStep ==
    MpuInv /\ McuAnnounces /\ UNCHANGED <<gatewayVars, mainVars>> => MpuInv'
<1> SUFFICES ASSUME MpuInv, McuAnnounces, UNCHANGED <<gatewayVars, mainVars>> PROVE MpuInv'
  OBVIOUS
<1> USE DEF MpuInv, gatewayVars, mainVars
<1> DEFINE ms == IF mcu.known THEN <<VinEvent>> ELSE <<>>
<1>1. /\ mcu' = [mcu EXCEPT !.announced = TRUE]
      /\ uplink' = Wire(uplink, ms) /\ lost' = (lost \/ ~Fits(uplink, ms))
      /\ reported' = reported
  BY DEF McuAnnounces
<1>2. lost \in BOOLEAN
      /\ mcu \in [locked : LockStates, known : BOOLEAN, announced : BOOLEAN]
  BY Types DEF CountTyped, RestTyped
<1>3. ms \in Seq(Messages) /\ \A i \in 1..Len(ms) : ~IsEvent(ms[i])
  <2>1. VinEvent \in Messages /\ ~IsEvent(VinEvent)
    BY DEF VinEvent, Messages, Signals, Payloads, IsEvent
  <2>2. CASE mcu.known
    <3>1. ms = <<VinEvent>> BY <2>2
    <3>2. <<VinEvent>> \in Seq(Messages) /\ Len(<<VinEvent>>) = 1
          /\ <<VinEvent>>[1] = VinEvent
      BY <2>1, IsASeq
    <3>3. QED BY <2>1, <3>1, <3>2
  <2>3. CASE ~mcu.known
    <3>1. ms = <<>> /\ <<>> \in Seq(Messages) /\ Len(<<>>) = 0 BY <2>3, EmptySeq
    <3>2. QED BY <3>1
  <2>4. QED BY <2>2, <2>3
<1>4. EventInv' /\ uplink' \in Seq(Messages) /\ Len(uplink') <= MaxInFlight
  <2> HIDE DEF ms
  <2>1. LinksTyped /\ EventInv /\ store'["locked"] = store["locked"]
    BY Types DEF Relations, McuAnnounces
  <2>2. QED BY <1>1, <1>3, <2>1, WireAppend
<1>5. LinksTyped' BY <1>4, Types DEF LinksTyped, McuAnnounces
<1>6. CountTyped' /\ (~lost' => ~lost)
  BY <1>1, <1>2, Types DEF CountTyped, McuAnnounces
<1>7. RestTyped'
  BY <1>1, <1>2, Types DEF RestTyped, McuAnnounces
<1>8. TypeOK' BY <1>5, <1>6, <1>7, Types, TypesKept, TypesNext DEF McuAnnounces
<1>9. AttemptsInv' BY DEF AttemptsInv
<1>10. MovesOn BY DEF MovesOn, BeforeCli, StepsInv, Relations, McuAnnounces
<1>11. Relations' BY <1>4, <1>6, <1>10, QuietButEvents DEF McuAnnounces
<1>12. QED BY <1>8, <1>9, <1>11

LEMMA OnResponseStep == MpuInv /\ OnResponse => MpuInv'
<1> SUFFICES ASSUME MpuInv, OnResponse PROVE MpuInv'
  OBVIOUS
<1> USE DEF MpuInv, OnResponse, gatewayVars
<1>1. /\ uplink \in Seq(Messages) /\ uplink # <<>> /\ uplink' = Tail(uplink)
      /\ Head(uplink) \in Messages /\ Tail(uplink) \in Seq(Messages)
      /\ Len(Tail(uplink)) <= MaxInFlight
  BY Types, TailTyped, Bounds DEF LinksTyped
<1>2. EventInv'
  <2>1. ASSUME ~lost PROVE NewestEvent(Tail(uplink), reported, store["locked"])
    <3>1. NewestEvent(uplink, reported, store["locked"]) BY <2>1 DEF Relations, EventInv
    <3>2. ~IsEvent(Head(uplink)) BY DEF IsEvent, Methods
    <3>3. QED BY <1>1, <3>1, <3>2, NewestAfterTail
  <2>2. QED BY <2>1 DEF EventInv
<1>3. LinksTyped' BY <1>1, Types DEF LinksTyped
<1>4. TypeOK' BY <1>1, <1>3, Types, TypesKept, TypesNext DEF ResponseTyped
<1>5. AttemptsInv' BY DEF AttemptsInv
<1>6. MovesOn BY DEF MovesOn, BeforeCli, StepsInv, Relations
<1>7. Relations' BY <1>2, <1>6, QuietButEvents
<1>8. QED BY <1>4, <1>5, <1>7

LEMMA StopSomeIpStep == MpuInv /\ StopSomeIp => MpuInv'
<1> SUFFICES ASSUME MpuInv, StopSomeIp PROVE MpuInv'
  OBVIOUS
<1> USE DEF MpuInv, StopSomeIp, gatewayVars
<1>1. MainTyped' /\ main'.pc = "disconnect" /\ main'.attempts = main.attempts
  BY Types, MainSteps
<1>2. LinksTyped'
  BY Types, EmptySeq, Bounds DEF LinksTyped
<1>3. TypeOK'
  BY <1>1, <1>2, Types, TypesKept, TypesNext DEF CountTyped, RestTyped, CliTyped
<1>4. AttemptsInv' BY <1>1 DEF AttemptsInv
<1>5. MovesOn BY <1>1 DEF MovesOn, BeforeCli, BeforeInfo, StepsInv, Relations
<1>6. EventInv' BY DEF EventInv
<1>7. Relations' BY <1>5, <1>6, QuietButEvents
<1>8. QED BY <1>3, <1>4, <1>7

-----------------------------------------------------------------------------
(* The readers' queues. *)

(* Taking a value: what is left still ends with the newest; when nothing is
   left, what was taken is the newest.                                        *)
LEMMA TakeSteps ==
    ASSUME StreamsTyped, QueuesInv, NEW s \in Signals, streams[s].queue # <<>>,
           streams' = [streams EXCEPT ![s].queue = Tail(@)], UNCHANGED store,
           ~lost' => ~lost
    PROVE  /\ StreamsTyped' /\ QueuesInv'
           /\ streams[s].on /\ streams'[s].on
           /\ Head(streams[s].queue) \in Payloads /\ store[s] # None
           /\ \A r \in Signals \ {s} : streams'[r] = streams[r]
           /\ ~lost' /\ streams'[s].queue = <<>> => Head(streams[s].queue) = store[s]
<1> DEFINE old == streams[s].queue
<1>1. old \in Seq(Payloads) /\ streams[s] \in [on : BOOLEAN, queue : Seq(Payloads)]
  BY DEF StreamsTyped
<1>2. /\ Head(old) \in Payloads /\ Tail(old) \in Seq(Payloads)
      /\ Len(Tail(old)) = Len(old) - 1 /\ Len(old) \in Nat /\ Len(old) > 0
      /\ Head(old) = old[1]
      /\ \A i \in 1..Len(Tail(old)) : Tail(old)[i] = old[i + 1]
  BY <1>1, TailTyped
<1>3. streams'[s] = [streams[s] EXCEPT !.queue = Tail(old)]
      /\ \A r \in Signals \ {s} : streams'[r] = streams[r]
  BY DEF StreamsTyped
<1>4. streams'[s].queue = Tail(old) /\ streams'[s].on = streams[s].on
  BY <1>1, <1>3
<1>5. StreamsTyped' BY <1>1, <1>2 DEF StreamsTyped
<1>6. streams[s].on /\ store[s] # None BY DEF QueuesInv
<1>7. ~lost => old[Len(old)] = store[s]
  BY DEF QueuesInv, NewestLast, LastOf
<1>8. Tail(old) # <<>> => LastOf(Tail(old)) = old[Len(old)]
  <2>1. Tail(old) # <<>> => Len(Tail(old)) > 0 BY <1>2, TailTyped
  <2>2. Len(Tail(old)) > 0 => Len(Tail(old)) \in 1..Len(Tail(old)) BY <1>2
  <2>3. Len(Tail(old)) > 0 => Tail(old)[Len(Tail(old))] = old[Len(old)]
    BY <1>2, <2>2
  <2>4. QED BY <2>1, <2>3 DEF LastOf
<1>9. Tail(old) = <<>> => Head(old) = old[Len(old)]
  <2>1. Tail(old) = <<>> => Len(Tail(old)) = 0 BY EmptySeq
  <2>2. QED BY <1>2, <2>1
<1>10. QueuesInv'
  <2> HIDE DEF old
  <2>1. ASSUME NEW r \in Signals
        PROVE  /\ ~streams'[r].on => streams'[r].queue = <<>>
               /\ streams'[r].queue # <<>> => store'[r] # None
               /\ ~lost' => (streams'[r].queue # <<>>
                                => LastOf(streams'[r].queue) = store'[r])
    <3>1. CASE r = s BY <1>4, <1>6, <1>7, <1>8, <3>1
    <3>2. CASE r # s
      <4>1. streams'[r] = streams[r] BY <1>3, <3>2
      <4>2. QED BY <4>1 DEF QueuesInv, NewestLast
    <3>3. QED BY <3>1, <3>2
  <2>2. QED BY <2>1 DEF QueuesInv, NewestLast
<1>11. QED BY <1>2, <1>3, <1>4, <1>5, <1>6, <1>7, <1>9, <1>10

(* Publishing a value, whether the broker has it then or not. *)
LEMMA PublishQueues ==
    ASSUME StoreTyped, StreamsTyped, CountTyped, QueuesInv, NEW s \in Signals,
           NEW v \in Payloads, PublishSignal(s, v)
    PROVE  /\ QueuesInv' /\ (~lost' => ~lost)
           /\ (lost' /\ UNCHANGED <<store, streams>>) \/ Published(s, v)
<1> USE SomePayload
<1>1. Published(s, v) \/ (lost' /\ UNCHANGED <<store, streams>>) BY PublishSteps
<1>2. CASE lost' /\ UNCHANGED <<store, streams>> BY <1>2, QueuesStay
<1>3. CASE Published(s, v)
  <2>1. ASSUME NEW r \in Signals
        PROVE  /\ ~streams'[r].on => streams'[r].queue = <<>>
               /\ streams'[r].queue # <<>> => store'[r] # None
               /\ ~lost' => (streams'[r].queue # <<>>
                                => LastOf(streams'[r].queue) = store'[r])
    <3>1. CASE r = s
      <4>1. store'[s] = v /\ v # None BY <1>3 DEF Published, StoreTyped
      <4>2. CASE streams[s].on BY <1>3, <3>1, <4>1, <4>2 DEF Published
      <4>3. CASE ~streams[s].on
        <5>1. streams'[s].queue = <<>> /\ ~streams'[s].on
          BY <1>3, <4>3 DEF Published, QueuesInv
        <5>2. QED BY <3>1, <5>1
      <4>4. QED BY <4>2, <4>3
    <3>2. CASE r # s
      <4>1. streams'[r] = streams[r] /\ store'[r] = store[r] /\ lost' = lost
        BY <1>3, <3>2 DEF Published, StoreTyped
      <4>2. QED BY <4>1 DEF QueuesInv, NewestLast
    <3>3. QED BY <3>1, <3>2
  <2>2. QueuesInv' BY <2>1 DEF QueuesInv, NewestLast
  <2>3. QED BY <1>3, <2>2 DEF Published
<1>4. QED BY <1>1, <1>2, <1>3

-----------------------------------------------------------------------------
(* The bridge. *)

LEMMA StreamBreaksStep ==
    \A s \in Signals :
        MpuInv /\ StreamBreaks(s) /\ UNCHANGED <<gatewayVars, mainVars>> => MpuInv'
<1> SUFFICES ASSUME NEW s \in Signals, MpuInv, StreamBreaks(s),
                    UNCHANGED <<gatewayVars, mainVars>>
             PROVE  MpuInv'
  OBVIOUS
<1> USE DEF MpuInv, StreamBreaks, Fault, gatewayVars, mainVars
<1>1. /\ streams' = [streams EXCEPT ![s] = Off] /\ Off \in [on : BOOLEAN, queue : Seq(Payloads)]
      /\ Off.queue = <<>> /\ ~Off.on
  BY EmptySeq DEF Off
<1>2. StreamsTyped' /\ \A r \in Signals : streams'[r] = IF r = s THEN Off ELSE streams[r]
  BY <1>1, Types DEF StreamsTyped
<1>3. TypeOK' BY <1>2, Types, TypesKept, TypesNext, InputTyped DEF CountTyped
<1>4. AttemptsInv' BY DEF AttemptsInv
<1>5. EventInv' BY DEF EventInv
<1>6. QueuesInv' BY <1>1, <1>2 DEF Relations, QueuesInv
<1>7. CommandInv' BY <1>1, <1>2 DEF Relations, CommandInv, Signals
<1>8. StepsInv' BY <1>1, <1>2 DEF Relations, StepsInv, Signals
<1>9. SeenInv' BY SeenStays DEF Relations
<1>10. LockInv' BY DEF LockInv
<1>11. QED BY <1>3, <1>4, <1>5, <1>6, <1>7, <1>8, <1>9, <1>10 DEF Relations

LEMMA onSignalChangedStep ==
    MpuInv /\ onSignalChanged /\ UNCHANGED <<gatewayVars, mainVars>> => MpuInv'
<1> SUFFICES ASSUME MpuInv, onSignalChanged, UNCHANGED <<gatewayVars, mainVars>>
             PROVE  MpuInv'
  OBVIOUS
<1> USE DEF MpuInv, onSignalChanged, gatewayVars, mainVars
<1> DEFINE v == Head(streams["command"].queue)
<1>1. CountTyped /\ LinksTyped /\ StreamsTyped /\ RestTyped /\ socket \in BOOLEAN
      /\ lost \in BOOLEAN
  BY Types DEF RestTyped, CountTyped
<1>2. (~lost' => ~lost) /\ lost' \in BOOLEAN BY <1>1 DEF Send
<1>3. /\ StreamsTyped' /\ QueuesInv'
      /\ streams["command"].on /\ v \in Payloads
      /\ streams'["locked"] = streams["locked"]
      /\ ~lost' /\ streams'["command"].queue = <<>> => v = store["command"]
  BY <1>1, <1>2, TakeSteps DEF Relations, Signals
<1>4. DoorRequest(v) \in Requests /\ DoorRequest(v).value = v
  BY <1>3 DEF DoorRequest, Requests, Methods
<1>5. LinksTyped'
  BY <1>1, <1>4, SendTyped DEF LinksTyped
<1>6. RestTyped' BY <1>1, <1>3, <1>4 DEF RestTyped, Values
<1>7. TypeOK' BY <1>2, <1>3, <1>5, <1>6, Types, TypesKept, TypesNext DEF CountTyped
<1>8. AttemptsInv' BY DEF AttemptsInv
<1>9. EventInv' BY <1>2, EventStays DEF Relations
<1>10. CommandInv' BY <1>3, <1>4 DEF Relations, CommandInv
<1>11. StepsInv' BY <1>3 DEF Relations, StepsInv
<1>12. SeenInv' BY SeenStays DEF Relations
<1>13. LockInv' BY <1>2, <1>3, LockStays DEF Relations
<1>14. QED BY <1>3, <1>7, <1>8, <1>9, <1>10, <1>11, <1>12, <1>13 DEF Relations

(* A signal gets a value that is not read at once. *)
LEMMA PublishedKeeps ==
    ASSUME MpuInv, NEW s \in Signals, NEW v \in Payloads, Published(s, v),
           UNCHANGED <<requested, mutex, connected, vin, held, app, overtaken>>,
           UNCHANGED mainVars
    PROVE  CommandInv' /\ StepsInv' /\ SeenInv' /\ LockInv'
<1> USE DEF MpuInv, mainVars, gatewayVars
<1>1. "locked" \in Signals /\ "command" \in Signals BY DEF Signals
<1>2. /\ \A r \in Signals : streams'[r].on = streams[r].on
      /\ streams[s].on => streams'[s].queue # <<>>
      /\ \A r \in Signals \ {s} : streams'[r] = streams[r] /\ store'[r] = store[r]
      /\ store'[s] = v /\ v # None /\ lost' = lost
  BY Types, SomePayload DEF Published, StoreTyped
<1>3. CommandInv'
  <2>1. CASE s = "command" BY <1>1, <1>2, <2>1 DEF Relations, CommandInv
  <2>2. CASE s # "command" BY <1>1, <1>2, <2>2, CommandStays DEF Relations
  <2>3. QED BY <2>1, <2>2
<1>4. StepsInv' BY <1>1, <1>2 DEF Relations, StepsInv
<1>5. SeenInv' BY <1>1, <1>2, SeenStays DEF Relations
<1>6. LockInv'
  <2>1. CASE s = "locked" BY <1>1, <1>2, <2>1 DEF LockInv
  <2>2. CASE s # "locked" BY <1>1, <1>2, <2>2, LockStays DEF Relations
  <2>3. QED BY <2>1, <2>2
<1>7. QED BY <1>3, <1>4, <1>5, <1>6

LEMMA onSomeIpEventStep ==
    MpuInv /\ onSomeIpEvent /\ UNCHANGED <<gatewayVars, mainVars>> => MpuInv'
<1> SUFFICES ASSUME MpuInv, onSomeIpEvent, UNCHANGED <<gatewayVars, mainVars>>
             PROVE  MpuInv'
  OBVIOUS
<1> USE DEF MpuInv, onSomeIpEvent, gatewayVars, mainVars
<1> DEFINE s == Head(uplink).kind
           v == EventValue(Head(uplink))
<1>1. /\ uplink \in Seq(Messages) /\ uplink # <<>> /\ uplink' = Tail(uplink)
      /\ Head(uplink) \in Messages /\ Tail(uplink) \in Seq(Messages)
      /\ Len(Tail(uplink)) <= MaxInFlight
  BY Types, TailTyped, Bounds DEF LinksTyped
<1>2. v \in Payloads /\ v = Head(uplink).value /\ s \in Signals
      /\ (IsEvent(Head(uplink)) <=> s = "locked") /\ PublishSignal(s, v)
  BY <1>1 DEF EventValue, Messages, IsEvent
<1> HIDE DEF s, v
<1>3. /\ StoreTyped' /\ StreamsTyped' /\ CountTyped'
      /\ QueuesInv' /\ (~lost' => ~lost)
      /\ (lost' /\ UNCHANGED <<store, streams>>) \/ Published(s, v)
  BY <1>2, Types, PublishSteps, PublishQueues DEF Relations
<1>4. LinksTyped' BY <1>1, Types DEF LinksTyped
<1>5. TypeOK' BY <1>3, <1>4, Types, TypesKept, TypesNext
<1>6. AttemptsInv' BY DEF AttemptsInv
<1>7. CASE lost' /\ UNCHANGED <<store, streams>>
  <2>1. EventInv' BY <1>7 DEF EventInv
  <2>2. MovesOn BY DEF MovesOn, BeforeCli, StepsInv, Relations
  <2>3. QED BY <1>3, <1>5, <1>6, <1>7, <2>1, <2>2, QuietButEvents
<1>8. CASE Published(s, v)
  <2>1. /\ store'["locked"] = IF s = "locked" THEN v ELSE store["locked"]
        /\ lost' = lost
    BY <1>2, <1>8, Types DEF Published, StoreTyped, Signals
  <2>2. EventInv'
    <3>1. ASSUME ~lost PROVE NewestEvent(Tail(uplink), reported, store'["locked"])
      <4>1. NewestEvent(uplink, reported, store["locked"])
        BY <3>1 DEF Relations, EventInv
      <4>2. store'["locked"] = IF IsEvent(Head(uplink)) THEN Head(uplink).value
                                                        ELSE store["locked"]
        BY <1>2, <2>1
      <4>3. QED BY <1>1, <4>1, <4>2, NewestAfterTail
    <3>2. QED BY <1>1, <2>1, <3>1 DEF EventInv
  <2>3. CommandInv' /\ StepsInv' /\ SeenInv' /\ LockInv'
    BY <1>2, <1>8, PublishedKeeps
  <2>4. QED BY <1>3, <1>5, <1>6, <2>2, <2>3 DEF Relations
<1>9. QED BY <1>3, <1>7, <1>8

LEMMA onCloudCommandStep == MpuInv /\ onCloudCommand /\ UNCHANGED mainVars => MpuInv'
<1> SUFFICES ASSUME MpuInv, onCloudCommand, UNCHANGED mainVars PROVE MpuInv'
  OBVIOUS
<1> USE DEF MpuInv, onCloudCommand, mainVars
<1> DEFINE v == Head(commands)
<1>1. v \in LockStates /\ commands' \in Seq(LockStates)
  BY Types, TailTyped DEF CommandsTyped
<1>2. "locked" \in Signals /\ "command" \in Signals BY DEF Signals
<1>3. /\ StoreTyped' /\ StreamsTyped' /\ CountTyped'
      /\ QueuesInv' /\ (~lost' => ~lost)
      /\ (lost' /\ UNCHANGED <<store, streams>>) \/ Published("command", v)
  BY <1>1, <1>2, SomePayload, Types, PublishSteps, PublishQueues DEF Relations
<1>4. TypeOK' BY <1>1, <1>3, Types, TypesKept, TypesNext DEF CommandsTyped
<1>5. AttemptsInv' BY DEF AttemptsInv
<1>6. CASE lost' /\ UNCHANGED <<store, streams>>
  <2>1. MovesOn BY DEF MovesOn, BeforeCli, StepsInv, Relations
  <2>2. QED BY <1>3, <1>4, <1>5, <1>6, <2>1, QuietStep
<1>7. CASE Published("command", v)
  <2>1. store'["locked"] = store["locked"] /\ lost' = lost
    BY <1>2, <1>7, Types DEF Published, StoreTyped
  <2>2. EventInv' BY <2>1, EventStays DEF Relations
  <2>3. CommandInv' /\ StepsInv' /\ SeenInv' /\ LockInv'
    BY <1>1, <1>2, <1>7, PublishedKeeps, SomePayload
  <2>4. QED BY <1>3, <1>4, <1>5, <2>2, <2>3 DEF Relations
<1>8. QED BY <1>3, <1>6, <1>7

-----------------------------------------------------------------------------
(* The gateway. *)

LEMMA ReadLockedStep == MpuInv /\ ReadLocked /\ UNCHANGED mainVars => MpuInv'
<1> SUFFICES ASSUME MpuInv, ReadLocked, UNCHANGED mainVars PROVE MpuInv'
  OBVIOUS
<1> USE DEF MpuInv, ReadLocked, mainVars
<1> DEFINE v == Head(streams["locked"].queue)
<1>1. /\ StreamsTyped' /\ QueuesInv'
      /\ streams["locked"].on /\ streams'["locked"].on /\ v \in Payloads
      /\ store["locked"] # None
      /\ streams'["command"] = streams["command"]
      /\ ~lost' /\ streams'["locked"].queue = <<>> => v = store["locked"]
  BY Types, TakeSteps DEF Relations, Signals
<1>2. /\ HeldTyped'
      /\ held'["reader"].step = "publish" /\ held'["reader"].locked = v
      /\ held'["main"] = held["main"] /\ held'["cli"] = held["cli"]
  BY <1>1, Types DEF HeldTyped, Publishers
<1>3. RestTyped' BY Types DEF RestTyped, Signals
<1>4. TypeOK' BY <1>1, <1>2, <1>3, Types, TypesKept, TypesNext
<1>5. AttemptsInv' BY DEF AttemptsInv
<1>6. EventInv' BY EventStays DEF Relations
<1>7. CommandInv' BY <1>1, CommandStays DEF Relations
<1>8. StepsInv' BY <1>1, <1>2 DEF Relations, StepsInv, Publishers, None
<1>9. SeenInv' BY <1>1 DEF Relations, SeenInv
<1>10. LockInv' BY <1>1, <1>2 DEF LockInv, Pending
<1>11. QED BY <1>1, <1>4, <1>5, <1>6, <1>7, <1>8, <1>9, <1>10 DEF Relations

LEMMA ReadVinStep == MpuInv /\ ReadVin /\ UNCHANGED mainVars => MpuInv'
<1> SUFFICES ASSUME MpuInv, ReadVin, UNCHANGED mainVars PROVE MpuInv'
  OBVIOUS
<1> USE DEF MpuInv, ReadVin, mainVars
<1> DEFINE v == Head(streams["vin"].queue)
<1>1. /\ StreamsTyped' /\ QueuesInv' /\ v \in Payloads
      /\ streams'["locked"] = streams["locked"]
      /\ streams'["command"] = streams["command"]
  BY Types, TakeSteps DEF Relations, Signals
<1>2. "reader" \in Publishers /\ updateVin("reader", v) BY DEF Publishers
<1> HIDE DEF v
<1>3. /\ HeldTyped' /\ \A q \in Publishers \ {"reader"} : held'[q] = held[q]
      /\ held' = held \/ (connected /\ held'["reader"].step = "get")
  BY <1>2, Types, UpdateSteps
<1>4. vin' \in Vins BY <1>1, <1>2 DEF updateVin, Vins
<1>5. mutex' \in {None, "vin"} /\ (mutex' = None => held' = held) /\ mutex = None
  BY DEF None
<1>6. RestTyped' BY <1>5, Types DEF RestTyped, Signals
<1>7. TypeOK' BY <1>1, <1>3, <1>4, <1>6, Types, TypesKept, TypesNext DEF FlagsTyped
<1>8. AttemptsInv' BY DEF AttemptsInv
<1>9. EventInv' BY EventStays DEF Relations
<1>10. CommandInv' BY <1>1, CommandStays DEF Relations
<1>11. held["reader"].step = "idle" BY <1>5 DEF Relations, StepsInv
<1>12. StepsInv'
  BY <1>1, <1>3, <1>5 DEF Relations, StepsInv, Publishers
<1>13. SeenInv' BY <1>3 DEF Relations, SeenInv, Pending
<1>14. LockInv' BY <1>1, <1>3, <1>11 DEF Relations, LockInv, Pending
<1>15. QED BY <1>1, <1>7, <1>8, <1>9, <1>10, <1>12, <1>13, <1>14 DEF Relations

LEMMA GetStep ==
    \A p \in Publishers : MpuInv /\ Get(p) /\ UNCHANGED mainVars => MpuInv'
<1> SUFFICES ASSUME NEW p \in Publishers, MpuInv, Get(p), UNCHANGED mainVars
             PROVE  MpuInv'
  OBVIOUS
<1> USE DEF MpuInv, Get, mainVars
<1>1. /\ HeldTyped' /\ \A q \in Publishers \ {p} : held'[q] = held[q]
      /\ held[p].step = "get"
      /\ \/ held'[p] = Idle /\ mutex' = MutexAfter(p)
         \/ /\ held'[p].step = "publish" /\ held'[p].locked = store["locked"]
            /\ store["locked"] # None /\ mutex' = mutex
  <2>1. CASE Done(p) /\ mutex' = MutexAfter(p) BY <2>1, Types, DoneSteps
  <2>2. CASE store["locked"] # None /\ held' = [held EXCEPT ![p] = Snapshot]
             /\ UNCHANGED mutex
    <3>1. store["locked"] \in Payloads
      BY <2>2, Types DEF StoreTyped, Signals, Values
    <3>2. Snapshot \in [step : {"idle", "get", "publish"}, locked : Payloads]
          /\ Snapshot.step = "publish" /\ Snapshot.locked = store["locked"]
      BY <3>1 DEF Snapshot
    <3>3. QED BY <2>2, <3>2, Types, HeldSteps
  <2>3. QED BY <2>1, <2>2
<1> HIDE DEF Get
<1>2. UNCHANGED <<store, streams, socket, uplink, downlink, mcu, inputs, reported,
                  requested, lost, connected, vin, commands, app, overtaken>>
  BY DEF Get
<1>3. RestTyped' BY <1>1, <1>2, Types DEF RestTyped, MutexAfter
<1>4. TypeOK' BY <1>1, <1>2, <1>3, Types, TypesKept, TypesNext
<1>5. AttemptsInv' BY DEF AttemptsInv
<1>6. EventInv' BY <1>2, EventStays DEF Relations
<1>7. QueuesInv' BY <1>2, QueuesStay DEF Relations
<1>8. CommandInv' BY <1>2, CommandStays DEF Relations
<1>9. StepsInv'
  BY <1>1, <1>2 DEF Relations, StepsInv, Idle, Publishers, MutexAfter
<1>10. SeenInv' BY <1>1, <1>2 DEF Relations, SeenInv, Pending, Idle
<1>11. LockInv' BY <1>1, <1>2 DEF Relations, LockInv, Pending, Publishers, Idle
<1>12. QED BY <1>4, <1>5, <1>6, <1>7, <1>8, <1>9, <1>10, <1>11 DEF Relations

LEMMA PublishStateStep ==
    \A p \in Publishers : MpuInv /\ PublishState(p) /\ UNCHANGED mainVars => MpuInv'
<1> SUFFICES ASSUME NEW p \in Publishers, MpuInv, PublishState(p), UNCHANGED mainVars
             PROVE  MpuInv'
  OBVIOUS
<1> USE DEF MpuInv, mainVars
<1>1. /\ Pending(p) /\ store["locked"] # None
      /\ UNCHANGED <<store, streams, socket, uplink, downlink, mcu, reported,
                     requested, connected, vin, commands>>
      /\ overtaken' = IF p = "reader" THEN \E o \in Publishers \ {p} : Pending(o)
                                      ELSE overtaken
      /\ mutex' = MutexAfter(p)
  BY DEF PublishState, Pending, Relations, SeenInv
<1>2. /\ HeldTyped' /\ held'[p] = Idle
      /\ \A q \in Publishers \ {p} : held'[q] = held[q]
  BY Types, DoneSteps DEF PublishState
<1>3. held[p].locked \in Values BY Types DEF HeldTyped, Values
<1>4. /\ AppTyped' /\ CountTyped' /\ (~lost' => ~lost)
      /\ \/ connected /\ app' = held[p].locked
         \/ app' = app /\ (~connected \/ lost')
  <2>1. CASE connected
    <3>1. ToApp(held[p].locked) BY <2>1 DEF PublishState
    <3>2. QED BY <1>3, <2>1, <3>1, Types, ToAppTyped
  <2>2. CASE ~connected
    BY <2>2, Types, TypesKept DEF PublishState
  <2>3. QED BY <2>1, <2>2
<1>5. RestTyped' BY <1>1, Types DEF RestTyped, MutexAfter
<1>6. FlagsTyped' BY <1>1, Types DEF FlagsTyped
<1>7. TypeOK' BY <1>1, <1>2, <1>4, <1>5, <1>6, Types, TypesKept, TypesNext
<1>8. AttemptsInv' BY DEF AttemptsInv
<1>9. EventInv' BY <1>1, <1>4, EventStays DEF Relations
<1>10. QueuesInv' BY <1>1, <1>4, QueuesStay DEF Relations
<1>11. CommandInv' BY <1>1, <1>4, CommandStays DEF Relations
<1>12. StepsInv'
  BY <1>1, <1>2 DEF Relations, StepsInv, Idle, Publishers, MutexAfter
<1>13. SeenInv' BY <1>1, <1>2, <1>4 DEF Relations, SeenInv, Pending, Idle
<1>14. LockInv'
  <2>1. SUFFICES ASSUME connected, streams["locked"].on, streams["locked"].queue = <<>>,
                        ~lost'
                 PROVE  IF Pending("reader")' THEN held'["reader"].locked = store["locked"]
                        ELSE ~overtaken' =>
                           /\ app' = store["locked"]
                           /\ \A q \in Publishers :
                                Pending(q)' => held'[q].locked = store["locked"]
    BY <1>1 DEF LockInv
  <2>2. ~lost /\ app' = held[p].locked BY <1>4, <2>1
  <2>3. CASE p = "reader"
    <3>1. ~Pending("reader")' BY <1>2, <2>3 DEF Pending, Idle
    <3>2. held["reader"].locked = store["locked"]
      BY <1>1, <2>1, <2>2, <2>3 DEF Relations, LockInv
    <3>3. ~overtaken' => \A q \in Publishers : ~Pending(q)'
      BY <1>1, <1>2, <2>3, <3>1 DEF Pending
    <3>4. QED BY <2>2, <2>3, <3>1, <3>2, <3>3
  <2>4. CASE p # "reader" /\ Pending("reader")
    <3>1. "reader" \in Publishers \ {p} BY <2>4 DEF Publishers
    <3>2. held'["reader"] = held["reader"] BY <1>2, <3>1
    <3>3. QED BY <2>1, <2>2, <2>4, <3>2 DEF Relations, LockInv, Pending
  <2>5. CASE p # "reader" /\ ~Pending("reader")
    <3>1. "reader" \in Publishers \ {p} BY <2>5 DEF Publishers
    <3>2. ~Pending("reader")' /\ overtaken' = overtaken
      BY <1>1, <1>2, <2>5, <3>1 DEF Pending
    <3>3. ~overtaken => \A q \in Publishers : Pending(q) => held[q].locked = store["locked"]
      BY <2>1, <2>2, <2>5 DEF Relations, LockInv
    <3>4. ~overtaken => app' = store["locked"] BY <1>1, <2>2, <3>3
    <3>5. \A q \in Publishers : Pending(q)' => Pending(q) /\ held'[q] = held[q]
      BY <1>2 DEF Pending, Idle
    <3>6. QED BY <3>2, <3>3, <3>4, <3>5
  <2>6. QED BY <2>3, <2>4, <2>5
<1>15. QED BY <1>7, <1>8, <1>9, <1>10, <1>11, <1>12, <1>13, <1>14 DEF Relations

-----------------------------------------------------------------------------
(* Startup, the CLI's VIN, shutdown and restart. *)

LEMMA SubscribedTyped ==
    ASSUME StoreTyped, NEW s \in Signals
    PROVE  /\ Subscribed(s) \in [on : BOOLEAN, queue : Seq(Payloads)]
           /\ Subscribed(s).on
           /\ Subscribed(s).queue = <<>> <=> store[s] = None
           /\ Subscribed(s).queue # <<>> => LastOf(Subscribed(s).queue) = store[s]
<1>1. CASE store[s] = None
  <2>1. Subscribed(s) = [on |-> TRUE, queue |-> <<>>] BY <1>1 DEF Subscribed
  <2>2. QED BY <1>1, <2>1, EmptySeq
<1>2. CASE store[s] # None
  <2>1. Subscribed(s) = [on |-> TRUE, queue |-> <<store[s]>>] BY <1>2 DEF Subscribed
  <2>2. store[s] \in Payloads BY <1>2 DEF StoreTyped, Values
  <2>3. <<store[s]>> \in Seq(Payloads) /\ <<store[s]>> # <<>> /\ LastOf(<<store[s]>>) = store[s]
    BY <2>2, IsASeq DEF LastOf
  <2>4. QED BY <1>2, <2>1, <2>3
<1>3. QED BY <1>1, <1>2

LEMMA SubscribeSteps ==
    ASSUME StoreTyped, StreamsTyped, QueuesInv, NEW s \in Signals,
           streams' = [streams EXCEPT ![s] = Subscribed(s)], UNCHANGED <<store, lost>>
    PROVE  /\ StreamsTyped' /\ QueuesInv'
           /\ streams'[s] = Subscribed(s)
           /\ \A r \in Signals \ {s} : streams'[r] = streams[r]
<1>1. /\ StreamsTyped' /\ streams'[s] = Subscribed(s)
      /\ \A r \in Signals \ {s} : streams'[r] = streams[r]
  BY SubscribedTyped DEF StreamsTyped
<1>2. ASSUME NEW r \in Signals
      PROVE  /\ ~streams'[r].on => streams'[r].queue = <<>>
             /\ streams'[r].queue # <<>> => store'[r] # None
             /\ ~lost' => (streams'[r].queue # <<>>
                              => LastOf(streams'[r].queue) = store'[r])
  <2>1. CASE r = s BY <1>1, <2>1, SubscribedTyped
  <2>2. CASE r # s BY <1>1, <2>2 DEF QueuesInv, NewestLast
  <2>3. QED BY <2>1, <2>2
<1>3. QED BY <1>1, <1>2 DEF QueuesInv, NewestLast

LEMMA InitBridgeStep == MpuInv /\ InitBridge => MpuInv'
<1> SUFFICES ASSUME MpuInv, InitBridge PROVE MpuInv'
  OBVIOUS
<1> USE DEF MpuInv, InitBridge, gatewayVars
<1>1. MainTyped' /\ main'.pc = "cli" /\ main'.attempts = main.attempts
  BY Types, MainSteps
<1>2. /\ StreamsTyped' /\ QueuesInv'
      /\ streams'["command"] = Subscribed("command")
      /\ streams'["locked"] = streams["locked"]
      /\ Subscribed("command").queue = <<>> => store["command"] = None
  BY Types, SubscribeSteps, SubscribedTyped DEF Relations, Signals
<1>3. TypeOK' BY <1>1, <1>2, Types, TypesKept, TypesNext DEF CliTyped
<1>4. AttemptsInv' BY <1>1 DEF AttemptsInv
<1>5. EventInv' BY EventStays DEF Relations
<1>6. CommandInv' BY <1>1, <1>2 DEF Relations, CommandInv
<1>7. StepsInv' BY <1>1, <1>2 DEF Relations, StepsInv, BeforeInfo, BeforeCli
<1>8. SeenInv' BY SeenStays DEF Relations
<1>9. LockInv' BY <1>2, LockStays DEF Relations
<1>10. QED BY <1>2, <1>3, <1>4, <1>5, <1>6, <1>7, <1>8, <1>9 DEF Relations

LEMMA VinInTyped ==
    ASSUME ResponseTyped, response # NoResponse, VinIn(response) # ""
    PROVE  VinIn(response) \in Vins
  BY DEF ResponseTyped, VinIn, Vins, Messages

LEMMA TakeVinStep == MpuInv /\ TakeVin => MpuInv'
<1> SUFFICES ASSUME MpuInv, TakeVin PROVE MpuInv'
  OBVIOUS
<1> USE DEF MpuInv, TakeVin, bridgeVars
<1>1. /\ MainTyped' /\ main'.pc \in {"ask", "gateway"}
      /\ main'.pc = "ask" => main'.attempts < MaxAttempts
  <2>1. CASE main' = [pc |-> "gateway", attempts |-> 0]
    BY <2>1, NoAttempts DEF MainTyped
  <2>2. CASE main' = [main EXCEPT !.pc = "ask"] /\ main.attempts < MaxAttempts
    BY <2>2, Types DEF MainTyped
  <2>3. QED BY <2>1, <2>2 DEF NextAttempt
<1>2. vin' \in Vins BY Types, VinInTyped DEF FlagsTyped
<1>3. main.pc = "wait" /\ ~connected BY DEF Relations, StepsInv, BeforeInfo
<1>4. TypeOK' BY <1>1, <1>2, Types, TypesKept, TypesNext
  DEF FlagsTyped, ResponseTyped
<1>5. AttemptsInv' BY <1>1 DEF AttemptsInv
<1>6. EventInv' BY EventStays DEF Relations
<1>7. QueuesInv' BY QueuesStay DEF Relations
<1>8. CommandInv' BY <1>1, CommandStays DEF Relations
<1>9. StepsInv' BY <1>1, <1>3 DEF Relations, StepsInv, BeforeInfo, BeforeCli
<1>10. SeenInv' BY SeenStays DEF Relations
<1>11. LockInv' BY LockStays DEF Relations
<1>12. QED BY <1>4, <1>5, <1>6, <1>7, <1>8, <1>9, <1>10, <1>11 DEF Relations

LEMMA InitGatewayStep == MpuInv /\ InitGateway => MpuInv'
<1> SUFFICES ASSUME MpuInv, InitGateway PROVE MpuInv'
  OBVIOUS
<1> USE DEF MpuInv, InitGateway
<1>1. MainTyped' /\ main'.pc = "subscribe" /\ main'.attempts = main.attempts
  BY Types, MainSteps
<1>2. main.pc = "gateway" /\ ~connected /\ ~streams["locked"].on
      /\ cli = "off" /\ \A p \in Publishers : held[p] = Idle
  BY DEF Relations, StepsInv, BeforeInfo, BeforeCli
<1>3. /\ StreamsTyped' /\ QueuesInv'
      /\ streams'["command"] = streams["command"]
      /\ \/ ~connected' /\ streams' = streams
         \/ connected' /\ (streams'["locked"].queue = <<>> => store["locked"] = None)
      /\ connected' \in BOOLEAN
  <2>1. CASE UNCHANGED <<connected, streams>>
    <3>1. QueuesInv' BY <2>1, QueuesStay DEF Relations
    <3>2. QED BY <1>2, <2>1, <3>1, Types, TypesKept DEF FlagsTyped
  <2>2. CASE connected' = TRUE /\ streams' = [streams EXCEPT !["locked"] = Subscribed("locked")]
    BY <2>2, Types, SubscribeSteps, SubscribedTyped DEF Relations, Signals
  <2>3. QED BY <2>1, <2>2
<1>4. TypeOK' BY <1>1, <1>3, Types, TypesKept, TypesNext DEF FlagsTyped
<1>5. AttemptsInv' BY <1>1 DEF AttemptsInv
<1>6. EventInv' BY EventStays DEF Relations
<1>7. CommandInv' BY <1>1, <1>3, CommandStays DEF Relations
<1>8. StepsInv' BY <1>1, <1>2 DEF Relations, StepsInv, BeforeInfo, BeforeCli
<1>9. SeenInv' BY SeenStays DEF Relations
<1>10. LockInv'
  BY <1>2, <1>3 DEF Relations, LockInv, SeenInv, Pending, Idle, Publishers
<1>11. QED BY <1>3, <1>4, <1>5, <1>6, <1>7, <1>8, <1>9, <1>10 DEF Relations

LEMMA SubscribeVinStep == MpuInv /\ SubscribeVin => MpuInv'
<1> SUFFICES ASSUME MpuInv, SubscribeVin PROVE MpuInv'
  OBVIOUS
<1> USE DEF MpuInv, SubscribeVin
<1>1. MainTyped' /\ main'.pc = "publish" /\ main'.attempts = main.attempts
  BY Types, MainSteps
<1>2. /\ HeldTyped' /\ held'["main"].step = "get"
      /\ \A q \in Publishers \ {"main"} : held'[q] = held[q]
  <2>1. [held["main"] EXCEPT !.step = "get"] \in [step : {"idle", "get", "publish"},
                                                  locked : Payloads]
        /\ [held["main"] EXCEPT !.step = "get"].step = "get"
        /\ held' = [held EXCEPT !["main"] = [held["main"] EXCEPT !.step = "get"]]
    BY Types DEF HeldTyped, Publishers
  <2>2. QED BY <2>1, Types, HeldSteps DEF Publishers
<1>3. /\ StreamsTyped' /\ QueuesInv'
      /\ streams'["locked"] = streams["locked"]
      /\ streams'["command"] = streams["command"]
  BY Types, SubscribeSteps DEF Relations, Signals
<1>4. main.pc = "subscribe" /\ cli = "off" /\ held["cli"].step = "idle"
  BY DEF Relations, StepsInv, BeforeCli
<1>5. TypeOK' BY <1>1, <1>2, <1>3, Types, TypesKept, TypesNext
<1>6. AttemptsInv' BY <1>1 DEF AttemptsInv
<1>7. EventInv' BY EventStays DEF Relations
<1>8. CommandInv' BY <1>1, <1>3, CommandStays DEF Relations
<1>9. StepsInv'
  BY <1>1, <1>2, <1>3, <1>4 DEF Relations, StepsInv, BeforeInfo, BeforeCli, Publishers
<1>10. SeenInv' BY <1>2 DEF Relations, SeenInv, Pending
<1>11. LockInv' BY <1>2, <1>3 DEF Relations, LockInv, Pending, Publishers
<1>12. QED BY <1>3, <1>5, <1>6, <1>7, <1>8, <1>9, <1>10, <1>11 DEF Relations

LEMMA StatusVinStep == MpuInv /\ StatusVin => MpuInv'
<1> SUFFICES ASSUME MpuInv, StatusVin PROVE MpuInv'
  OBVIOUS
<1> USE DEF MpuInv, StatusVin, bridgeVars
<1>1. /\ HeldTyped' /\ vin' \in Vins
      /\ \A q \in Publishers \ {"cli"} : held'[q] = held[q]
      /\ held' = held \/ held'["cli"].step = "get"
  <2>1. CASE UNCHANGED <<vin, held>> BY <2>1, Types, TypesKept DEF FlagsTyped
  <2>2. CASE /\ response # NoResponse /\ VinIn(response) # ""
             /\ updateVin("cli", VinIn(response))
    <3>1. vin' \in Vins BY <2>2, Types, VinInTyped DEF updateVin
    <3>2. QED BY <2>2, <3>1, Types, UpdateSteps DEF Publishers
  <2>3. QED BY <2>1, <2>2
<1>2. cli = "wait" /\ cli' = "update" /\ held["cli"].step = "idle" /\ main.pc \notin BeforeCli
  BY DEF Relations, StepsInv
<1>3. TypeOK' BY <1>1, Types, TypesKept, TypesNext
  DEF FlagsTyped, CliTyped, ResponseTyped
<1>4. AttemptsInv' BY DEF AttemptsInv
<1>5. EventInv' BY EventStays DEF Relations
<1>6. QueuesInv' BY QueuesStay DEF Relations
<1>7. CommandInv' BY CommandStays DEF Relations
<1>8. StepsInv'
  BY <1>1, <1>2 DEF Relations, StepsInv, BeforeInfo, BeforeCli, Publishers
<1>9. SeenInv' BY <1>1, <1>2 DEF Relations, SeenInv, Pending, Publishers
<1>10. LockInv' BY <1>1, <1>2 DEF Relations, LockInv, Pending, Publishers
<1>11. QED BY <1>3, <1>4, <1>5, <1>6, <1>7, <1>8, <1>9, <1>10 DEF Relations

LEMMA StopGatewayStep == MpuInv /\ StopGateway => MpuInv'
<1> SUFFICES ASSUME MpuInv, StopGateway PROVE MpuInv'
  OBVIOUS
<1> USE DEF MpuInv, StopGateway, bridgeVars
<1>1. MainTyped' /\ main'.pc = "stopSomeIp" /\ main'.attempts = main.attempts
  BY Types, MainSteps
<1>2. TypeOK'
  BY <1>1, Types, TypesKept, TypesNext, EmptySeq DEF CommandsTyped, FlagsTyped
<1>3. AttemptsInv' BY <1>1 DEF AttemptsInv
<1>4. EventInv' BY EventStays DEF Relations
<1>5. QueuesInv' BY QueuesStay DEF Relations
<1>6. CommandInv' BY <1>1, CommandStays DEF Relations
<1>7. StepsInv' BY <1>1 DEF Relations, StepsInv, BeforeInfo, BeforeCli
<1>8. SeenInv' BY SeenStays DEF Relations
<1>9. LockInv' BY DEF LockInv
<1>10. QED BY <1>2, <1>3, <1>4, <1>5, <1>6, <1>7, <1>8, <1>9 DEF Relations

LEMMA DisconnectStep == MpuInv /\ Disconnect => MpuInv'
<1> SUFFICES ASSUME MpuInv, Disconnect PROVE MpuInv'
  OBVIOUS
<1> USE DEF MpuInv, Disconnect, gatewayVars
<1>1. MainTyped' /\ main'.pc = "ended" /\ main'.attempts = main.attempts
  BY Types, MainSteps
<1>2. /\ StreamsTyped'
      /\ \A s \in Signals : ~streams'[s].on /\ streams'[s].queue = <<>>
  BY EmptySeq DEF StreamsTyped, Off
<1>3. "locked" \in Signals /\ "command" \in Signals BY DEF Signals
<1>4. TypeOK' BY <1>1, <1>2, Types, TypesKept, TypesNext
<1>5. AttemptsInv' BY <1>1 DEF AttemptsInv
<1>6. EventInv' BY EventStays DEF Relations
<1>7. QueuesInv' BY <1>2 DEF QueuesInv, NewestLast
<1>8. CommandInv' BY <1>1, <1>2, <1>3 DEF CommandInv
<1>9. StepsInv' BY <1>1 DEF Relations, StepsInv, BeforeInfo, BeforeCli
<1>10. SeenInv' BY SeenStays DEF Relations
<1>11. LockInv' BY <1>2, <1>3 DEF LockInv
<1>12. QED BY <1>4, <1>5, <1>6, <1>7, <1>8, <1>9, <1>10, <1>11 DEF Relations

LEMMA RestartStep == MpuInv /\ Restart => MpuInv'
<1> SUFFICES ASSUME MpuInv, Restart PROVE MpuInv'
  OBVIOUS
<1> USE DEF MpuInv, Restart
<1>1. MainTyped' /\ main'.pc = "connect" /\ main'.attempts = 0
  BY MpuAssumption DEF MainTyped, Start
<1>2. /\ StreamsTyped'
      /\ \A s \in Signals : ~streams'[s].on /\ streams'[s].queue = <<>>
  BY EmptySeq DEF StreamsTyped, Off
<1>3. "locked" \in Signals /\ "command" \in Signals BY DEF Signals
<1>4. HeldTyped' /\ \A p \in Publishers : held'[p] = Idle
  BY IdleTyped DEF HeldTyped
<1>5. LinksTyped'
  <2>1. downlink \in Seq(Requests) /\ Len(downlink) \in Nat
        /\ DOMAIN downlink = 1..Len(downlink) /\ Len(downlink) <= MaxInFlight
        /\ \A i \in 1..Len(downlink) : downlink[i] \in Requests
    BY Types, LenProperties, ElementOfSeq DEF LinksTyped
  <2>2. \A i \in 1..Len(downlink) : [downlink[i] EXCEPT !.live = FALSE] \in Requests
    BY <2>1 DEF Requests
  <2>3. downlink' = [i \in 1..Len(downlink) |-> [downlink[i] EXCEPT !.live = FALSE]]
    BY <2>1
  <2>4. downlink' \in Seq(Requests) /\ Len(downlink') = Len(downlink)
    BY <2>1, <2>2, <2>3, IsASeq
  <2>5. uplink' \in Seq(Messages) /\ Len(uplink') <= MaxInFlight
    BY EmptySeq, Bounds
  <2>6. QED BY <2>1, <2>4, <2>5 DEF LinksTyped
<1>6. CountTyped' BY Types, InputTyped DEF CountTyped
<1>7. RestTyped' BY Types DEF RestTyped, Values
<1>8. TypeOK'
  BY <1>1, <1>2, <1>4, <1>5, <1>6, <1>7, Types, TypesKept, TypesNext, EmptySeq
  DEF CommandsTyped, FlagsTyped, Vins, CliTyped, ResponseTyped
<1>9. AttemptsInv' BY <1>1 DEF AttemptsInv
<1>10. EventInv' BY EmptySeq DEF EventInv, NewestEvent
<1>11. QueuesInv' BY <1>2 DEF QueuesInv, NewestLast
<1>12. CommandInv' BY <1>1, <1>2, <1>3 DEF CommandInv
<1>13. StepsInv' BY <1>1, <1>2, <1>3, <1>4 DEF StepsInv, Idle, Publishers
<1>14. SeenInv' BY <1>4 DEF Relations, SeenInv, Pending, Idle
<1>15. LockInv' BY DEF LockInv
<1>16. QED BY <1>8, <1>9, <1>10, <1>11, <1>12, <1>13, <1>14, <1>15 DEF Relations

-----------------------------------------------------------------------------
(* The invariant, and what follows from it. *)

LEMMA InvInit == Init => MpuInv
<1> SUFFICES ASSUME Init PROVE MpuInv
  OBVIOUS
<1> USE DEF Init, BridgeInit, GatewayInit
<1>1. \A s \in Signals : ~streams[s].on /\ streams[s].queue = <<>>
  BY DEF Off
<1>2. \A p \in Publishers : held[p] = Idle
  OBVIOUS
<1>3. StreamsTyped BY EmptySeq DEF StreamsTyped, Off
<1>4. LinksTyped BY EmptySeq, Bounds DEF LinksTyped
<1>5. HeldTyped BY IdleTyped DEF HeldTyped
<1>6. StoreTyped /\ CountTyped /\ RestTyped
  <2>1. StoreTyped BY DEF StoreTyped, Values, None
  <2>2. CountTyped
    <3>1. inputs = 0 /\ lost = FALSE OBVIOUS
    <3>2. inputs \in 0..MaxInputs BY <3>1, Bounds
    <3>3. QED BY <3>1, <3>2 DEF CountTyped
  <2>3. RestTyped
    <3>1. mcu \in [locked : LockStates, known : BOOLEAN, announced : BOOLEAN] BY DEF LockStates
    <3>2. QED BY <3>1 DEF RestTyped, Values
  <2>4. QED BY <2>1, <2>2, <2>3
<1>7. AppTyped /\ FlagsTyped /\ CommandsTyped /\ ResponseTyped /\ CliTyped
  BY EmptySeq
     DEF AppTyped, FlagsTyped, CommandsTyped, ResponseTyped, CliTyped, Vins, Values
<1>8. MainTyped BY MpuAssumption DEF MainTyped, Start
<1>9. TypeOK BY <1>3, <1>4, <1>5, <1>6, <1>7, <1>8, Types
<1>10. "locked" \in Signals /\ "command" \in Signals BY DEF Signals
<1>11. EventInv BY EmptySeq DEF EventInv, NewestEvent
<1>12. QueuesInv BY <1>1 DEF QueuesInv, NewestLast
<1>13. CommandInv BY <1>1, <1>10 DEF CommandInv
<1>14. StepsInv /\ AttemptsInv
  BY <1>1, <1>2, <1>10 DEF StepsInv, AttemptsInv, Start, Idle, Publishers
<1>15. SeenInv BY <1>2 DEF SeenInv, Pending, Idle
<1>16. LockInv BY DEF LockInv
<1>17. QED
  BY <1>9, <1>11, <1>12, <1>13, <1>14, <1>15, <1>16 DEF MpuInv, Relations

LEMMA InvStutter == MpuInv /\ UNCHANGED vars => MpuInv'
<1> SUFFICES ASSUME MpuInv, UNCHANGED vars PROVE MpuInv'
  OBVIOUS
<1> USE DEF MpuInv, vars, bridgeVars, gatewayVars
<1>1. TypeOK' BY Types, TypesKept, TypesNext
<1>2. AttemptsInv' BY DEF AttemptsInv
<1>3. MovesOn BY DEF MovesOn, BeforeCli, StepsInv, Relations
<1>4. Relations' BY <1>3, QuietStep
<1>5. QED BY <1>1, <1>2, <1>4

LEMMA InvNext == MpuInv /\ [Next]_vars => MpuInv'
<1> SUFFICES ASSUME MpuInv, [Next]_vars PROVE MpuInv'
  OBVIOUS
<1>1. CASE BridgeNext /\ UNCHANGED <<gatewayVars, mainVars>>
  BY <1>1, LoseDatagramStep, StreamBreaksStep, onSignalChangedStep, onSomeIpEventStep,
     McuHandlesStep, McuChangesStep, McuAnnouncesStep, McuRestartsStep DEF BridgeNext
<1>2. CASE GatewayNext /\ UNCHANGED mainVars
  BY <1>2, AppCommandStep, onCloudCommandStep, ReadLockedStep, ReadVinStep,
     GetStep, PublishStateStep DEF GatewayNext
<1>3. CASE OnResponse BY <1>3, OnResponseStep
<1>4. CASE Main_Steps
  BY <1>4, ConnectStep, InitBridgeStep, InitCliStep, AskStep, TakeVinStep, InitGatewayStep,
     SubscribeVinStep, StartCliStep, CliEndedStep, StopCliStep,
     StopGatewayStep, StopSomeIpStep, DisconnectStep DEF Main_Steps
<1>5. CASE Status \/ StatusVin \/ StatusRest \/ Command \/ CommandDone
  BY <1>5, StatusStep, StatusVinStep, StatusRestStep, CommandStep, CommandDoneStep
<1>6. CASE EndOfInput \/ StopSignal BY <1>6, EndOfInputStep, StopSignalStep
<1>7. CASE Restart BY <1>7, RestartStep
<1>8. CASE UNCHANGED vars BY <1>8, InvStutter
<1>9. QED BY <1>1, <1>2, <1>3, <1>4, <1>5, <1>6, <1>7, <1>8 DEF Next

(* Every reachable state of the MPU, the broker, the cloud and the body ECU's
   part in them satisfies the invariant.                                      *)
THEOREM MpuCorrect == Spec => []MpuInv
<1>1. QED BY InvInit, InvNext, PTL DEF Spec

(* The variables of bridge, gateway, main and CLI thread keep their types, the
   wire its length, and startup asks for the VIN MaxAttempts times at most.   *)
THEOREM MpuTypeCorrect == Spec => []TypeOK
<1>1. MpuInv => TypeOK BY DEF MpuInv
<1>2. QED BY <1>1, MpuCorrect, PTL

(* Whatever is reordered, skipped or restarted: when no lock event is under way
   and none was lost, the broker has the state the ECU reported last
   (onSomeIpEvent, PublishSignal).                                            *)
THEOREM BrokerAgreesAlways == Spec => []BrokerAgrees
<1>1. MpuInv => BrokerAgrees
  BY EmptySeq DEF MpuInv, Relations, EventInv, NewestEvent, BrokerAgrees
<1>2. QED BY <1>1, MpuCorrect, PTL

(* However many commands the reader thread skips, the last Lock or Unlock of a
   bridge that has heard them all is the broker's value (onSignalChanged).    *)
THEOREM LastCommandWinsAlways == Spec => []LastCommandWins
<1>1. MpuInv => LastCommandWins
  BY DEF MpuInv, Relations, CommandInv, LastCommandWins
<1>2. QED BY <1>1, MpuCorrect, PTL

(* Whatever the threads that publish to the cloud interleave and whichever of
   their get() fail: once startup is over and all is read and published, an app
   that missed no message shows the broker's lock state, unless other threads
   were still to publish what they had read when a reader last did (Get,
   PublishState).                                                             *)
THEOREM CloudAgreesAlways == Spec => []CloudAgrees
<1>1. MpuInv => CloudAgrees
  BY DEF MpuInv, Relations, LockInv, CloudAgrees, Settled, Pending, Idle, Publishers
<1>2. QED BY <1>1, MpuCorrect, PTL

=============================================================================
