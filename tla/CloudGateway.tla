---------------------------- MODULE CloudGateway ----------------------------
(* CloudGatewayClient between the signal bus and NATS, and the companion app
   at the other end.  Three threads publish the lock state to the cloud: a
   reader thread of the bus, as the signal changes, and the main and CLI
   threads, which read the signal and then publish it (publishCurrentState());
   so does the reader thread that hears of another VIN.  The VIN the app shows,
   taken from every message's subject, is left out.

   NATS (external) is at most once: what is published while nobody subscribes,
   or while the connection is down, is gone.  connect() is tried once.       *)
EXTENDS SignalBridge

VARIABLES connected,   \* CloudGatewayClient::connected_
          vin,         \* config_.vin
          held,        \* per publishing thread: its step and what it read
          commands,    \* NATS: commands for this MPU
          app,         \* the companion app: the lock state it shows
          overtaken    \* history: when a reader last published, another thread
                       \* still had to publish what it had read

gatewayVars == <<connected, vin, held, commands, app, overtaken>>

Publishers == {"reader", "main", "cli"}   \* one reader at a time, inside mutex_
Vins == Payloads \cup {"UNKNOWN", "x01"}
Idle == [step |-> "idle", locked |-> "unlocked"]

GatewayTypeOK ==
    /\ connected \in BOOLEAN
    /\ vin \in Vins
    /\ held \in [Publishers -> [step : {"idle", "get", "publish"}, locked : Payloads]]
    /\ commands \in Seq(LockStates)
    /\ app \in Values
    /\ overtaken \in BOOLEAN

GatewayInit ==
    /\ connected = FALSE
    /\ vin = "UNKNOWN"
    /\ held = [p \in Publishers |-> Idle]
    /\ commands = <<>>
    /\ app = None
    /\ overtaken = FALSE

Done(p) == held' = [held EXCEPT ![p] = Idle]

(* The app's message handlers run one after the other as messages arrive; a
   message the connection drops is never sent again.                         *)
ToApp(message) == \/ app' = message /\ UNCHANGED <<lost, inputs>>
                  \/ Fault /\ UNCHANGED app

-----------------------------------------------------------------------------
(* Commands. *)

(* The app's buttons.  The subject's VIN is the app's; the gateway subscribes
   to every VIN's.                                                           *)
AppCommand(v) ==
    /\ Input
    /\ commands' = IF connected THEN Append(commands, v) ELSE commands
    /\ UNCHANGED <<store, streams, mutex, socket, uplink, downlink, mcu, reported,
                   requested, lost, connected, vin, held, app, overtaken>>

onCloudCommand ==
    /\ commands # <<>>
    /\ commands' = Tail(commands)
    /\ PublishSignal("command", Head(commands))
    /\ UNCHANGED <<mutex, socket, uplink, downlink, mcu, reported, requested,
                   connected, vin, held, app, overtaken>>

-----------------------------------------------------------------------------
(* State. *)

(* A reader thread takes a value and, inside mutex_, calls
   onLockStateChanged().                                                     *)
ReadLocked ==
    LET stream == streams["locked"] IN
    /\ stream.queue # <<>> /\ mutex = None
    /\ mutex' = "locked"
    /\ streams' = [streams EXCEPT !["locked"].queue = Tail(@)]
    /\ held' = [held EXCEPT !["reader"] = [step |-> "publish",
                                            locked |-> Head(stream.queue)]]
    /\ UNCHANGED <<store, socket, uplink, downlink, mcu, inputs, reported, requested,
                   lost, connected, vin, commands, app, overtaken>>

(* updateVin(): nothing to do, or vehicles.<VIN>.info.vin goes out and the
   current state is to follow.                                               *)
updateVin(p, v) ==
    /\ vin' = v
    /\ held' = IF v # vin /\ connected THEN [held EXCEPT ![p].step = "get"] ELSE held

(* Another reader thread takes the VIN, from the ECU's announcement or as the
   broker kept it, and calls updateVin() inside mutex_.                      *)
ReadVin ==
    LET stream == streams["vin"] IN
    /\ stream.queue # <<>> /\ mutex = None
    /\ streams' = [streams EXCEPT !["vin"].queue = Tail(@)]
    /\ updateVin("reader", Head(stream.queue))
    /\ mutex' = IF held' = held THEN None ELSE "vin"
    /\ UNCHANGED <<store, socket, uplink, downlink, mcu, inputs, reported, requested,
                   lost, connected, commands, app, overtaken>>

(* Mistake: a callback returns and the mutex stays locked. *)
MutexAfter_Kept(p) == mutex

(* The lock_guard of a reader thread ends with its callback. *)
MutexAfter(p) == IF p = "reader" THEN None ELSE mutex

(* Mistake: reads the command's signal. *)
Snapshot_Command == [step |-> "publish", locked |-> store["command"]]

Snapshot == [step |-> "publish", locked |-> store["locked"]]

(* publishCurrentState(), as far as get(): the signal's value, or none, for the
   signal has none yet or the call fails.                                    *)
Get(p) ==
    /\ held[p].step = "get"
    /\ \/ /\ connected /\ store["locked"] # None
          /\ held' = [held EXCEPT ![p] = Snapshot]
          /\ UNCHANGED mutex
       \/ Done(p) /\ mutex' = MutexAfter(p)
    /\ UNCHANGED <<store, streams, socket, uplink, downlink, mcu, inputs, reported,
                   requested, lost, connected, vin, commands, app, overtaken>>

(* onLockStateChanged(): the app takes the lock state from the message.  What
   others have read when a reader publishes goes out after it.               *)
PublishState(p) ==
    /\ held[p].step = "publish"
    /\ IF connected THEN ToApp(held[p].locked) ELSE UNCHANGED <<app, lost, inputs>>
    /\ Done(p)
    /\ mutex' = MutexAfter(p)
    /\ overtaken' = IF p = "reader"
                     THEN \E o \in Publishers \ {p} : held[o].step = "publish"
                     ELSE overtaken
    /\ UNCHANGED <<store, streams, socket, uplink, downlink, mcu, reported,
                   requested, connected, vin, commands>>

GatewayNext ==
    \/ \E v \in LockStates : AppCommand(v)
    \/ onCloudCommand
    \/ ReadLocked \/ ReadVin
    \/ \E p \in Publishers : Get(p) \/ PublishState(p)
=============================================================================
