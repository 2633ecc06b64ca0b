-------------------------------- MODULE Mpu ---------------------------------
(* The MPU process: the main thread's startup and shutdown around bridge and
   gateway, the command line's loop and its request-and-wait, and restarts.
   `status' asks for the VIN, whose answer goes on to the gateway, and then for
   states; the other commands' requests are like the latter.                 *)
EXTENDS CloudGateway

CONSTANTS MaxAttempts,  \* how often startup asks for the VIN: 5 in the code
          Terminal      \* whether standard input is a terminal

ASSUME MpuAssumption == MaxAttempts \in Nat \ {0} /\ Terminal \in BOOLEAN

VARIABLES main,      \* the main thread: where it is, attempts made
          cli,       \* the CLI thread: where it is
          handlers,  \* whose handlers the responses reach
          response   \* Cli::last_response_ while it counts: NoResponse unless
                     \* response_ready_ and somebody waits for a VIN

vars == <<bridgeVars, gatewayVars, main, cli, handlers, response>>
mainVars == <<main, cli, handlers, response>>

NoResponse == [kind |-> None, value |-> "unlocked", ok |-> FALSE]

TypeOK ==
    /\ BridgeTypeOK /\ GatewayTypeOK
    /\ main \in [pc : {"connect", "bridge", "cli", "ask", "wait", "gateway",
                       "subscribe", "publish", "running", "stopCli",
                       "stopGateway", "stopSomeIp", "disconnect", "ended"},
                 attempts : 0..MaxAttempts]
    /\ cli \in {"off", "idle", "wait", "update", "other", "ended"}
    /\ handlers \in {"none", "bridge", "cli"}
    /\ response \in Messages \cup {NoResponse}

Start == [pc |-> "connect", attempts |-> 0]

Init ==
    /\ BridgeInit /\ GatewayInit
    /\ main = Start
    /\ cli = "off"
    /\ handlers = "none"
    /\ response = NoResponse

-----------------------------------------------------------------------------
(* What arrives while nobody waits for a VIN is cleared, by the next
   sendRequest(), before anybody looks at its content.                       *)
Awaited == main.pc = "wait" \/ cli = "wait"

(* A response runs the handler registered last for its method: the bridge's,
   which logs it, or from init() on the CLI's.  GetVin has a handler only once
   main has registered it, together with the CLI's.                          *)
OnResponse ==
    /\ socket /\ uplink # <<>> /\ Head(uplink).kind \in Methods
    /\ uplink' = Tail(uplink)
    /\ response' = IF handlers = "cli" /\ Awaited THEN Head(uplink) ELSE response
    /\ UNCHANGED <<store, streams, mutex, socket, downlink, mcu, inputs, reported,
                   requested, lost, gatewayVars, main, cli, handlers>>

(* Cli::sendRequest() clears what it has and sends. *)
SendRequest(method) ==
    /\ response' = NoResponse
    /\ Send([method |-> method, value |-> "unlocked", live |-> TRUE])
    /\ UNCHANGED <<store, streams, mutex, socket, uplink, mcu, reported, requested>>

(* The VIN in a response: any response will do, whatever was asked.  The byte
   of Lock's payload is a VIN, the 0 of Unlock's is trimmed away.            *)
VinIn(r) == CASE ~r.ok \/ r.value = "unlocked" -> ""
              [] r.ok /\ r.value = "locked"    -> "x01"
              [] OTHER                         -> r.value

Main(pc) == main' = [main EXCEPT !.pc = pc]

Connect ==
    /\ main.pc = "connect" /\ Main("bridge")
    /\ socket' = TRUE
    /\ UNCHANGED <<store, streams, mutex, uplink, downlink, mcu, inputs, reported,
                   requested, lost, gatewayVars, cli, handlers, response>>

(* SomeIpKuksaBridge::init(). *)
InitBridge ==
    /\ main.pc = "bridge" /\ mutex = None /\ Main("cli")
    /\ handlers' = "bridge"
    /\ streams' = [streams EXCEPT !["command"] = Subscribed("command")]
    /\ UNCHANGED <<store, mutex, socket, uplink, downlink, mcu, inputs, reported,
                   requested, lost, gatewayVars, cli, response>>

InitCli ==
    /\ main.pc = "cli" /\ Main("ask")
    /\ handlers' = "cli"
    /\ UNCHANGED <<bridgeVars, gatewayVars, cli, response>>

Ask ==
    /\ main.pc = "ask"
    /\ main' = [pc |-> "wait", attempts |-> main.attempts + 1]
    /\ SendRequest("getVin")
    /\ UNCHANGED <<inputs, gatewayVars, cli, handlers>>

(* The loop's counter ends with it. *)
NextAttempt == IF main.attempts < MaxAttempts THEN [main EXCEPT !.pc = "ask"]
                                              ELSE [pc |-> "gateway", attempts |-> 0]

(* A response, whichever, or the two seconds are over. *)
TakeVin ==
    /\ main.pc = "wait"
    /\ IF response # NoResponse /\ VinIn(response) # ""
       THEN vin' = VinIn(response) /\ main' = [pc |-> "gateway", attempts |-> 0]
       ELSE vin' = vin /\ main' = NextAttempt
    /\ response' = NoResponse
    /\ UNCHANGED <<bridgeVars, connected, held, commands, app, overtaken, cli, handlers>>

(* CloudGatewayClient::init(); connect() may fail, and then no more is done.  *)
InitGateway ==
    /\ main.pc = "gateway" /\ mutex = None /\ Main("subscribe")
    /\ \/ /\ connected' = TRUE
          /\ streams' = [streams EXCEPT !["locked"] = Subscribed("locked")]
       \/ UNCHANGED <<connected, streams>>
    /\ UNCHANGED <<store, mutex, socket, uplink, downlink, mcu, inputs, reported,
                   requested, lost, vin, held, commands, app, overtaken,
                   cli, handlers, response>>

(* vehicles.<VIN>.info.vin goes out, and the subscription to Vehicle.VIN waits
   for a callback that has mutex_ (ReadVin is its own callback).  The next is
   publishCurrentState().                                                    *)
SubscribeVin ==
    /\ main.pc = "subscribe" /\ mutex = None /\ Main("publish")
    /\ streams' = [streams EXCEPT !["vin"] = Subscribed("vin")]
    /\ held' = [held EXCEPT !["main"].step = "get"]
    /\ UNCHANGED <<store, mutex, socket, uplink, downlink, mcu, inputs, reported,
                   requested, lost, connected, vin, commands, app, overtaken, cli,
                   handlers, response>>

StartCli ==
    /\ main.pc = "publish" /\ held["main"] = Idle
    /\ Main("running") /\ cli' = "idle"
    /\ UNCHANGED <<bridgeVars, gatewayVars, handlers, response>>

-----------------------------------------------------------------------------
(* The command line's thread. *)

Status ==
    /\ cli = "idle" /\ cli' = "wait" /\ Terminal /\ Input
    /\ SendRequest("getVin")
    /\ UNCHANGED <<gatewayVars, main, handlers>>

(* cmdStatus() passes the VIN on to updateVin(). *)
StatusVin ==
    /\ cli = "wait" /\ cli' = "update"
    /\ \/ /\ response # NoResponse /\ VinIn(response) # ""
          /\ updateVin("cli", VinIn(response))
       \/ /\ response = NoResponse \/ VinIn(response) = ""
          /\ UNCHANGED <<vin, held>>
    /\ response' = NoResponse
    /\ UNCHANGED <<bridgeVars, connected, commands, app, overtaken, main, handlers>>

(* The rest of cmdStatus(), one request for its four. *)
StatusRest ==
    /\ cli = "update" /\ held["cli"] = Idle /\ cli' = "other"
    /\ SendRequest("other")
    /\ UNCHANGED <<inputs, gatewayVars, main, handlers>>

(* `mode', `light', `door' and `speed'. *)
Command ==
    /\ cli = "idle" /\ cli' = "other" /\ Terminal /\ Input
    /\ SendRequest("other")
    /\ UNCHANGED <<gatewayVars, main, handlers>>

(* A response, whichever, or the two seconds are over; it is only printed. *)
CommandDone ==
    /\ cli = "other"
    /\ cli' = IF main.pc = "stopCli" THEN "ended" ELSE "idle"
    /\ UNCHANGED <<bridgeVars, gatewayVars, main, handlers, response>>

(* `quit', or linenoise() has no line: the user ended the input or, when the
   standard input is no terminal, there was none to begin with.              *)
EndOfInput ==
    /\ cli = "idle" /\ cli' = "ended"
    /\ IF Terminal THEN Input ELSE UNCHANGED inputs
    /\ UNCHANGED <<store, streams, mutex, socket, uplink, downlink, mcu, reported,
                   requested, lost, gatewayVars, main, handlers, response>>

-----------------------------------------------------------------------------
(* The end of main(). *)

(* SIGINT or SIGTERM; only the loop at the end of main() looks for it. *)
StopSignal ==
    /\ main.pc = "running" /\ Main("stopCli") /\ Input
    /\ UNCHANGED <<store, streams, mutex, socket, uplink, downlink, mcu, reported,
                   requested, lost, gatewayVars, cli, handlers, response>>

CliEnded ==
    /\ main.pc = "running" /\ cli = "ended" /\ Main("stopCli")
    /\ UNCHANGED <<bridgeVars, gatewayVars, cli, handlers, response>>

(* Cli::stop() joins the thread, which may be waiting for a line. *)
StopCli ==
    /\ main.pc = "stopCli" /\ cli = "ended" /\ Main("stopGateway")
    /\ UNCHANGED <<bridgeVars, gatewayVars, cli, handlers, response>>

StopGateway ==
    /\ main.pc = "stopGateway" /\ Main("stopSomeIp")
    /\ connected' = FALSE /\ commands' = <<>>
    /\ UNCHANGED <<bridgeVars, vin, held, app, overtaken, cli, handlers, response>>

(* LifecycleManager::shutdownAll(), after the bridge's empty shutdown(). *)
StopSomeIp ==
    /\ main.pc = "stopSomeIp" /\ Main("disconnect")
    /\ socket' = FALSE /\ uplink' = <<>> /\ lost' = TRUE
    /\ handlers' = "none"
    /\ UNCHANGED <<store, streams, mutex, downlink, mcu, inputs, reported,
                   requested, gatewayVars, cli, response>>

(* disconnect() joins the reader threads, callbacks and all. *)
Disconnect ==
    /\ main.pc = "disconnect" /\ mutex = None /\ Main("ended")
    /\ streams' = [s \in Signals |-> Off]
    /\ UNCHANGED <<store, mutex, socket, uplink, downlink, mcu, inputs, reported,
                   requested, lost, gatewayVars, cli, handlers, response>>

(* The process ends, whenever, and is started again: what the broker and the
   body ECU have stays, the new process has another UDP port.                *)
Restart ==
    /\ Input
    /\ main' = Start /\ cli' = "off" /\ handlers' = "none"
    /\ response' = NoResponse
    /\ streams' = [s \in Signals |-> Off] /\ mutex' = None
    /\ socket' = FALSE /\ uplink' = <<>>
    /\ downlink' = [i \in DOMAIN downlink |-> [downlink[i] EXCEPT !.live = FALSE]]
    /\ mcu' = [mcu EXCEPT !.known = FALSE]
    /\ reported' = None /\ requested' = None /\ lost' = FALSE
    /\ connected' = FALSE /\ vin' = "UNKNOWN" /\ commands' = <<>>
    /\ held' = [p \in Publishers |-> Idle] /\ overtaken' = FALSE
    /\ UNCHANGED <<store, app>>

Main_Steps == \/ Connect \/ InitBridge \/ InitCli \/ Ask \/ TakeVin
              \/ InitGateway \/ SubscribeVin \/ StartCli
              \/ CliEnded \/ StopCli \/ StopGateway \/ StopSomeIp \/ Disconnect

Next ==
    \/ BridgeNext /\ UNCHANGED <<gatewayVars, mainVars>>
    \/ GatewayNext /\ UNCHANGED mainVars
    \/ OnResponse
    \/ Main_Steps
    \/ Status \/ StatusVin \/ StatusRest \/ Command \/ CommandDone
    \/ EndOfInput \/ StopSignal
    \/ Restart

Spec == Init /\ [][Next]_vars

Publishes(p) == /\ Get(p) \/ PublishState(p)
                /\ UNCHANGED mainVars

(* The main thread runs when it can, the CLI thread's two-second waits end, and
   a publication, or a reader thread's callback, ends: gRPC's calls have a
   deadline and NATS buffers.  Nothing else is assumed to run: not the body
   ECU, the broker, the cloud or the user.                                   *)
FairSpec ==
    /\ Spec
    /\ WF_vars(Main_Steps)
    /\ WF_vars(StatusVin \/ StatusRest \/ CommandDone)
    /\ \A p \in Publishers : WF_vars(Publishes(p))

-----------------------------------------------------------------------------
Settled ==
    /\ main.pc = "running" /\ connected /\ streams["locked"].on
    /\ streams["locked"].queue = <<>>
    /\ \A p \in Publishers : held[p] = Idle
    /\ ~lost

(* What the driver sees is what the broker holds: once the startup is over and
   every reader and publisher is done, a companion app that missed no message
   shows the broker's lock state, whichever get() failed and whoever published
   meanwhile -- except, until a reader publishes again, when it last did so
   with another thread's older value still to come (PublishState).           *)
CloudAgrees == Settled /\ ~overtaken => app = store["locked"]

(* The main thread never gets stuck on its way up or down, whatever the body
   ECU, the cloud and the network do: each of its waits -- for answers, for the
   readers' mutex_, for the CLI and reader threads to end -- is over some time.
   The one that need not be is Cli::stop()'s, when the CLI reads from a
   terminal and nobody types.                                                *)
MainNeverStuck ==
    []<>(main.pc \in {"running", "ended"} \/ (main.pc = "stopCli" /\ cli = "idle"))

(* .specs/prd.md: "Subjects follow the pattern `vehicles.{vin}.{action}`".
   The VIN under which the gateway publishes is the vehicle's, or UNKNOWN.   *)
VinIsTheVehicles == vin \in {Vin, "UNKNOWN"}

=============================================================================
