------------------------------- MODULE McuBoot -------------------------------
(* The two main programs of the body ECU, app/src/main.cpp (Zephyr) and
   platforms/posix/src/app.cpp: which components there are on which hardware,
   what stands in for those that are missing, and the start of the rest in
   run levels, with SOME/IP requests and CAN frames arriving in between.

   The lifecycle manager is OpenBSW's and not part of the repository.  Whether
   transitionToLevel() returns at once, leaving the transition to the task
   TASK_SYSADMIN, or when all calls have been made, is left open (async).    *)
EXTENDS Lifecycle

VARIABLES platform,    \* "zephyr" or "posix"
          hw,          \* what the start finds: silicon, GPIO, ADC, CAN
          async,       \* transitionToLevel() returns at once
          main,        \* where main() is
          todo,        \* the lifecycle manager's calls still to be made
          stuck,       \* stages with a component that has not called transitionDone()
          methods,     \* SomeIpSystem::methods_: whose handler
          events,      \* SomeIpSystem::events_: services with an event
          offered,     \* services that discovery offers
          transport,   \* the SOME/IP transport: down, up, failed
          rxCallbacks, \* the CAN adapter's callbacks
          receiving,   \* its filter is set, its thread runs; or failed
          diagnosed,   \* the diagnostic transports have their handler
          swState,     \* sw_state of the software-only door lock
          answer,      \* the last request and who answered it
          published    \* the last event the software-only door lock sent

vars == <<platform, hw, async, main, todo, stuck, methods, events, offered,
          transport, rxCallbacks, receiving, diagnosed, swState, answer, published>>
boardVars == <<platform, hw, async>>
someipVars == <<methods, events, offered, transport>>
canVars == <<rxCallbacks, receiving>>
lockVars == <<swState, answer, published>>

Zephyr == platform = "zephyr"

(* Methods by what they are about; each stands for all of its service's. *)
Methods == {"lock", "lights", "mode", "speed", "vin"}
Callbacks == {"gateway", "docan"}
None == "none"
NoEvent == [service |-> None, old |-> None, new |-> None]

(* On POSIX the GPIO and the ADC are simulated and never fail. *)
Hardware == [real : BOOLEAN, gpio : BOOLEAN, adc : BOOLEAN, can : BOOLEAN]
MayFind(h) ==
    IF Zephyr THEN h.can ELSE h.real /\ h.gpio /\ h.adc

HasLights == hw.gpio
HasDoor == hw.gpio
HasIgnition == hw.gpio
HasSpeed == hw.real /\ hw.adc

Init ==
    /\ platform \in {"zephyr", "posix"}
    /\ hw \in {h \in Hardware : MayFind(h)}
    /\ async \in BOOLEAN
    /\ main = "stubs"
    /\ todo = {} /\ stuck = {}
    /\ methods = [m \in Methods |-> IF m = "vin" /\ Zephyr THEN "main" ELSE None]
    /\ events = IF Zephyr THEN {"vin"} ELSE {}
    /\ offered = {}
    /\ transport = "down"
    /\ rxCallbacks = {} /\ receiving = "no"
    /\ diagnosed = FALSE
    /\ swState = "Unlocked"
    /\ answer = [method |-> None, by |-> None]
    /\ published = NoEvent

-----------------------------------------------------------------------------
(* main(): the components that are there, in the order of addComponent(). *)
If(there, name, place, level) == IF there THEN {Added(name, place, level)} ELSE {}

Level2 ==
    If(HasLights, "lighting", 2, 2) \cup If(HasDoor, "door_lock", 3, 2)
    \cup If(TRUE, "vehicle_mode", 4, 2) \cup If(HasIgnition, "ignition", 5, 2)
    \cup If(HasSpeed, "speed_sim", 6, 2)

(* Mistake: the transports in the order in which diagnostics gets them. *)
Components_TransportsFirst ==
    If(TRUE, "someip", 1, 1) \cup Level2 \cup If(hw.can, "can_gateway", 7, 3)
    \cup If(hw.can, "docan", 8, 3)
    \cup {Added("doip", 9, 3), Added("diagnostics", 10, 3)}

Components ==
    If(TRUE, "someip", 1, 1) \cup Level2 \cup
    IF Zephyr
    THEN {Added("can_gateway", 7, 3), Added("docan", 8, 3),
          Added("diagnostics", 9, 3), Added("doip", 10, 3)}
    ELSE If(hw.can, "can_gateway", 7, 3)
         \cup {Added("diagnostics", 8, 3), Added("doip", 9, 3)}
         \cup If(hw.can, "docan", 10, 3)

TypeOK ==
    /\ platform \in {"zephyr", "posix"} /\ hw \in Hardware /\ async \in BOOLEAN
    /\ main \in {"stubs", "transition", "receive", "vin", "running"}
    /\ todo \subseteq Startup(Components, 3)
    /\ stuck \subseteq (1..3) \X {"init", "run"}
    /\ methods \in [Methods -> {None, "lighting", "door_lock", "software",
                                "vehicle_mode", "speed_sim", "can_gateway", "main"}]
    /\ events \subseteq {"lock", "lights", "mode", "speed", "vin"}
    /\ offered \subseteq {"lock", "lights", "mode", "speed", "vin"}
    /\ transport \in {"down", "up", "failed"}
    /\ rxCallbacks \subseteq Callbacks
    /\ receiving \in {"no", "yes", "failed"}
    /\ diagnosed \in BOOLEAN
    /\ swState \in {"Locked", "Unlocked"}

(* Mistake: a board without GPIO gets no speed handlers either way. *)
RegisterStubs_AdcOnly ==
    /\ main = "stubs" /\ main' = "transition"
    /\ LET missing == (IF Zephyr /\ ~hw.gpio THEN {"lock"} ELSE {})
                        \cup (IF Zephyr /\ ~hw.adc THEN {"speed"} ELSE {})
       IN  /\ methods' = [m \in Methods |-> IF m \in missing THEN "software"
                                                             ELSE methods[m]]
           /\ events' = events \cup missing
    /\ UNCHANGED <<boardVars, todo, stuck, offered, transport, canVars, diagnosed, lockVars>>

(* Handlers in software for the door lock and the speed where the component is
   missing.                                                                  *)
RegisterStubs ==
    /\ main = "stubs" /\ main' = "transition"
    /\ LET missing == (IF Zephyr /\ ~HasDoor THEN {"lock"} ELSE {})
                        \cup (IF Zephyr /\ ~HasSpeed THEN {"speed"} ELSE {})
       IN  /\ methods' = [m \in Methods |-> IF m \in missing THEN "software"
                                                             ELSE methods[m]]
           /\ events' = events \cup missing
    /\ UNCHANGED <<boardVars, todo, stuck, offered, transport, canVars, diagnosed, lockVars>>

(* lifecycleManager.transitionToLevel(). *)
Transition ==
    /\ main = "transition" /\ main' = "receive"
    /\ todo' = Startup(Components, 3)
    /\ UNCHANGED <<boardVars, stuck, someipVars, canVars, diagnosed, lockVars>>

Returned == async \/ todo = {}

(* can_adapter.startReceiving(), which POSIX does not need. *)
StartReceiving ==
    /\ main = "receive" /\ Returned /\ main' = "vin"
    /\ IF Zephyr /\ receiving # "yes" THEN receiving' \in {"yes", "failed"}
                                      ELSE UNCHANGED receiving
    /\ UNCHANGED <<boardVars, todo, stuck, someipVars, rxCallbacks, diagnosed, lockVars>>

(* The VIN event, whose clients are not modelled here; then the scheduler. *)
AnnounceVin ==
    /\ main = "vin" /\ main' = "running"
    /\ UNCHANGED <<boardVars, todo, stuck, someipVars, canVars, diagnosed, lockVars>>

-----------------------------------------------------------------------------
(* The lifecycle manager makes its next call.  The components call
   transitionDone() before they return, with the exceptions below.           *)
Next1(name, op) ==
    /\ \E call \in todo : /\ call.component.name = name /\ call.op = op
                         /\ MayCall(call, todo, stuck)
                         /\ todo' = todo \ {call}
    /\ UNCHANGED <<boardVars, main, lockVars>>

Unreported(level, op) == stuck' = stuck \cup {<<level, op>>}

Registers(name, op, m) ==
    /\ Next1(name, op)
    /\ methods' = [methods EXCEPT ![m] = name]
    /\ events' = events \cup {m}
    /\ UNCHANGED <<stuck, offered, transport, canVars, diagnosed>>

Service == \/ Registers("lighting", "init", "lights")
           \/ Registers("door_lock", "init", "lock")
           \/ Registers("vehicle_mode", "init", "mode")
           \/ Registers("speed_sim", "init", "speed")

(* Calls that change nothing modelled here. *)
Quiet ==
    /\ \/ \E name \in {"ignition", "can_gateway", "someip"} : Next1(name, "init")
       \/ \E name \in {"lighting", "door_lock", "vehicle_mode", "ignition",
                       "speed_sim", "diagnostics"} : Next1(name, "run")
    /\ UNCHANGED <<stuck, someipVars, canVars, diagnosed>>

(* Mistake: discovery that fails ends run() early. *)
RunSomeIp_SdFailureEnds ==
    /\ Next1("someip", "run")
    /\ \/ transport' = "up" /\ offered' = {"lock"} \cup events /\ UNCHANGED stuck
       \/ transport' = "up" /\ offered' = {} /\ Unreported(1, "run")
       \/ transport' = "failed" /\ Unreported(1, "run") /\ UNCHANGED offered
    /\ UNCHANGED <<methods, events, canVars, diagnosed>>

(* SomeIpSystem::run() and initSd(): discovery, where it is enabled and starts,
   offers the door lock and every event registered by then.                  *)
RunSomeIp ==
    /\ Next1("someip", "run")
    /\ \/ /\ transport' = "up" /\ UNCHANGED stuck
          /\ offered' \in {{}} \cup (IF ~Zephyr \/ hw.real THEN {{"lock"} \cup events}
                                                         ELSE {})
       \/ transport' = "failed" /\ Unreported(1, "run") /\ UNCHANGED offered
    /\ UNCHANGED <<methods, events, canVars, diagnosed>>

(* addRxCallback(): too late on Zephyr once the filter is set; on POSIX the
   first call starts the thread, and no call restarts it.                    *)
AddRxCallback(name) ==
    IF Zephyr
    THEN /\ rxCallbacks' = IF receiving = "yes" THEN rxCallbacks
                                                ELSE rxCallbacks \cup {name}
         /\ UNCHANGED receiving
    ELSE /\ rxCallbacks' = rxCallbacks \cup {name}
         /\ receiving' = IF receiving = "no" THEN "yes" ELSE receiving

(* CanGateway::start(), on POSIX with the mapping of the light's method. *)
RunGateway ==
    /\ Next1("can_gateway", "run")
    /\ methods' = IF Zephyr THEN methods ELSE [methods EXCEPT !["lights"] = "can_gateway"]
    /\ events' = events \cup {"lock"}
    /\ AddRxCallback("gateway")
    /\ UNCHANGED <<stuck, offered, transport, diagnosed>>

InitDoCan ==
    /\ Next1("docan", "init")
    /\ AddRxCallback("docan")
    /\ UNCHANGED <<stuck, someipVars, diagnosed>>

InitDiagnostics ==
    /\ Next1("diagnostics", "init")
    /\ diagnosed' = TRUE
    /\ UNCHANGED <<stuck, someipVars, canVars>>

(* DoIpTransport::init(): without a socket it returns before it reports. *)
InitDoIp ==
    /\ Next1("doip", "init")
    /\ \/ UNCHANGED stuck
       \/ ~Zephyr /\ Unreported(3, "init")
    /\ UNCHANGED <<someipVars, canVars, diagnosed>>

(* The run() of both diagnostic transports is empty and never reports: the
   transition does not end for a manager that waits for them.                *)
RunTransport ==
    /\ \E name \in {"doip", "docan"} : Next1(name, "run")
    /\ Unreported(3, "run")
    /\ UNCHANGED <<someipVars, canVars, diagnosed>>

LifecycleStep ==
    \/ Service \/ Quiet \/ RunSomeIp \/ RunGateway \/ InitDoCan
    \/ InitDiagnostics \/ InitDoIp \/ RunTransport

-----------------------------------------------------------------------------
(* A request reaches dispatch(). *)
Request(m) ==
    /\ transport = "up" /\ m # "lock"
    /\ answer' = [method |-> m, by |-> methods[m]]
    /\ UNCHANGED <<boardVars, main, todo, stuck, someipVars, canVars, diagnosed,
                   swState, published>>

(* Lock and Unlock.  The software handlers always succeed, and send an event
   whether or not anything changed.  They take its service and event number
   from cfg, a variable of the block that registered them; the block has ended
   by then, and what is read there may be anything.                          *)
LockRequest(want) ==
    /\ transport = "up"
    /\ answer' = [method |-> "lock", by |-> methods["lock"]]
    /\ IF methods["lock"] = "software"
       THEN /\ swState' = want
            /\ published' \in [service : {"lock", "garbage"}, old : {swState}, new : {want}]
       ELSE UNCHANGED <<swState, published>>
    /\ UNCHANGED <<boardVars, main, todo, stuck, someipVars, canVars, diagnosed>>

(* The receive thread's read() fails, and the thread ends. *)
RxFails ==
    /\ ~Zephyr /\ receiving = "yes"
    /\ receiving' = "failed"
    /\ UNCHANGED <<boardVars, main, todo, stuck, someipVars, rxCallbacks,
                   diagnosed, lockVars>>

-----------------------------------------------------------------------------
Main == RegisterStubs \/ Transition \/ StartReceiving \/ AnnounceVin

Next ==
    \/ Main \/ LifecycleStep
    \/ \E m \in Methods : Request(m)
    \/ \E want \in {"Locked", "Unlocked"} : LockRequest(want)
    \/ RxFails

Spec == Init /\ [][Next]_vars

(* main() and the task of the lifecycle manager run. *)
FairSpec == Spec /\ WF_vars(Main) /\ WF_vars(LifecycleStep)

-----------------------------------------------------------------------------
(* Properties. *)

Started == main \notin {"stubs", "transition"} /\ todo = {}

(* Who answers once the start is over, whatever hardware it found: the lock,
   the mode and the speed always have somebody, the component where its
   hardware is there and what stands in for it otherwise; the lights have
   nobody without a GPIO, and the VIN has a handler on Zephyr only.  The
   decisions are taken in four places, before and after the components are
   made, and each method registered later replaces an earlier one.           *)
EveryHardwareServes ==
    Started => /\ methods["lock"] = IF HasDoor THEN "door_lock" ELSE "software"
               /\ methods["speed"] = IF HasSpeed THEN "speed_sim" ELSE "software"
               /\ methods["mode"] = "vehicle_mode"
               /\ methods["lights"] = None <=> (~HasLights)
               /\ methods["vin"] = IF Zephyr THEN "main" ELSE None

(* The gateway, which turns CAN frames into requests, never hears the bus alone:
   wherever it does, on either platform and however much of a transition the
   start of the receiver finds undone, the diagnosis hears the bus too and has
   its handler.  On Zephyr, where a callback that comes after the filter is
   refused, and on POSIX, where the first callback starts the thread, this
   rests on the order of the stages and not on that of the components.       *)
DiagnosisHearsFirst ==
    "gateway" \in rxCallbacks => rxCallbacks = Callbacks /\ diagnosed

(* No frame reaches the diagnosis before its handler is set: the handler is
   read without a lock.  POSIX starts its receiver in the middle of the start
   and owes this to the order in which the components were added; Zephyr owes
   it to startReceiving(), if the transition is over by then.                *)
HandlerBeforeFrames ==
    receiving = "yes" /\ "docan" \in rxCallbacks /\ ~(Zephyr /\ async) => diagnosed

(* The start makes all of its calls, or is held up by a socket that could not
   be had: what discovery or the CAN bus does never holds it up.             *)
StartEnds ==
    (main = "receive") ~> \/ Started /\ main = "running"
                          \/ transport = "failed"
                          \/ <<3, "init">> \in stuck

(* libs/body/door-lock/README.md: "LockStateChanged | 0x8001 | Event published
   on state transitions".  A door lock without hardware sends that event too. *)
SoftwareLockPublishes == published # NoEvent => published.service = "lock"

=============================================================================
