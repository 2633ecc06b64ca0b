------------------------------ MODULE BodyEcu ------------------------------
(* The body domain of the MCU: the controllers wired together as
   app/src/main.cpp and platforms/posix/src/app.cpp wire them, with every
   handler run to completion before the next one starts, which is what
   VehicleModeManager.h asks of its callers and what Zephyr's cooperative
   threads give.  One setMode() is one step with all its observers in it, in
   the order they were added: lighting, door lock, speed simulator.         *)
EXTENDS VehicleMode, DoorLock, Lighting, SpeedSimulator

CONSTANTS Wired,          \* optional inputs that are connected, see Inputs
          SpeedRequests,  \* payloads of SetSpeed
          AdcSamples,     \* readings of the potentiometer, as speeds
          CanFrames       \* contents of CAN frames 0x300, as lock events

(* Neither main connects the door's button (NullButtonInput), nor a second
   client of the signal bus, nor anything that calls setError(); no timer
   service of the two can fail with the two timers in use.  The controllers
   handle all four.  "canGateway" is app.cpp's gateway, with its two mappings;
   it is there when the CAN interface is.                                   *)
Inputs == {"doorButton", "busClients", "doorFaults", "timerFaults", "canGateway"}

ASSUME BodyAssumption ==
    /\ Wired \subseteq Inputs
    /\ SpeedRequests \subseteq Int
    /\ AdcSamples \subseteq Speeds \cup {Failed}
    /\ CanFrames \subseteq [old : LockStates, new : LockStates]

VARIABLES boot,           \* components of run levels 2 and 3 started so far
          cranking,       \* IgnitionController::cranking_
          crankTimer      \* the crank's one-shot timer is pending

bodyVars == <<mode, modeEvent, lockState, doorEvent, busIsLocked, lights,
              lightEvent, gpio, spdMode, speed, smoothed, override, lastSent,
              speedEvent, ticking, busSpeed>>
vars == <<bodyVars, busIsOpen, busResponse, reply, boot, cranking, crankTimer>>

(* The order of run level 2, and the gateway of run level 3. *)
LightingUp == boot >= 1
DoorUp     == boot >= 2
ModeUp     == boot >= 3
IgnitionUp == boot >= 4
SpeedUp    == boot >= 5
GatewayUp  == boot >= 6

TypeOK ==
    /\ SignalsTypeOK /\ ModeTypeOK /\ DoorTypeOK /\ LightTypeOK /\ SpeedTypeOK
    /\ boot \in 0..6
    /\ cranking \in BOOLEAN
    /\ crankTimer \in BOOLEAN

Init ==
    /\ SignalsInit /\ ModeInit /\ DoorInit /\ LightInit /\ SpeedInit
    /\ boot = 0
    /\ cranking = FALSE
    /\ crankTimer = FALSE

-----------------------------------------------------------------------------
(* setMode() past its two early returns.  The door lock is notified before
   the simulator and therefore reads the speed of the old mode.             *)
Enter(new) ==
    /\ StoreMode(new)
    /\ \/ new = "Off" /\ AllLightsOff /\ UNCHANGED doorVars
       \/ new = "Run" /\ AutoLock /\ UNCHANGED lightVars
       \/ new \notin {"Off", "Run"} /\ UNCHANGED <<gpio, doorVars, lightVars>>
    /\ SpeedOnMode(new)

SetMode(new) ==
    IF new # mode /\ IsValidTransition(mode, new)
    THEN Enter(new)
    ELSE UNCHANGED <<bodyVars, busResponse>>

-----------------------------------------------------------------------------
(* Boot: init() of each component in turn.  Requests for the components
   already initialised may arrive in between.                              *)
InitQuietly ==
    /\ boot \in 0..2
    /\ boot' = boot + 1
    /\ UNCHANGED <<bodyVars, busIsOpen, busResponse, reply, cranking, crankTimer>>

IgnitionInit ==
    /\ boot = 3 /\ boot' = 4
    /\ IF mode = "Off" THEN SetMode("Accessory")
                       ELSE UNCHANGED <<bodyVars, busResponse>>
    /\ UNCHANGED <<busIsOpen, reply, cranking, crankTimer>>

SpeedSimInit ==
    /\ boot = 4 /\ boot' = 5
    /\ ticking' \in {TRUE} \cup (IF "timerFaults" \in Wired THEN {FALSE} ELSE {})
    /\ UNCHANGED <<mode, modeEvent, doorVars, lightVars, gpio, spdMode, speed,
                   smoothed, override, lastSent, speedEvent, busSpeed,
                   busIsOpen, reply, cranking, crankTimer>>

(* CanGateway::start(): the method SetLightState, which the lighting controller
   has registered, becomes the gateway's.                                   *)
StartGateway ==
    /\ "canGateway" \in Wired
    /\ boot = 5 /\ boot' = 6
    /\ UNCHANGED <<bodyVars, busIsOpen, busResponse, reply, cranking, crankTimer>>

-----------------------------------------------------------------------------
(* The ignition button.  A press is ignored while cranking, in Off and Crank,
   and in Run while the vehicle moves.                                      *)
StartCrank ==
    /\ IgnitionUp /\ ~cranking /\ mode = "Accessory"
    /\ Enter("Crank")
    /\ cranking' = TRUE /\ crankTimer' = TRUE
    /\ UNCHANGED <<busIsOpen, reply, boot>>

(* startOneShot() fails: the controller enters Crank and goes straight back,
   so the observers see both modes and the subscribers last see Accessory.  *)
CrankWithoutTimer ==
    /\ "timerFaults" \in Wired
    /\ IgnitionUp /\ ~cranking /\ mode = "Accessory"
    /\ StoreMode("Accessory")
    /\ SpeedOnMode("Accessory")
    /\ UNCHANGED <<doorVars, lightVars, gpio, busIsOpen, reply, boot,
                   cranking, crankTimer>>

(* Mistake: the interlock's speed limit is used. *)
SwitchOff_Rolling ==
    /\ IgnitionUp /\ ~cranking /\ mode = "Run" /\ busSpeed <= 5
    /\ Enter("Accessory")
    /\ UNCHANGED <<busIsOpen, reply, boot, cranking, crankTimer>>

SwitchOff ==
    /\ IgnitionUp /\ ~cranking /\ mode = "Run" /\ busSpeed <= 0
    /\ Enter("Accessory")
    /\ UNCHANGED <<busIsOpen, reply, boot, cranking, crankTimer>>

IgnitionButton == StartCrank \/ CrankWithoutTimer \/ SwitchOff

(* Mistake: cranking_ is cleared only when the vehicle did get to Run. *)
CrankTimer_OnSuccess ==
    /\ crankTimer
    /\ SetMode("Run")
    /\ cranking' = ~IsValidTransition(mode, "Run") /\ crankTimer' = FALSE
    /\ UNCHANGED <<busIsOpen, reply, boot>>

(* The crank timer runs out; its callback does not look at the mode. *)
CrankTimer ==
    /\ crankTimer
    /\ SetMode("Run")
    /\ cranking' = FALSE /\ crankTimer' = FALSE
    /\ UNCHANGED <<busIsOpen, reply, boot>>

-----------------------------------------------------------------------------
(* Requests of SOME/IP clients. *)
SetModeRequest(new) ==
    /\ ModeUp
    /\ reply' = IF IsValidTransition(mode, new) THEN OK ELSE NOK
    /\ SetMode(new)
    /\ UNCHANGED <<busIsOpen, boot, cranking, crankTimer>>

LockRequest(want) ==
    /\ DoorUp
    /\ HandleLock(want)
    /\ UNCHANGED <<modeVars, lightVars, speedVars, busSpeed, busIsOpen, boot,
                   cranking, crankTimer>>

LightRequest(id, level) ==
    /\ LightingUp /\ ~GatewayUp
    /\ HandleSetLightState(id, level)
    /\ UNCHANGED <<modeVars, doorVars, speedVars, busSpeed, busIsOpen, boot,
                   cranking, crankTimer>>

(* The gateway accepts the request, whatever it says, and puts it on the CAN
   bus; what listens there is not the lighting controller.                  *)
GatewayLightRequest ==
    /\ GatewayUp
    /\ reply' = OK
    /\ UNCHANGED <<bodyVars, busIsOpen, busResponse, boot, cranking, crankTimer>>

(* A CAN frame 0x300 is sent on as the door lock's event LockStateChanged. *)
CanDoorStatus(event) ==
    /\ GatewayUp
    /\ doorEvent' = event
    /\ UNCHANGED <<modeVars, lockState, busIsLocked, busResponse, lightVars, gpio,
                   speedVars, busSpeed, busIsOpen, reply, boot, cranking, crankTimer>>

SpeedRequest(v) ==
    /\ SpeedUp
    /\ HandleSetSpeed(v)
    /\ UNCHANGED <<modeVars, doorVars, lightVars, gpio, busSpeed, busIsOpen,
                   boot, cranking, crankTimer>>

ShortSpeedRequest ==
    /\ SpeedUp
    /\ HandleShortSetSpeed
    /\ UNCHANGED <<modeVars, doorVars, lightVars, gpio, busSpeed, busIsOpen,
                   boot, cranking, crankTimer>>

(* The 100 ms timer. *)
SpeedTick(sample) ==
    /\ OnTimerTick(sample)
    /\ UNCHANGED <<modeVars, doorVars, lightVars, gpio, busIsOpen, reply, boot,
                   cranking, crankTimer>>

-----------------------------------------------------------------------------
(* The inputs that may be left unconnected. *)
DoorButtonPress ==
    /\ "doorButton" \in Wired /\ DoorUp
    /\ DoorButton
    /\ UNCHANGED <<modeVars, lightVars, speedVars, busSpeed, busIsOpen, reply,
                   boot, cranking, crankTimer>>

CommandSignal(want) ==
    /\ "busClients" \in Wired /\ DoorUp
    /\ OnCommandSignal(want)
    /\ UNCHANGED <<modeVars, lightVars, speedVars, busSpeed, busIsOpen, boot,
                   cranking, crankTimer>>

DoorSensor(position) ==
    /\ "busClients" \in Wired
    /\ busIsOpen' = position
    /\ UNCHANGED <<bodyVars, busResponse, reply, boot, cranking, crankTimer>>

DoorFault ==
    /\ "doorFaults" \in Wired
    /\ SetError
    /\ UNCHANGED <<modeVars, lightVars, speedVars, busSpeed, busIsOpen, reply,
                   boot, cranking, crankTimer>>

-----------------------------------------------------------------------------
Next ==
    \/ InitQuietly \/ IgnitionInit \/ SpeedSimInit \/ StartGateway
    \/ IgnitionButton \/ CrankTimer
    \/ \E new \in Modes \cup {"unknown"} : SetModeRequest(new)
    \/ \E want \in Targets : LockRequest(want)
    \/ \E id \in 0..kLightCount, level \in {Low, High} : LightRequest(id, level)
    \/ GatewayLightRequest
    \/ \E event \in CanFrames : CanDoorStatus(event)
    \/ (\E v \in SpeedRequests : SpeedRequest(v)) \/ ShortSpeedRequest
    \/ \E sample \in AdcSamples : SpeedTick(sample)
    \/ DoorButtonPress
    \/ \E want \in Targets : CommandSignal(want)
    \/ \E position \in {"open", "closed"} : DoorSensor(position)
    \/ DoorFault

Spec == Init /\ [][Next]_vars

(* The program's own timers run on; nobody has to press a button or send a
   request.                                                                *)
Fairness ==
    /\ WF_vars(CrankTimer)
    /\ WF_vars(\E sample \in AdcSamples : SpeedTick(sample))

FairSpec == Spec /\ Fairness

-----------------------------------------------------------------------------
(* Properties. *)

(* A subscriber that missed nothing knows the present state of every service:
   the last event each controller sent carries what it now holds, and what
   was never sent is still as it was at start.  The controllers compare with
   different things before they send (old state, last sent value), and a mode
   change makes several of them send.  Once the CAN gateway has started, the
   lock's event may come from it instead, with whatever a frame said.       *)
SubscribersCurrent ==
    /\ modeEvent = mode \/ (modeEvent = "none" /\ mode = "Off")
    /\ \/ doorEvent.new = lockState
       \/ doorEvent = NoEvent /\ lockState = "Unlocked"
       \/ GatewayUp
    /\ lightEvent = lights \/ (lightEvent = <<>> /\ lights = Dark)
    /\ speedEvent = speed \/ (speedEvent = Absent /\ speed = 0)

(* The vehicle moves only in Run, and the simulator's copy of the mode, the
   speed it serves and the speed on the bus agree about that.  The interlock
   and the ignition button read the bus, not the simulator.                 *)
MotionOnlyInRun ==
    /\ spdMode = mode
    /\ mode # "Run" => speed = 0 /\ busSpeed <= 0
    /\ busSpeed \in {Absent, speed}
    /\ busSpeed = Absent => speed = 0

(* The pin drives the bolt the way the state says, unless the lock is in Error
   or the pin is a lamp's too, as it is on the Zephyr board: there it shows the
   lock or that light, whichever was written last, and a light switched off may
   release a locked bolt.  The bus says "locked" exactly when the state is
   Locked, on every board.                                                  *)
ActuatorFollowsLock ==
    /\ lockState # "Error" =>
        \/ gpio[LockPin] = Level(lockState)
        \/ LockPin \in Lights /\ gpio[LockPin] = lights[LockPin]
    /\ busIsLocked = "locked" <=> lockState = "Locked"

(* Every lamp whose pin the lock does not drive shows the light the service
   reports: two of the three on the Zephyr board.                           *)
LampsShowLights == \A l \in Lights \ {LockPin} : gpio[l] = lights[l]

(* last_sent_speed_kmh_ starts at 0 although nothing was sent, and every
   handler leaves it equal to the current speed.                            *)
SentIsCurrent == lastSent = speed

(* While the button is ignored because of cranking_, the timer that ends the
   cranking is pending; a timer that never came leaves no cranking behind.  *)
CrankingHasTimer == cranking <=> crankTimer

(* The bolt moves only while the vehicle -- the simulator's own speed, not the
   bus's copy of it -- does at most the 5 km/h that checkSafetyConstraints()
   allows, and the door is not open.  (.specs/prd.md:136 asks for 0 km/h.)  *)
InterlockHolds ==
    [][lockState' # lockState /\ lockState' # "Error"
            => speed <= 5 /\ busIsOpen # "open"]_vars

(* Whatever takes the vehicle into Run, the door is then locked, unless the
   lock has failed or the door is open.  That the interlock's speed limit
   never refuses it rests on the speed being zero in every other mode.      *)
RunEntersLocked ==
    [][mode # "Run" /\ mode' = "Run"
            => lockState' = "Locked" \/ lockState = "Error" \/ busIsOpen = "open"]_vars

(* The ignition button never takes a moving vehicle out of Run. *)
ButtonKeepsMovingInRun ==
    [][IgnitionButton /\ mode = "Run" => speed = 0]_vars

(* A requester that gets code 0 got what it asked for, and any other code
   leaves the state it asked about as it was.  A light obeys as long as the
   lighting controller still has the method: the CAN gateway, once started,
   answers 0 and sets none.                                                 *)
AnswersTruthful ==
    [][/\ \A want \in Targets :
            /\ LockRequest(want) => (reply' = OK <=> lockState' = want)
            /\ LockRequest(want) => (reply' = NOK => lockState' = lockState)
            /\ CommandSignal(want) => (busResponse' = OK <=> lockState' = want)
       /\ \A new \in Modes : SetModeRequest(new) => (reply' = OK <=> mode' = new)
       /\ \A id \in 0..kLightCount, level \in {Low, High} : LightRequest(id, level) =>
            IF reply' = OK THEN lights' = [lights EXCEPT ![id] = level] /\ id \in Lights
                           ELSE UNCHANGED <<lights, gpio>>]_vars

(* The controllers together keep what BodyService promises: the mode, the
   speed, the bolt with its chain of events and its interlock, the door and the
   lights change as one vehicle's, although each controller holds a copy of
   its own and is told of the others' changes in turn.                       *)
Service == INSTANCE BodyService
    WITH AllLights <- Lights, TopSpeed <- MaxSpeed,
         lock <- lockState, told <- doorEvent, door <- busIsOpen,
         lit <- {l \in Lights : lights[l] = High},
         Relayed <- CanFrames

KeepsPromise == Service!Spec

(* Cranking ends. *)
CrankEnds == cranking ~> ~cranking

Near(a, b) == a - b \in -2..2

(* An override that is left alone in Run is what the vehicle drives. *)
OverrideTakesEffect ==
    \A v \in {AtMost(r, MaxSpeed) : r \in SpeedRequests} \ {Absent} :
        (ticking /\ mode = "Run" /\ override = v)
            ~> (~(mode = "Run" /\ override = v) \/ Near(speed, v))

=============================================================================
