---------------------------- MODULE BodyThreads ----------------------------
(* The handlers of the body domain one access to shared state at a time, for
   the threads they run in.  On POSIX the SOME/IP receive thread (requests)
   and the periodic timer's thread (the speed simulator's tick) call the
   controllers without a lock; StdinButtonAdapter::start() is called nowhere,
   so no button is ever pressed there and no crank timer started.  On the
   Zephyr board the button and both timers run as well, and a handler runs
   through before the next one starts.

   Lights and the door signal are left to BodyEcu: no other thread's handler
   depends on them.                                                          *)
EXTENDS Integers

CONSTANTS Platforms,     \* the builds to consider, of "posix" and "zephyr"
          MaxSpeed       \* max_speed_kmh: 200 in the code

ASSUME ThreadsAssumption ==
    /\ Platforms \subseteq {"posix", "zephyr"}
    /\ MaxSpeed \in Nat /\ MaxSpeed % 5 = 0 /\ MaxSpeed > 0

VARIABLES platform,      \* the build that runs; never changes
          mode,          \* VehicleModeManager::mode_
          lockState,     \* DoorLockController::state_
          spdMode,       \* SpeedSimulator::current_mode_
          speed,         \* SpeedSimulator::current_speed_kmh_
          lastSent,      \* SpeedSimulator::last_sent_speed_kmh_
          speedEvent,    \* last SpeedChanged payload a subscriber got
          busSpeed,      \* Vehicle.Speed
          cranking,      \* IgnitionController::cranking_
          crankTimer,    \* the one-shot timer is pending
          at             \* where each thread is, and its locals

simVars == <<spdMode, speed, lastSent, speedEvent>>
vars == <<platform, mode, lockState, simVars, busSpeed, cranking, crankTimer, at>>

(* The threads that exist, and whether a handler runs through before another
   starts.                                                                  *)
Threads == IF platform = "zephyr" THEN {"rx", "tick", "button", "crank"}
                                  ELSE {"rx", "tick"}
Cooperative == platform = "zephyr"

VM == INSTANCE VehicleMode WITH
        kLightCount <- 3, LockPin <- 10, modeEvent <- "none",
        busIsOpen <- "absent", gpio <- <<>>, reply <- 0

Speeds == {s \in 0..MaxSpeed : s % 5 = 0}

(* pc: the next step.  arg: the request.  val: the speed the thread holds in a
   register.                                                                *)
Idle == [pc |-> "idle", arg |-> "none", val |-> 0]
Goto(t, pc, arg) == at' = [at EXCEPT ![t].pc = pc, ![t].arg = arg]
GotoWith(t, pc, v) == at' = [at EXCEPT ![t].pc = pc, ![t].val = v]

TypeOK ==
    /\ platform \in Platforms
    /\ mode \in VM!Modes /\ spdMode \in VM!Modes
    /\ lockState \in {"Locked", "Unlocked"}
    /\ speed \in Speeds /\ lastSent \in Speeds
    /\ speedEvent \in Speeds /\ busSpeed \in Speeds
    /\ cranking \in BOOLEAN /\ crankTimer \in BOOLEAN

(* After boot, which ends in Accessory where there is a button. *)
Init ==
    /\ platform \in Platforms
    /\ mode = "Accessory" /\ spdMode = "Accessory"
    /\ lockState = "Unlocked"
    /\ speed = 0 /\ lastSent = 0 /\ speedEvent = 0 /\ busSpeed = 0
    /\ cranking = FALSE /\ crankTimer = FALSE
    /\ at = [t \in Threads |-> Idle]

MayRun(t) == Cooperative => \A u \in Threads \ {t} : at[u] = Idle

On(t, pc) == t \in Threads /\ at[t].pc = pc /\ MayRun(t)

-----------------------------------------------------------------------------
(* setMode(at[t].arg) in thread t.  A refused call and a call for the present
   mode return at once; the caller goes on at "accepted" or "refused".      *)
Check(t) ==
    /\ On(t, "setMode")
    /\ LET new == at[t].arg IN
       IF new # mode /\ VM!IsValidTransition(mode, new)
       THEN Goto(t, "store", new)
       ELSE Goto(t, IF new = mode THEN "accepted" ELSE "refused", new)
    /\ UNCHANGED <<mode, lockState, simVars, busSpeed, cranking, crankTimer>>

Store(t) ==
    /\ On(t, "store")
    /\ mode' = at[t].arg
    /\ Goto(t, IF at[t].arg = "Run" THEN "autoLock" ELSE "notify", at[t].arg)
    /\ UNCHANGED <<lockState, simVars, busSpeed, cranking, crankTimer>>

(* DoorLockController::onModeChanged(): lock() checks ... *)
AutoLock(t) ==
    /\ On(t, "autoLock")
    /\ Goto(t, IF lockState # "Locked" /\ busSpeed <= 5 THEN "autoActuate" ELSE "notify",
            "Run")
    /\ UNCHANGED <<mode, lockState, simVars, busSpeed, cranking, crankTimer>>

(* ... and acts. *)
AutoActuate(t) ==
    /\ On(t, "autoActuate")
    /\ lockState' = "Locked"
    /\ Goto(t, "notify", "Run")
    /\ UNCHANGED <<mode, simVars, busSpeed, cranking, crankTimer>>

(* SpeedSimulator::onModeChanged(). *)
Notify(t) ==
    /\ On(t, "notify")
    /\ spdMode' = at[t].arg
    /\ Goto(t, IF at[t].arg = "Run" THEN "accepted" ELSE "zero", at[t].arg)
    /\ UNCHANGED <<mode, lockState, speed, lastSent, speedEvent, busSpeed,
                   cranking, crankTimer>>

-----------------------------------------------------------------------------
(* The tick.  Outside Run it zeroes a speed that is not zero yet and sends
   that without looking at what was sent before.                            *)
Tick ==
    /\ On("tick", "idle")
    /\ \/ spdMode # "Run" /\ speed # 0 /\ Goto("tick", "zero", "stop")
       \/ spdMode # "Run" /\ speed = 0 /\ Goto("tick", "publish", "stop")
       \/ spdMode = "Run" /\ Goto("tick", "sample", "drive")
    /\ UNCHANGED <<mode, lockState, simVars, busSpeed, cranking, crankTimer>>

(* The override or the potentiometer gives the next speed; a failed reading
   ends the tick.                                                           *)
Sample(v) ==
    /\ On("tick", "sample")
    /\ speed' = v
    /\ GotoWith("tick", "compare", v)
    /\ UNCHANGED <<mode, lockState, spdMode, lastSent, speedEvent, busSpeed,
                   cranking, crankTimer>>

SampleFails ==
    /\ On("tick", "sample")
    /\ at' = [at EXCEPT !["tick"] = Idle]
    /\ UNCHANGED <<mode, lockState, simVars, busSpeed, cranking, crankTimer>>

(* Mistake: the tick outside Run leaves the speed. *)
Zero_TickKeeps(t) ==
    /\ On(t, "zero")
    /\ speed' = IF t = "tick" THEN speed ELSE 0
    /\ GotoWith(t, IF t = "tick" THEN "send" ELSE "compare", 0)
    /\ UNCHANGED <<mode, lockState, spdMode, lastSent, speedEvent, busSpeed,
                   cranking, crankTimer>>

(* The tick of a vehicle that must stop sends without comparing. *)
Zero(t) ==
    /\ On(t, "zero")
    /\ speed' = 0
    /\ GotoWith(t, IF t = "tick" THEN "send" ELSE "compare", 0)
    /\ UNCHANGED <<mode, lockState, spdMode, lastSent, speedEvent, busSpeed,
                   cranking, crankTimer>>

(* What an access to current_speed_kmh_ without a lock may give: the memory,
   or what the compiler kept since the thread's last access.  The code of the
   two stopping paths says 0.                                               *)
Seen(t) == {speed, at[t].val}
Driving(t) == at[t].arg = "drive"
Payload(t) == IF Driving(t) THEN Seen(t) ELSE {0}

(* last_sent_speed_kmh_ is set from memory: sendEvent() came in between. *)
Sent(t) == IF Driving(t) THEN speed ELSE 0

Compare(t) ==
    /\ On(t, "compare")
    /\ \E v \in Seen(t) : GotoWith(t, IF v # lastSent THEN "send" ELSE "publish", v)
    /\ UNCHANGED <<mode, lockState, simVars, busSpeed, cranking, crankTimer>>

Send(t) ==
    /\ On(t, "send")
    /\ speedEvent' \in Payload(t)
    /\ GotoWith(t, "remember", speedEvent')
    /\ UNCHANGED <<mode, lockState, spdMode, speed, lastSent, busSpeed,
                   cranking, crankTimer>>

(* Mistake: not remembered by a tick that stops the vehicle. *)
Remember_DrivingOnly(t) ==
    /\ On(t, "remember")
    /\ lastSent' = IF Driving(t) THEN speed ELSE lastSent
    /\ GotoWith(t, "publish", Sent(t))
    /\ UNCHANGED <<mode, lockState, spdMode, speed, speedEvent, busSpeed,
                   cranking, crankTimer>>

Remember(t) ==
    /\ On(t, "remember")
    /\ lastSent' = Sent(t)
    /\ GotoWith(t, "publish", Sent(t))
    /\ UNCHANGED <<mode, lockState, spdMode, speed, speedEvent, busSpeed,
                   cranking, crankTimer>>

(* Mistake: a mode change is not published on the bus. *)
Publish_TickOnly(t) ==
    /\ On(t, "publish")
    /\ busSpeed' \in IF t = "tick" THEN Payload(t) ELSE {busSpeed}
    /\ at' = [at EXCEPT ![t] = IF t = "tick" THEN Idle
                                ELSE [Idle EXCEPT !.pc = "accepted", !.arg = at[t].arg]]
    /\ UNCHANGED <<mode, lockState, simVars, cranking, crankTimer>>

Publish(t) ==
    /\ On(t, "publish")
    /\ busSpeed' \in Payload(t)
    /\ at' = [at EXCEPT ![t] = IF t = "tick" THEN Idle
                                ELSE [Idle EXCEPT !.pc = "accepted", !.arg = at[t].arg]]
    /\ UNCHANGED <<mode, lockState, simVars, cranking, crankTimer>>

-----------------------------------------------------------------------------
(* The SOME/IP receive thread: the mode's setter, Lock and Unlock. *)
Request(pc, arg) ==
    /\ On("rx", "idle")
    /\ Goto("rx", pc, arg)
    /\ UNCHANGED <<mode, lockState, simVars, busSpeed, cranking, crankTimer>>

(* Mistake: the speed limit is checked only to unlock. *)
LockChecks_UnlockOnly ==
    /\ On("rx", "lock")
    /\ IF lockState # at["rx"].arg /\ (at["rx"].arg = "Unlocked" => busSpeed <= 5)
       THEN Goto("rx", "actuate", at["rx"].arg)
       ELSE Goto("rx", IF lockState = at["rx"].arg THEN "accepted" ELSE "refused",
                 at["rx"].arg)
    /\ UNCHANGED <<mode, lockState, simVars, busSpeed, cranking, crankTimer>>

LockChecks ==
    /\ On("rx", "lock")
    /\ IF lockState # at["rx"].arg /\ busSpeed <= 5
       THEN Goto("rx", "actuate", at["rx"].arg)
       ELSE Goto("rx", IF lockState = at["rx"].arg THEN "accepted" ELSE "refused",
                 at["rx"].arg)
    /\ UNCHANGED <<mode, lockState, simVars, busSpeed, cranking, crankTimer>>

LockActs ==
    /\ On("rx", "actuate")
    /\ lockState' = at["rx"].arg
    /\ Goto("rx", "accepted", at["rx"].arg)
    /\ UNCHANGED <<mode, simVars, busSpeed, cranking, crankTimer>>

RequestDone ==
    /\ On("rx", "accepted") \/ On("rx", "refused")
    /\ at' = [at EXCEPT !["rx"] = Idle]
    /\ UNCHANGED <<mode, lockState, simVars, busSpeed, cranking, crankTimer>>

-----------------------------------------------------------------------------
(* The ignition button, and the crank timer's callback. *)
ButtonPress ==
    /\ On("button", "idle")
    /\ ~cranking
    /\ \/ mode = "Accessory" /\ Goto("button", "setMode", "Crank")
       \/ mode = "Run" /\ busSpeed <= 0 /\ Goto("button", "setMode", "Accessory")
    /\ UNCHANGED <<mode, lockState, simVars, busSpeed, cranking, crankTimer>>

(* startOneShot() cannot fail here: one crank at a time. *)
ButtonDone ==
    /\ On("button", "accepted") \/ On("button", "refused")
    /\ IF at["button"].pc = "accepted" /\ at["button"].arg = "Crank"
       THEN cranking' = TRUE /\ crankTimer' = TRUE
       ELSE UNCHANGED <<cranking, crankTimer>>
    /\ at' = [at EXCEPT !["button"] = Idle]
    /\ UNCHANGED <<mode, lockState, simVars, busSpeed>>

CrankTimer ==
    /\ On("crank", "idle") /\ crankTimer
    /\ crankTimer' = FALSE
    /\ Goto("crank", "setMode", "Run")
    /\ UNCHANGED <<mode, lockState, simVars, busSpeed, cranking>>

CrankDone ==
    /\ On("crank", "accepted") \/ On("crank", "refused")
    /\ cranking' = FALSE
    /\ at' = [at EXCEPT !["crank"] = Idle]
    /\ UNCHANGED <<mode, lockState, simVars, busSpeed, crankTimer>>

-----------------------------------------------------------------------------
SetModeStep(t) ==
    \/ Check(t) \/ Store(t) \/ AutoLock(t) \/ AutoActuate(t) \/ Notify(t)
    \/ Zero(t) \/ Compare(t) \/ Send(t) \/ Remember(t) \/ Publish(t)

RxStep == SetModeStep("rx") \/ LockChecks \/ LockActs \/ RequestDone
TickStep ==
    \/ Tick \/ (\E v \in Speeds : Sample(v)) \/ SampleFails
    \/ Zero("tick") \/ Compare("tick") \/ Send("tick") \/ Remember("tick")
    \/ Publish("tick")

Step ==
    \/ \E new \in VM!Modes : Request("setMode", new)
    \/ \E want \in {"Locked", "Unlocked"} : Request("lock", want)
    \/ RxStep
    \/ TickStep
    \/ ButtonPress \/ SetModeStep("button") \/ ButtonDone
    \/ CrankTimer \/ SetModeStep("crank") \/ CrankDone

Next == Step /\ UNCHANGED platform

Spec == Init /\ [][Next]_vars

(* A handler that has started is finished.  The periodic timer goes on: where
   handlers run through it has to wait for its turn (strong fairness), but the
   work queue that runs it is not starved.                                  *)
Started ==
    \/ SetModeStep("button") \/ ButtonDone
    \/ SetModeStep("crank") \/ CrankDone

FairSpec ==
    /\ Spec
    /\ WF_vars(RxStep /\ UNCHANGED platform)
    /\ SF_vars(TickStep /\ UNCHANGED platform)
    /\ WF_vars(Started /\ UNCHANGED platform)

-----------------------------------------------------------------------------
(* Properties. *)

(* Where handlers run through: with nothing under way the simulator's mode is
   the mode, the vehicle stands outside Run, and the bus and the subscribers
   know the speed.                                                          *)
QuietAgrees ==
    Cooperative /\ (\A t \in Threads : at[t] = Idle) =>
        /\ spdMode = mode
        /\ mode # "Run" => speed = 0
        /\ busSpeed = speed
        /\ speedEvent = speed /\ lastSent = speed

(* Where handlers run through: the bolt moves at no more than 5 km/h; the speed
   the check saw is still the speed when it acts.                           *)
MovesSlow == [][Cooperative => speed <= 5]_lockState

(* Where handlers run through: being in Run, the door was locked on the way. *)
RunEntersLocked ==
    [][Cooperative /\ spdMode # "Run" /\ spdMode' = "Run"
            => lockState = "Locked"]_vars

(* Outside Run the vehicle comes to a stop, in the simulator and on the bus,
   even when a tick that still saw Run writes after the mode change.        *)
ComesToStop ==
    mode # "Run" ~> (mode = "Run" \/ (speed = 0 /\ busSpeed = 0))

=============================================================================
