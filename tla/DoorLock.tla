------------------------------ MODULE DoorLock ------------------------------
(* DoorLockController: the Locked / Unlocked / Error state machine, its
   safety interlock, and what it drives -- the actuator pin, the
   LockStateChanged event and the IsLocked signal.  The event is kept as the
   last <<old, new>> pair handed to sendEvent().                            *)
EXTENDS BodySignals

VARIABLES lockState,     \* state_
          doorEvent,     \* last LockStateChanged payload
          busIsLocked,   \* Vehicle.Cabin.Door.Row1.DriverSide.IsLocked
          busResponse    \* Vehicle.Command.Door.Response

doorVars == <<lockState, doorEvent, busIsLocked, busResponse>>

Targets    == {"Locked", "Unlocked"}
LockStates == Targets \cup {"Error"}
NoEvent    == [old |-> "none", new |-> "none"]

DoorTypeOK ==
    /\ lockState \in LockStates
    /\ doorEvent \in {NoEvent} \cup [old : LockStates, new : LockStates]
    /\ busIsLocked \in {"absent", "locked", "unlocked"}
    /\ busResponse \in {Absent, OK, NOK}

DoorInit ==
    /\ lockState = "Unlocked"
    /\ doorEvent = NoEvent
    /\ busIsLocked = "absent"
    /\ busResponse = Absent

-----------------------------------------------------------------------------
SafetyConstraints == busSpeed <= 5 /\ busIsOpen # "open"

PublishStateChanged(new) ==
    /\ doorEvent' = [old |-> lockState, new |-> new]
    /\ busIsLocked' = IF new = "Locked" THEN "locked" ELSE "unlocked"

(* What lock() and unlock() return, in the state they are called in. *)
Accepts(want) ==
    \/ lockState = want
    \/ lockState # "Error" /\ SafetyConstraints

(* Mistake: Error does not refuse. *)
Code_ErrorAccepts(want) ==
    IF lockState = want \/ SafetyConstraints THEN OK ELSE NOK

Code(want) == IF Accepts(want) THEN OK ELSE NOK

Level(want) == IF want = "Locked" THEN High ELSE Low

(* Mistake: the pin is written before the checks. *)
MoveLock_PinFirst(want) ==
    /\ gpio' = [gpio EXCEPT ![LockPin] = Level(want)]
    /\ IF lockState # want /\ Accepts(want)
       THEN lockState' = want /\ PublishStateChanged(want)
       ELSE UNCHANGED <<lockState, doorEvent, busIsLocked>>

(* What they change: nothing in Error, nothing when already there, nothing
   when the interlock refuses.                                             *)
MoveLock(want) ==
    IF lockState # want /\ Accepts(want)
    THEN /\ lockState' = want
         /\ gpio' = [gpio EXCEPT ![LockPin] = Level(want)]
         /\ PublishStateChanged(want)
    ELSE UNCHANGED <<lockState, gpio, doorEvent, busIsLocked>>

(* setError() reports the fault but leaves the actuator where it is. *)
SetError ==
    /\ lockState' = "Error"
    /\ PublishStateChanged("Error")
    /\ UNCHANGED <<gpio, busResponse>>

(* onModeChanged() when the new mode is Run; what lock() returns is ignored. *)
AutoLock == MoveLock("Locked") /\ UNCHANGED busResponse

(* The SOME/IP methods Lock and Unlock. *)
HandleLock(want) ==
    /\ reply' = Code(want)
    /\ MoveLock(want)
    /\ UNCHANGED busResponse

(* A Boolean on Vehicle.Command.Door.Lock; the answer goes back on the bus. *)
OnCommandSignal(want) ==
    /\ busResponse' = Code(want)
    /\ MoveLock(want)
    /\ UNCHANGED reply

DoorButton ==
    /\ lockState \in Targets
    /\ MoveLock(IF lockState = "Locked" THEN "Unlocked" ELSE "Locked")
    /\ UNCHANGED busResponse

=============================================================================
