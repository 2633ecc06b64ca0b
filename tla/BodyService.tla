----------------------------- MODULE BodyService -----------------------------
(* What the body domain promises, whoever asks for what and over which way:
   the driving mode, the speed, the bolt of the door with what subscribers are
   told of it, the door itself and the lights that are lit.  How the five
   controllers come to agree on it is not said.                              *)
EXTENDS Integers

CONSTANTS AllLights,   \* the vehicle's lights
          TopSpeed,    \* km/h
          Relayed      \* what somebody else may send as LockStateChanged

VARIABLES mode,        \* driving mode
          speed,       \* km/h
          lock,        \* the bolt: Locked, Unlocked, or Error
          told,        \* the last LockStateChanged
          door,        \* the door: open, closed, or not known
          lit          \* the lights that are on

serviceVars == <<mode, speed, lock, told, door, lit>>

WalkingSpeed == 5

Init ==
    /\ mode = "Off" /\ speed = 0
    /\ lock = "Unlocked" /\ told = [old |-> "none", new |-> "none"]
    /\ door = "absent"
    /\ lit = {}

Tell(new) == told' = [old |-> lock, new |-> new]

(* The bolt can be trusted to move, and moves. *)
MayMove == lock # "Error" /\ speed <= WalkingSpeed /\ door # "open"

Move(want) ==
    /\ lock # want /\ MayMove
    /\ lock' = want
    /\ Tell(want)

Bolt ==
    /\ \E want \in {"Locked", "Unlocked"} : Move(want)
    /\ UNCHANGED <<mode, speed, door, lit>>

Fail ==
    /\ lock' = "Error"
    /\ Tell("Error")
    /\ UNCHANGED <<mode, speed, door, lit>>

(* An event that is not the lock's; the bolt does not move. *)
Relay ==
    /\ told' \in Relayed
    /\ UNCHANGED <<mode, speed, lock, door, lit>>

Drive ==
    /\ mode = "Run"
    /\ speed' \in 0..TopSpeed
    /\ UNCHANGED <<mode, lock, told, door, lit>>

Light ==
    /\ lit' \in SUBSET AllLights
    /\ UNCHANGED <<mode, speed, lock, told, door>>

OpenOrClose ==
    /\ door' \in {"open", "closed"}
    /\ UNCHANGED <<mode, speed, lock, told, lit>>

(* Into Run, with the door locked unless the bolt cannot be trusted to. *)
StartDriving ==
    /\ mode \in {"Accessory", "Crank"} /\ mode' = "Run"
    /\ IF lock # "Locked" /\ MayMove THEN Move("Locked") ELSE UNCHANGED <<lock, told>>
    /\ UNCHANGED <<speed, door, lit>>

(* Everywhere else, at a standstill, and in the dark once it is off. *)
StopDriving ==
    /\ \/ mode = "Off"       /\ mode' = "Accessory"
       \/ mode = "Accessory" /\ mode' \in {"Off", "Crank"}
       \/ mode = "Run"       /\ mode' \in {"Accessory", "Crank"}
       \/ mode = "Crank"     /\ mode' = "Accessory"
    /\ speed' = 0
    /\ lit' = IF mode' = "Off" THEN {} ELSE lit
    /\ UNCHANGED <<lock, told, door>>

Next == Bolt \/ Fail \/ Relay \/ Drive \/ Light \/ OpenOrClose \/ StartDriving \/ StopDriving

Spec == Init /\ [][Next]_serviceVars

=============================================================================
