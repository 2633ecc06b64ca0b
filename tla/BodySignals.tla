---------------------------- MODULE BodySignals ----------------------------
(* What the controllers of the body ECU share: the latest value of each
   signal on the MCU's signal bus that another controller reads, and the
   output pins.  A signal nobody has published yet is absent: get() returns
   nullopt and every reader then applies no constraint.  The absent speed is
   written Absent, below every speed, because `*f > 5.0f` and `speed > 0`
   are both false for it.                                                  *)
EXTENDS Integers

CONSTANTS kLightCount,   \* LightingController.h: number of lights, 3
          LockPin,       \* lock_gpio_pin: 10 on POSIX; 2, a lamp's, on Zephyr
          MaxSpeed       \* max_speed_kmh: 200 in the code

ASSUME SignalsAssumption ==
    /\ kLightCount \in Nat \ {0}
    /\ LockPin \in Nat
    /\ MaxSpeed \in Nat /\ MaxSpeed % 5 = 0 /\ MaxSpeed > 0

VARIABLES busSpeed,      \* Vehicle.Speed
          busIsOpen,     \* Vehicle.Cabin.Door.Row1.DriverSide.IsOpen
          gpio,          \* level of every pin, 1 = high
          reply          \* return code of the last SOME/IP request

Absent == -1
Low    == 0
High   == 1
OK     == 0
NOK    == 1

Lights == 0..(kLightCount - 1)
Pins   == Lights \cup {LockPin}        \* gpio_pins {0, 1, 2} and the lock's pin

(* The simulator reports speeds in steps of 5 km/h. *)
Speeds == {s \in 0..MaxSpeed : s % 5 = 0}

Modes == {"Off", "Accessory", "Run", "Crank"}

SignalsTypeOK ==
    /\ busSpeed \in Speeds \cup {Absent}
    /\ busIsOpen \in {"absent", "open", "closed"}
    /\ gpio \in [Pins -> {Low, High}]
    /\ reply \in {Absent, OK, NOK}

SignalsInit ==
    /\ busSpeed = Absent
    /\ busIsOpen = "absent"
    /\ gpio = [p \in Pins |-> Low]
    /\ reply = Absent

=============================================================================
