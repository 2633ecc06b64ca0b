--------------------------- MODULE SpeedSimulator ---------------------------
(* SpeedSimulator: the vehicle's speed, driven every 100 ms from the
   potentiometer or from an override, and forced to zero outside Run.
   Speeds are whole km/h.  The low-pass filter is kept to the 5 km/h step its
   output is rounded to, and as the fact that a reading takes it towards the
   sample without passing it.                                               *)
EXTENDS BodySignals

VARIABLES spdMode,       \* current_mode_, the simulator's copy of the mode
          speed,         \* current_speed_kmh_
          smoothed,      \* smoothed_adc_ as a speed, rounded
          override,      \* speed_override_; Absent (-1) when cleared
          lastSent,      \* last_sent_speed_kmh_
          speedEvent,    \* last SpeedChanged payload
          ticking        \* the periodic timer was allocated

speedVars == <<spdMode, speed, smoothed, override, lastSent, speedEvent, ticking>>

Failed == -1             \* adc_.read() below zero

SpeedTypeOK ==
    /\ spdMode \in Modes
    /\ speed \in Speeds
    /\ smoothed \in Speeds
    /\ override \in (0..MaxSpeed) \cup {Absent}
    /\ lastSent \in Speeds
    /\ speedEvent \in Speeds \cup {Absent}
    /\ ticking \in BOOLEAN

SpeedInit ==
    /\ spdMode = "Off"
    /\ speed = 0
    /\ smoothed = 0
    /\ override = Absent
    /\ lastSent = 0
    /\ speedEvent = Absent
    /\ ticking = FALSE

-----------------------------------------------------------------------------
AtMost(v, max) == IF v > max THEN max ELSE v

(* std::round(v / 5) * 5, then std::clamp to the range of speeds. *)
Quantise(v) == AtMost(((v + 2) \div 5) * 5, MaxSpeed)

Between(a, b) == {x \in Speeds : (a <= x /\ x <= b) \/ (b <= x /\ x <= a)}

(* Mistake: the sent value is not remembered. *)
SendIf_Forgets(changed, v) ==
    /\ speedEvent' = IF changed THEN v ELSE speedEvent
    /\ UNCHANGED lastSent

SendIf(changed, v) ==
    /\ speedEvent' = IF changed THEN v ELSE speedEvent
    /\ lastSent' = IF changed THEN v ELSE lastSent

(* A new speed: sent to the subscribers when it differs from the last one
   sent, published on the bus in any case.                                 *)
Report(v) ==
    /\ speed' = v
    /\ SendIf(v # lastSent, v)
    /\ busSpeed' = v

(* Mistakes: the speed is kept when leaving Run for anything but Off; the zero
   is not published on the bus.                                             *)
SpeedOnMode_OnlyOff(new) ==
    /\ spdMode' = new
    /\ IF new = "Off" THEN Report(0)
                      ELSE UNCHANGED <<speed, lastSent, speedEvent, busSpeed>>
    /\ UNCHANGED <<smoothed, override, ticking>>

SpeedOnMode_BusKept(new) ==
    /\ spdMode' = new
    /\ IF new # "Run" THEN speed' = 0 /\ SendIf(lastSent # 0, 0)
                      ELSE UNCHANGED <<speed, lastSent, speedEvent>>
    /\ UNCHANGED <<busSpeed, smoothed, override, ticking>>

SpeedOnMode(new) ==
    /\ spdMode' = new
    /\ IF new # "Run" THEN Report(0)
                      ELSE UNCHANGED <<speed, lastSent, speedEvent, busSpeed>>
    /\ UNCHANGED <<smoothed, override, ticking>>

TickOutsideRun ==
    /\ spdMode # "Run"
    /\ speed' = 0
    /\ SendIf(speed # 0, 0)
    /\ busSpeed' = 0
    /\ UNCHANGED smoothed

(* Mistake: an overridden speed is truncated. *)
TickOverride_Truncates ==
    /\ spdMode = "Run" /\ override # Absent
    /\ Report((override \div 5) * 5)
    /\ UNCHANGED smoothed

TickOverride ==
    /\ spdMode = "Run" /\ override # Absent
    /\ Report(Quantise(override))
    /\ UNCHANGED smoothed

(* sample: the dead-zoned potentiometer reading, as a speed.  A failed
   reading holds the last speed and publishes nothing.                     *)
TickAdc(sample) ==
    /\ spdMode = "Run" /\ override = Absent
    /\ IF sample = Failed
       THEN UNCHANGED <<speed, lastSent, speedEvent, busSpeed, smoothed>>
       ELSE /\ smoothed' \in Between(smoothed, sample)
            /\ Report(smoothed')

OnTimerTick(sample) ==
    /\ ticking
    /\ TickOutsideRun \/ TickOverride \/ TickAdc(sample)
    /\ UNCHANGED <<spdMode, override, ticking>>

(* Mistake: the request is not clamped. *)
HandleSetSpeed_Unclamped(v) ==
    /\ reply' = OK
    /\ override' = IF v < 0 THEN Absent ELSE v
    /\ UNCHANGED <<spdMode, speed, smoothed, lastSent, speedEvent, ticking>>

(* The SOME/IP method SetSpeed: negative clears the override.  (A NaN is
   stored and fails `>= 0` in the tick, which is a cleared override too.)  *)
HandleSetSpeed(v) ==
    /\ reply' = OK
    /\ override' = IF v < 0 THEN Absent ELSE AtMost(v, MaxSpeed)
    /\ UNCHANGED <<spdMode, speed, smoothed, lastSent, speedEvent, ticking>>

(* ... and with a payload shorter than a float. *)
HandleShortSetSpeed == reply' = NOK /\ UNCHANGED speedVars

=============================================================================
