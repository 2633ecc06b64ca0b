---------------------------- MODULE VehicleMode ----------------------------
(* VehicleModeManager: the mode field and its notifier.  setMode() also
   calls the observers; they belong to other controllers, so the composition
   (BodyEcu) puts them into the same step.                                  *)
EXTENDS BodySignals

VARIABLES mode,          \* mode_
          modeEvent      \* last payload of the field's notifier

modeVars == <<mode, modeEvent>>

ModeTypeOK == mode \in Modes /\ modeEvent \in Modes \cup {"none"}

ModeInit == mode = "Off" /\ modeEvent = "none"

(* A byte that names no mode is refused from every mode. *)
IsValidTransition(from, to) ==
    \/ from = to
    \/ from = "Off"       /\ to = "Accessory"
    \/ from = "Accessory" /\ to \in {"Off", "Run", "Crank"}
    \/ from = "Run"       /\ to \in {"Accessory", "Crank"}
    \/ from = "Crank"     /\ to \in {"Run", "Accessory"}

(* mode_ = mode; publishModeChanged() *)
StoreMode(new) == mode' = new /\ modeEvent' = new

=============================================================================
