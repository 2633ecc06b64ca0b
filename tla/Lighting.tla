------------------------------ MODULE Lighting ------------------------------
(* LightingController: the state of every light, its pin, and the last
   LightStatusChanged payload (the states of all lights, << >> before the
   first one).                                                             *)
EXTENDS BodySignals

VARIABLES lights,        \* states_
          lightEvent     \* last LightStatusChanged payload

lightVars == <<lights, lightEvent>>

Dark == [l \in Lights |-> Low]

LightTypeOK ==
    /\ lights \in [Lights -> {Low, High}]
    /\ lightEvent \in {<<>>} \cup [Lights -> {Low, High}]

LightInit == lights = Dark /\ lightEvent = <<>>

PublishIfChanged == lightEvent' = IF lights' # lights THEN lights' ELSE lightEvent

(* setLightState(): an unknown light is refused; the pin is written even when
   the light already has that state.                                       *)
SetLightState(id, level) ==
    IF id \in Lights
    THEN /\ lights' = [lights EXCEPT ![id] = level]
         /\ gpio' = [gpio EXCEPT ![id] = level]
         /\ PublishIfChanged
    ELSE UNCHANGED <<lights, gpio, lightEvent>>

(* The SOME/IP method SetLightState. *)
HandleSetLightState(id, level) ==
    /\ reply' = IF id \in Lights THEN OK ELSE NOK
    /\ SetLightState(id, level)

(* Mistake: the pins are not written. *)
AllLightsOff_PinsKept ==
    /\ lights' = Dark
    /\ PublishIfChanged
    /\ UNCHANGED gpio

(* setLightState(i, false) for every light, in one handler. *)
AllLightsOff ==
    /\ lights' = Dark
    /\ gpio' = [p \in Pins |-> IF p \in Lights THEN Low ELSE gpio[p]]
    /\ PublishIfChanged

=============================================================================
