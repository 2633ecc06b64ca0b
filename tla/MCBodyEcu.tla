----------------------------- MODULE MCBodyEcu -----------------------------
(* BodyEcu at the size TLC checks. *)
EXTENDS BodyEcu

(* A cleared override, one that rounds to 5 km/h and one that is clamped. *)
MCSpeedRequests == {-1, 3, 12}
MCAdcSamples    == {Failed, 0, 10}
(* One that an unlocked or faulty lock did not send. *)
MCCanFrames     == {[old |-> "Unlocked", new |-> "Locked"]}

=============================================================================
