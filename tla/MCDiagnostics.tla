--------------------------- MODULE MCDiagnostics ---------------------------
(* Diagnostics at the size TLC checks. *)
EXTENDS Diagnostics

(* A change of the session, a long answer, and a control ... *)
MCRequests ==
    {[sid |-> "session", arg |-> "extended"], [sid |-> "read", arg |-> "vin"],
     [sid |-> "control", arg |-> "door"]}

(* ... and the change back. *)
MCAllRequests == MCRequests \cup {[sid |-> "session", arg |-> "default"]}

=============================================================================
