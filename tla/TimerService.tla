---------------------------- MODULE TimerService ----------------------------
(* What the callers of ports/ITimerService.h need, time left out: a callback
   runs after its timer has expired, once per expiry and one at a time; a
   one-shot's runs once; none starts after cancel() has returned.  Whether one
   that was under way has ended by then is left open (POSIX waits for it,
   Zephyr does not), and so is whose identifier cancel() was called with: those
   of Zephyr are reused.  Nothing is promised once sound is FALSE.           *)
EXTENDS FiniteSets

CONSTANTS Timers     \* one value per call of startPeriodic() or startOneShot()

VARIABLES kind,      \* what was started: "none" before the call
          phase,     \* unused, running, cancelling (and not over yet), over
          due,       \* expired, and the callback has not been started for it
          firing,    \* the callback runs
          sound      \* the service's own data are in order

vars == <<kind, phase, due, firing, sound>>

Kinds == {"periodic", "oneShot"}

Init ==
    /\ kind = [t \in Timers |-> "none"]
    /\ phase = [t \in Timers |-> "unused"]
    /\ due = [t \in Timers |-> FALSE]
    /\ firing = [t \in Timers |-> FALSE]
    /\ sound = TRUE

(* A start may be refused: the timer's kind is then "refused" for good. *)
Start(t, k) ==
    /\ phase[t] = "unused" /\ kind[t] = "none"
    /\ kind' = [kind EXCEPT ![t] = k]
    /\ phase' = [phase EXCEPT ![t] = IF k = "refused" THEN "unused" ELSE "running"]
    /\ UNCHANGED <<due, firing>>

Expire(t) ==
    /\ phase[t] = "running" /\ ~due[t]
    /\ kind[t] = "oneShot" => ~firing[t]
    /\ due' = [due EXCEPT ![t] = TRUE]
    /\ UNCHANGED <<kind, phase, firing>>

Fire(t) ==
    /\ phase[t] \in {"running", "cancelling"} /\ due[t] /\ ~firing[t]
    /\ due' = [due EXCEPT ![t] = FALSE]
    /\ firing' = [firing EXCEPT ![t] = TRUE]
    /\ UNCHANGED <<kind, phase>>

(* A one-shot is over with its callback, and a cancelled timer may be. *)
Return(t) ==
    /\ firing[t]
    /\ firing' = [firing EXCEPT ![t] = FALSE]
    /\ \/ UNCHANGED <<phase, due>> /\ ~(kind[t] = "oneShot" /\ phase[t] = "running")
       \/ /\ kind[t] = "oneShot" \/ phase[t] = "cancelling"
          /\ phase' = [phase EXCEPT ![t] = "over"]
          /\ due' = [due EXCEPT ![t] = FALSE]
    /\ UNCHANGED kind

(* cancel() while callbacks are under way, or due: it may or may not stop the
   latter.                                                                  *)
Revoke(S) ==
    /\ S # {} /\ \A t \in S : phase[t] = "running"
    /\ phase' = [t \in Timers |-> IF t \in S THEN "cancelling" ELSE phase[t]]
    /\ due' \in {due, [t \in Timers |-> due[t] /\ t \notin S]}
    /\ UNCHANGED <<kind, firing>>

Drop(t) ==
    /\ phase[t] = "cancelling" /\ due[t]
    /\ due' = [due EXCEPT ![t] = FALSE]
    /\ UNCHANGED <<kind, phase, firing>>

Retire(S) ==
    /\ S # {} /\ \A t \in S : phase[t] \in {"running", "cancelling"} /\ ~firing[t]
    /\ phase' = [t \in Timers |-> IF t \in S THEN "over" ELSE phase[t]]
    /\ due' = [t \in Timers |-> due[t] /\ t \notin S]
    /\ UNCHANGED <<kind, firing>>

Step ==
    \/ \E t \in Timers :
        \/ \E k \in Kinds \cup {"refused"} : Start(t, k)
        \/ Expire(t) \/ Fire(t) \/ Return(t) \/ Drop(t)
    \/ \E S \in SUBSET Timers : Revoke(S) \/ Retire(S)

Next == (sound /\ Step /\ UNCHANGED sound) \/ sound' = FALSE

(* A timer that is due is served, or cancelled. *)
Spec == Init /\ [][Next]_vars /\ \A t \in Timers : WF_vars(sound /\ Fire(t) /\ UNCHANGED sound)

=============================================================================
