---------------------------- MODULE ZephyrTimers ----------------------------
(* ZephyrTimerService: a fixed table of slots, each a kernel timer, whose
   expiry interrupt submits a work item, and a callback, which the system work
   queue's thread runs.  The work queue is cooperative: whoever calls the
   service is not interrupted by a callback, only by the expiry interrupt.

   The slot is all that identifies a timer.  A cancel() with the identifier of
   a timer that has ended ends whichever has the slot by then; and a cancelled
   timer's slot may be handed out with its work item still in the work queue,
   or with its callback still running.  What the kernel then makes of the work
   item, which start initialises anew, is undefined: sound tells whether that
   has happened.  Here the item stays where it is.  (The program's controllers
   cancel nothing.)                                                          *)
EXTENDS Integers, FiniteSets

CONSTANTS Timers,     \* one value per call of startPeriodic() or startOneShot()
          kMaxTimers  \* 8 in the code

VARIABLES kind,       \* what was started: "none" before the call
          id,         \* the TimerId the call returned
          active,     \* TimerSlot::active
          periodic,   \* TimerSlot::periodic
          callback,   \* TimerSlot::callback: whose it is, "none" = empty
          ticking,    \* the slot's kernel timer runs
          queued,     \* slots whose work item is in the work queue
          work,       \* the slot whose callback runs, -1 = none
          served,     \* the timer that callback is of, "none" = none
          ended,      \* history: cancelled, or a one-shot that has fired
          sound       \* history: no slot was handed out while in use

vars == <<kind, id, active, periodic, callback, ticking, queued, work, served,
          ended, sound>>

Slots == 0..kMaxTimers - 1
Free == {i \in Slots : ~active[i]}
First(S) == CHOOSE i \in S : \A j \in S : i <= j

Init ==
    /\ kind = [t \in Timers |-> "none"]
    /\ id = [t \in Timers |-> -1]
    /\ active = [i \in Slots |-> FALSE]
    /\ periodic = [i \in Slots |-> FALSE]
    /\ callback = [i \in Slots |-> "none"]
    /\ ticking = [i \in Slots |-> FALSE]
    /\ queued = {}
    /\ work = -1
    /\ served = "none"
    /\ ended = {}
    /\ sound = TRUE

-----------------------------------------------------------------------------
(* startPeriodic() and startOneShot(): the first slot that is not active. *)
Start(t, k) ==
    /\ kind[t] = "none" /\ Free # {}
    /\ LET i == First(Free) IN
        /\ kind' = [kind EXCEPT ![t] = k]
        /\ id' = [id EXCEPT ![t] = i]
        /\ active' = [active EXCEPT ![i] = TRUE]
        /\ periodic' = [periodic EXCEPT ![i] = k = "periodic"]
        /\ callback' = [callback EXCEPT ![i] = t]
        /\ ticking' = [ticking EXCEPT ![i] = TRUE]
        /\ sound' = (sound /\ i \notin queued /\ work # i)
    /\ UNCHANGED <<queued, work, served, ended>>

(* kInvalidTimerId. *)
Refuse(t) ==
    /\ kind[t] = "none" /\ Free = {}
    /\ kind' = [kind EXCEPT ![t] = "refused"]
    /\ UNCHANGED <<id, active, periodic, callback, ticking, queued, work, served,
                   ended, sound>>

(* Mistake: the callback is kept, for the work item that may be queued. *)
Cancel_KeepsCallback(t) ==
    /\ kind[t] \in {"periodic", "oneShot"} /\ active[id[t]]
    /\ ticking' = [ticking EXCEPT ![id[t]] = FALSE]
    /\ active' = [active EXCEPT ![id[t]] = FALSE]
    /\ ended' = ended \cup ({callback[id[t]]} \ {"none"})
    /\ UNCHANGED <<kind, id, periodic, callback, queued, work, served, sound>>

(* cancel() with the identifier start returned for t, whoever calls it and
   whoever has the slot; nothing happens when nobody has it.                 *)
Cancel(t) ==
    /\ kind[t] \in {"periodic", "oneShot"} /\ active[id[t]]
    /\ ticking' = [ticking EXCEPT ![id[t]] = FALSE]
    /\ active' = [active EXCEPT ![id[t]] = FALSE]
    /\ callback' = [callback EXCEPT ![id[t]] = "none"]
    /\ ended' = ended \cup ({callback[id[t]]} \ {"none"})
    /\ UNCHANGED <<kind, id, periodic, queued, work, served, sound>>

(* expiryHandler(), in the interrupt; submitting a queued item does nothing. *)
Expire(i) ==
    /\ ticking[i]
    /\ ticking' = [ticking EXCEPT ![i] = periodic[i]]
    /\ queued' = IF active[i] THEN queued \cup {i} ELSE queued
    /\ UNCHANGED <<kind, id, active, periodic, callback, work, served, ended, sound>>

(* workHandler() up to the callback ... *)
WorkStarts(i) ==
    /\ work = -1 /\ i \in queued
    /\ queued' = queued \ {i}
    /\ work' = IF callback[i] # "none" THEN i ELSE -1
    /\ served' = callback[i]
    /\ UNCHANGED <<kind, id, active, periodic, callback, ticking, ended, sound>>

(* Mistake: the slot of a one-shot is not given back. *)
WorkEnds_KeepsSlot ==
    /\ work # -1
    /\ ended' = IF periodic[work] THEN ended ELSE ended \cup {served}
    /\ work' = -1 /\ served' = "none"
    /\ UNCHANGED <<kind, id, active, periodic, callback, ticking, queued, sound>>

(* ... and from its return. *)
WorkEnds ==
    /\ work # -1
    /\ active' = [active EXCEPT ![work] = @ /\ periodic[work]]
    /\ ended' = IF periodic[work] THEN ended ELSE ended \cup {served}
    /\ work' = -1 /\ served' = "none"
    /\ UNCHANGED <<kind, id, periodic, callback, ticking, queued, sound>>

-----------------------------------------------------------------------------
Next ==
    \/ \E t \in Timers :
        \/ \E k \in {"periodic", "oneShot"} : Start(t, k)
        \/ Refuse(t) \/ Cancel(t)
    \/ \E i \in Slots : Expire(i) \/ WorkStarts(i)
    \/ WorkEnds

(* The work queue's thread serves every item in turn. *)
Fairness ==
    /\ \A i \in Slots : SF_vars(WorkStarts(i))
    /\ WF_vars(WorkEnds)

Spec == Init /\ [][Next]_vars /\ Fairness

-----------------------------------------------------------------------------
(* The timers as a caller sees them.  A timer that is cancelled while its
   callback runs is over when that returns, for which cancel() does not wait. *)
Phase(t) ==
    CASE kind[t] \in {"none", "refused"} -> "unused"
      [] t \in ended                     -> IF served = t THEN "cancelling" ELSE "over"
      [] OTHER                           -> "running"
Due(t) == Phase(t) = "running" /\ id[t] \in queued
Firing(t) == served = t

=============================================================================
