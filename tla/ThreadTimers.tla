---------------------------- MODULE ThreadTimers ----------------------------
(* ThreadTimerService, the POSIX timer service: a thread per timer that waits
   on a condition variable, and slots_mtx_, which cancel() and stopAll() hold
   while they join.  A notification that comes before the wait is lost; the
   wait then ends with its interval, so both are one step here.

   stopAll() is the destructor's, as in the program: nobody calls the service
   after it.  A callback may start timers; it cancels none.                  *)
EXTENDS Integers, Sequences

CONSTANTS Timers     \* one value per call of startPeriodic() or startOneShot()

VARIABLES kind,      \* what was started: "none" before the call
          id,        \* the TimerId the call returned
          next_id,   \* next_id_
          slots,     \* slots_
          running,   \* TimerSlot::running
          at,        \* where the timer's thread is
          holder     \* who holds slots_mtx_ across joins, for which timers

vars == <<kind, id, next_id, slots, running, at, holder>>

Nobody == [op |-> "nobody", timers |-> {}, joins |-> {}]
LockFree == holder = Nobody

Init ==
    /\ kind = [t \in Timers |-> "none"]
    /\ id = [t \in Timers |-> -1]
    /\ next_id = 0
    /\ slots = <<>>
    /\ running = [t \in Timers |-> FALSE]
    /\ at = [t \in Timers |-> "none"]
    /\ holder = Nobody

-----------------------------------------------------------------------------
(* startPeriodic() and startOneShot(). *)
NewSlot(t, k) ==
    /\ LockFree /\ kind[t] = "none"
    /\ kind' = [kind EXCEPT ![t] = k]
    /\ id' = [id EXCEPT ![t] = next_id]
    /\ next_id' = next_id + 1
    /\ slots' = Append(slots, t)
    /\ running' = [running EXCEPT ![t] = TRUE]

Start(t, k) ==
    /\ NewSlot(t, k)
    /\ at' = [at EXCEPT ![t] = "waiting"]
    /\ UNCHANGED holder

(* wait_for() ends because running is false ... *)
Stopped(t) ==
    /\ at[t] = "waiting" /\ ~running[t]
    /\ at' = [at EXCEPT ![t] = "ended"]
    /\ UNCHANGED <<kind, id, next_id, slots, running, holder>>

(* ... or with its time. *)
Expire(t) ==
    /\ at[t] = "waiting" /\ running[t]
    /\ at' = [at EXCEPT ![t] = "expired"]
    /\ UNCHANGED <<kind, id, next_id, slots, running, holder>>

(* running is looked at once more before the callback. *)
Call(t) ==
    /\ at[t] = "expired"
    /\ at' = [at EXCEPT ![t] = IF running[t] THEN "calling" ELSE "ended"]
    /\ UNCHANGED <<kind, id, next_id, slots, running, holder>>

Return(t) ==
    /\ at[t] = "calling"
    /\ at' = [at EXCEPT ![t] = IF kind[t] = "periodic" THEN "waiting" ELSE "ended"]
    /\ running' = [running EXCEPT ![t] = @ /\ kind[t] = "periodic"]
    /\ UNCHANGED <<kind, id, next_id, slots, holder>>

(* A callback calls start and needs slots_mtx_ for it. *)
CallbackLocks(t) ==
    /\ at[t] = "calling" /\ \E s \in Timers : kind[s] = "none"
    /\ at' = [at EXCEPT ![t] = "locking"]
    /\ UNCHANGED <<kind, id, next_id, slots, running, holder>>

CallbackStarts(t, s, k) ==
    /\ at[t] = "locking"
    /\ NewSlot(s, k)
    /\ at' = [at EXCEPT ![t] = "calling", ![s] = "waiting"]
    /\ UNCHANGED holder

-----------------------------------------------------------------------------
Slot(n) == slots[n + 1]

(* Mistake: the thread is not told. *)
Cancel_NotTold(t) ==
    /\ LockFree /\ kind[t] # "none"
    /\ id[t] < Len(slots) /\ running[Slot(id[t])]
    /\ holder' = [op |-> "cancel", timers |-> {t}, joins |-> {Slot(id[t])}]
    /\ UNCHANGED <<kind, id, next_id, slots, running, at>>

(* cancel() up to the join; for a timer that has ended it does nothing. *)
Cancel(t) ==
    /\ LockFree /\ kind[t] # "none"
    /\ id[t] < Len(slots) /\ running[Slot(id[t])]
    /\ running' = [running EXCEPT ![Slot(id[t])] = FALSE]
    /\ holder' = [op |-> "cancel", timers |-> {t}, joins |-> {Slot(id[t])}]
    /\ UNCHANGED <<kind, id, next_id, slots, at>>

StopAll ==
    /\ LockFree
    /\ running' = [t \in Timers |-> FALSE]
    /\ LET all == {t \in Timers : running[t]} IN
        holder' = [op |-> "stopAll", timers |-> all, joins |-> all]
    /\ UNCHANGED <<kind, id, next_id, slots, at>>

(* Every join has returned.  After stopAll() the service is gone. *)
Joined ==
    /\ holder.op \in {"cancel", "stopAll"}
    /\ \A t \in holder.joins : at[t] = "ended"
    /\ IF holder.op = "cancel"
       THEN holder' = Nobody /\ UNCHANGED slots
       ELSE holder' = [Nobody EXCEPT !.op = "gone"] /\ slots' = <<>>
    /\ UNCHANGED <<kind, id, next_id, running, at>>

-----------------------------------------------------------------------------
ThreadStep(t) == Stopped(t) \/ Call(t) \/ Return(t)

Next ==
    \/ \E t \in Timers :
        \/ \E k \in {"periodic", "oneShot"} : Start(t, k)
        \/ Expire(t) \/ ThreadStep(t)
        \/ CallbackLocks(t)
        \/ \E s \in Timers, k \in {"periodic", "oneShot"} : CallbackStarts(t, s, k)
        \/ Cancel(t)
    \/ StopAll \/ Joined

(* The threads run, and so does the caller whose joins have returned. *)
Fairness ==
    /\ \A t \in Timers : WF_vars(ThreadStep(t))
    /\ WF_vars(Joined)

Spec == Init /\ [][Next]_vars /\ Fairness

-----------------------------------------------------------------------------
(* The timers as a caller sees them. *)
Phase(t) ==
    CASE kind[t] = "none"     -> "unused"
      [] kind[t] # "none" /\ t \in holder.timers -> "cancelling"
      [] kind[t] # "none" /\ t \notin holder.timers /\ at[t] = "ended" -> "over"
      [] OTHER                -> "running"
Due(t) == at[t] = "expired"
Firing(t) == at[t] \in {"calling", "locking"}

=============================================================================
