--------------------------- MODULE TimerPlatforms ---------------------------
(* Both timer services against the one promise: a program is built with one of
   them, which is chosen at the start.                                       *)
EXTENDS Integers, FiniteSets, Sequences

CONSTANTS Timers, kMaxTimers

ASSUME TimersAssumption == kMaxTimers \in Nat /\ kMaxTimers > 0 /\ "none" \notin Timers

VARIABLES platform,                                  \* "posix" or "zephyr"
          kind, id,                                  \* of both
          next_id, slots, running, at, holder,       \* of ThreadTimers
          active, periodic, callback, ticking, queued, work, served, ended, sound

threadVars == <<next_id, slots, running, at, holder>>
zephyrVars == <<active, periodic, callback, ticking, queued, work, served, ended, sound>>
vars == <<platform, kind, id, threadVars, zephyrVars>>

Thread == INSTANCE ThreadTimers
Zephyr == INSTANCE ZephyrTimers

Posix == platform = "posix"

Init ==
    /\ platform \in {"posix", "zephyr"}
    /\ Thread!Init /\ Zephyr!Init

Next ==
    /\ UNCHANGED platform
    /\ \/ Posix /\ Thread!Next /\ UNCHANGED zephyrVars
       \/ ~Posix /\ Zephyr!Next /\ UNCHANGED threadVars

ThreadRuns(t) ==
    Posix /\ Thread!ThreadStep(t) /\ UNCHANGED <<platform, zephyrVars>>
JoinReturns ==
    Posix /\ Thread!Joined /\ UNCHANGED <<platform, zephyrVars>>
QueueServes(i) ==
    ~Posix /\ Zephyr!WorkStarts(i) /\ UNCHANGED <<platform, threadVars>>
QueueReturns ==
    ~Posix /\ Zephyr!WorkEnds /\ UNCHANGED <<platform, threadVars>>

(* The operating system runs the threads that can run; the work queue's thread
   serves its items in turn, so one that waits is not overtaken for ever.    *)
Fairness ==
    /\ \A t \in Timers : WF_vars(ThreadRuns(t))
    /\ WF_vars(JoinReturns)
    /\ \A i \in 0..kMaxTimers - 1 : SF_vars(QueueServes(i))
    /\ WF_vars(QueueReturns)

Spec == Init /\ [][Next]_vars /\ Fairness

-----------------------------------------------------------------------------
(* Properties. *)

Promise == INSTANCE TimerService WITH
    phase <- [t \in Timers |-> IF Posix THEN Thread!Phase(t) ELSE Zephyr!Phase(t)],
    due <- [t \in Timers |-> IF Posix THEN Thread!Due(t) ELSE Zephyr!Due(t)],
    firing <- [t \in Timers |-> IF Posix THEN Thread!Firing(t) ELSE Zephyr!Firing(t)]

(* Both services keep the promise of ITimerService, whatever cancel() and the
   slots' reuse come between: no callback starts without an expiry of its own
   timer nor after cancel() returned, and every expiry is served.  On Zephyr
   only until a slot is handed out whose last timer was cancelled with its work
   item in the queue, or with its callback running (~sound).                 *)
KeepsPromise == Promise!Spec

(* ThreadTimerService::cancel() and stopAll() return, unless a callback they
   wait for is itself waiting for slots_mtx_ to start a timer.               *)
CancelReturns ==
    holder.timers # {} ~> \/ holder.timers = {}
                          \/ \E t \in holder.joins : at[t] = "locking"

(* ZephyrTimerService refuses a timer only while kMaxTimers others can still
   fire or are firing: every way a timer ends gives its slot back, as long as
   no slot was handed out while in use.                                      *)
RefusedOnlyWhenFull ==
    [][\A t \in Timers : sound /\ kind'[t] = "refused" /\ kind[t] = "none" =>
        Cardinality({s \in Timers : Zephyr!Phase(s) = "running"}) = kMaxTimers]_vars

=============================================================================
