------------------------------ MODULE Lifecycle ------------------------------
(* The order in which a lifecycle manager calls its components.  The MPU's is
   the repository's LifecycleManager, "that follows the openbsw
   LifecycleManager pattern"; the MCU's mains use OpenBSW's in the same way:
   every component of a level is initialised, in the order of addComponent(),
   then each is run, then the next level begins.                             *)
EXTENDS Integers

(* A component, its place in the order of addComponent() and its run level. *)
Added(name, place, level) == [name |-> name, place |-> place, level |-> level]

Call(component, op) == [component |-> component, op |-> op]

(* The calls of transitionToLevel() from level 0. *)
Startup(components, level) ==
    {Call(c, op) : c \in {d \in components : d.level <= level}, op \in {"init", "run"}}

(* Mistake: a component is initialised and run before the next one is. *)
Precedes_PerComponent(a, b) ==
    \/ a.component.level < b.component.level
    \/ /\ a.component.level = b.component.level
       /\ \/ a.component.place < b.component.place
          \/ a.component.place = b.component.place /\ a.op = "init" /\ b.op = "run"

Precedes(a, b) ==
    \/ a.component.level < b.component.level
    \/ /\ a.component.level = b.component.level
       /\ \/ a.op = "init" /\ b.op = "run"
          \/ a.op = b.op /\ a.component.place < b.component.place

(* The calls of one stage, a level's init() or its run(), are made one after
   the other; the next stage waits for those that have not reported.         *)
Stage(call) == <<call.component.level, call.op>>

MayCall(call, calls, unreported) ==
    /\ call \in calls /\ \A other \in calls \ {call} : Precedes(call, other)
    /\ unreported \subseteq {Stage(call)}

=============================================================================
