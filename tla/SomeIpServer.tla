---------------------------- MODULE SomeIpServer ----------------------------
(* SomeIpSystem in the server role: the transport's receive thread, which
   dispatches requests to the registered handlers, and the other threads that
   call sendEvent() -- timers, the CAN receiver, the button.  Events sent while
   a request is being dispatched are deferred, answered after the response.

   The UDP transport is taken to hand each client what was sent to it, in the
   order of the send_message() calls; sending one event to all clients is one
   step, because the properties look at one client's messages at a time.     *)
EXTENDS Integers, FiniteSets, Sequences, SequencesExt

CONSTANTS Clients,       \* endpoints of SOME/IP clients
          Workers,       \* threads other than the receive thread
          Schedulings,   \* TRUE for Zephyr's, FALSE for POSIX threads
          MaxEvents,     \* bound: events sent
          MaxMessages    \* bound: messages received

Rx == "rx"

ASSUME ServerAssumption ==
    /\ Schedulings \subseteq BOOLEAN
    /\ Rx \notin Workers
    /\ MaxEvents \in Nat
    /\ MaxMessages \in Nat

VARIABLES cooperative,   \* no handler is interrupted by another; never changes
          known_clients, \* known_clients_
          dispatching,   \* dispatching_
          pending,       \* pending_events_
          rx,            \* the receive thread: where it is and its locals
          hold,          \* the event a worker is about to send, 0 = none
          emitted,       \* events so far; sendEvent() numbers them
          received,      \* messages so far
          inbox,         \* what was sent to each client
          due            \* history: events sent since the client is known

serverVars == <<known_clients, dispatching, pending, rx, hold, emitted, received,
                inbox, due>>
vars == <<cooperative, serverVars>>

RxIdle == [pc |-> "idle", client |-> "none", kind |-> "none",
           deferred |-> <<>>, targets |-> {}]

Events == [id : 1..MaxEvents, by : Workers \cup {Rx}, cause : 0..MaxMessages,
           deferred : BOOLEAN]

Event(by) ==
    [id |-> emitted + 1, by |-> by, deferred |-> dispatching,
     cause |-> IF by = Rx /\ dispatching THEN received ELSE 0]

(* An unknown method is answered too; the type is RESPONSE either way, because
   on_message_received() overwrites the ERROR that dispatch() set.           *)
Response == [response |-> received]

Responses == [response : 0..MaxMessages]
NoEvent == [id |-> 0]

FlagsTypeOK == cooperative \in Schedulings /\ dispatching \in BOOLEAN

DataTypeOK ==
    /\ known_clients \subseteq Clients
    /\ pending \in Seq(Events)
    /\ rx \in [pc : {"idle", "request", "dispatch", "respond", "snapshot", "flush", "other"},
               client : Clients \cup {"none"},
               kind : {"none", "method", "unknown", "other"},
               deferred : Seq(Events), targets : SUBSET Clients]
    /\ hold \in [Workers \cup {Rx} -> Events \cup {NoEvent}]
    /\ emitted \in 0..MaxEvents /\ received \in 0..MaxMessages
    /\ inbox \in [Clients -> Seq(Events \cup Responses)]
    /\ due \in [Clients -> SUBSET (1..MaxEvents)]

TypeOK == FlagsTypeOK /\ DataTypeOK

Init ==
    /\ cooperative \in Schedulings
    /\ known_clients = {}
    /\ dispatching = FALSE
    /\ pending = <<>>
    /\ rx = RxIdle
    /\ hold = [t \in Workers \cup {Rx} |-> NoEvent]
    /\ emitted = 0 /\ received = 0
    /\ inbox = [c \in Clients |-> <<>>]
    /\ due = [c \in Clients |-> {}]

-----------------------------------------------------------------------------
SendTo(targets, m) ==
    inbox' = [c \in Clients |-> IF c \in targets THEN Append(inbox[c], m)
                                                 ELSE inbox[c]]

(* Whoever runs cooperatively finds no other thread inside a handler. *)
MayRun(t) ==
    cooperative => /\ t # Rx => rx.pc = "idle"
                   /\ \A u \in (Workers \cup {Rx}) \ {t} : hold[u] = NoEvent

NewEvent ==
    /\ emitted < MaxEvents
    /\ emitted' = emitted + 1
    /\ due' = [c \in Clients |-> IF c \in known_clients
                                 THEN due[c] \cup {emitted'} ELSE due[c]]

(* Mistake: never deferred. *)
DeferOrHold_Never(t) ==
    /\ hold[t] = NoEvent /\ MayRun(t)
    /\ NewEvent
    /\ hold' = [hold EXCEPT ![t] = Event(t)] /\ UNCHANGED pending

(* sendEvent(), first half: under the lock, decide to defer or to send. *)
DeferOrHold(t) ==
    /\ hold[t] = NoEvent /\ MayRun(t)
    /\ NewEvent
    /\ IF dispatching
       THEN pending' = Append(pending, Event(t)) /\ UNCHANGED hold
       ELSE hold' = [hold EXCEPT ![t] = Event(t)] /\ UNCHANGED pending

(* sendEvent(), second half: the lock is taken again. *)
SendHeld(t) ==
    /\ hold[t] # NoEvent
    /\ MayRun(t)
    /\ SendTo(known_clients, hold[t])
    /\ hold' = [hold EXCEPT ![t] = NoEvent]
    /\ UNCHANGED <<known_clients, dispatching, pending, rx, emitted, received, due>>

WorkerSends(t) ==
    /\ DeferOrHold(t)
    /\ UNCHANGED <<known_clients, dispatching, rx, received, inbox>>

-----------------------------------------------------------------------------
(* on_message_received(), one step per critical section or send. *)
Receive(c, kind) ==
    /\ rx.pc = "idle" /\ received < MaxMessages
    /\ MayRun(Rx)
    /\ received' = received + 1
    /\ known_clients' = known_clients \cup {c}
    /\ rx' = [RxIdle EXCEPT !.pc = IF kind = "other" THEN "other" ELSE "request",
                            !.client = c, !.kind = kind]
    /\ UNCHANGED <<dispatching, pending, hold, emitted, inbox, due>>

StartDispatch ==
    /\ rx.pc = "request"
    /\ dispatching' = TRUE
    /\ rx' = [rx EXCEPT !.pc = "dispatch"]
    /\ UNCHANGED <<known_clients, pending, hold, emitted, received, inbox, due>>

(* A registered handler may send events.  A message that is not a request
   runs the handler too, if there is one, outside of any dispatch.          *)
HandlerSends ==
    /\ \/ rx.pc = "dispatch" /\ rx.kind = "method"
       \/ rx.pc = "other"
    /\ DeferOrHold(Rx)
    /\ UNCHANGED <<known_clients, dispatching, rx, received, inbox>>

OtherDone ==
    /\ rx.pc = "other" /\ hold[Rx] = NoEvent
    /\ rx' = RxIdle
    /\ UNCHANGED <<known_clients, dispatching, pending, hold, emitted, received,
                   inbox, due>>

(* Mistakes: the flag is not reset; the list is copied instead of swapped. *)
EndDispatch_KeepsFlag ==
    /\ rx.pc = "dispatch"
    /\ rx' = [rx EXCEPT !.pc = "respond", !.deferred = pending]
    /\ pending' = <<>>
    /\ UNCHANGED <<known_clients, dispatching, hold, emitted, received, inbox, due>>

EndDispatch_Copies ==
    /\ rx.pc = "dispatch"
    /\ dispatching' = FALSE
    /\ rx' = [rx EXCEPT !.pc = "respond", !.deferred = pending]
    /\ UNCHANGED <<known_clients, pending, hold, emitted, received, inbox, due>>

EndDispatch ==
    /\ rx.pc = "dispatch"
    /\ dispatching' = FALSE
    /\ rx' = [rx EXCEPT !.pc = "respond", !.deferred = pending]
    /\ pending' = <<>>
    /\ UNCHANGED <<known_clients, hold, emitted, received, inbox, due>>

SendResponse ==
    /\ rx.pc = "respond"
    /\ SendTo({rx.client}, Response)
    /\ rx' = [rx EXCEPT !.pc = "snapshot"]
    /\ UNCHANGED <<known_clients, dispatching, pending, hold, emitted, received, due>>

(* Mistake: the snapshot is the requester alone. *)
Snapshot_Requester ==
    /\ rx.pc = "snapshot"
    /\ rx' = [rx EXCEPT !.pc = "flush", !.targets = {rx.client}]
    /\ UNCHANGED <<known_clients, dispatching, pending, hold, emitted, received,
                   inbox, due>>

Snapshot ==
    /\ rx.pc = "snapshot"
    /\ rx' = [rx EXCEPT !.pc = "flush", !.targets = known_clients]
    /\ UNCHANGED <<known_clients, dispatching, pending, hold, emitted, received,
                   inbox, due>>

(* Mistake: last in, first out. *)
SendDeferred_Backwards ==
    /\ rx.pc = "flush" /\ rx.deferred # <<>>
    /\ SendTo(rx.targets, Last(rx.deferred))
    /\ rx' = [rx EXCEPT !.deferred = Front(@)]
    /\ UNCHANGED <<known_clients, dispatching, pending, hold, emitted, received, due>>

SendDeferred ==
    /\ rx.pc = "flush" /\ rx.deferred # <<>>
    /\ SendTo(rx.targets, Head(rx.deferred))
    /\ rx' = [rx EXCEPT !.deferred = Tail(@)]
    /\ UNCHANGED <<known_clients, dispatching, pending, hold, emitted, received, due>>

RequestDone ==
    /\ rx.pc = "flush" /\ rx.deferred = <<>>
    /\ rx' = RxIdle
    /\ UNCHANGED <<known_clients, dispatching, pending, hold, emitted, received,
                   inbox, due>>

ConnectionLost(c) ==
    /\ c \in known_clients
    /\ known_clients' = known_clients \ {c}
    /\ due' = [due EXCEPT ![c] = {}]
    /\ UNCHANGED <<dispatching, pending, rx, hold, emitted, received, inbox>>

-----------------------------------------------------------------------------
RxStep ==
    \/ StartDispatch \/ EndDispatch \/ SendResponse \/ Snapshot
    \/ SendDeferred \/ RequestDone \/ OtherDone \/ SendHeld(Rx)

Step ==
    \/ \E c \in Clients, kind \in {"method", "unknown", "other"} : Receive(c, kind)
    \/ HandlerSends
    \/ RxStep
    \/ \E w \in Workers : WorkerSends(w) \/ SendHeld(w)
    \/ \E c \in Clients : ConnectionLost(c)

Next == Step /\ UNCHANGED cooperative

Spec == Init /\ [][Next]_vars

(* A thread that is inside a call goes on; nobody has to call. *)
FairSpec ==
    /\ Spec
    /\ WF_vars(RxStep /\ UNCHANGED cooperative)
    /\ \A w \in Workers : WF_vars(SendHeld(w) /\ UNCHANGED cooperative)

-----------------------------------------------------------------------------
(* Properties. *)

Ids(s) == {s[i].id : i \in DOMAIN s}
Held == {hold[t].id : t \in Workers \cup {Rx}} \ {0}

(* Where the events are among the messages that client c was sent. *)
EventsAt(c) == {i \in DOMAIN inbox[c] : "id" \in DOMAIN inbox[c][i]}
Delivered(c) == {inbox[c][i].id : i \in EventsAt(c)}

(* What is still on its way to client c. *)
OnItsWay(c) ==
    Ids(pending) \cup Held
        \cup (IF rx.pc = "flush" /\ c \notin rx.targets THEN {} ELSE Ids(rx.deferred))

(* The flag covers exactly the handler of a request, and no event is left
   pending outside of one: there would be nobody to send it.                *)
PendingOnlyInDispatch ==
    /\ dispatching <=> rx.pc = "dispatch"
    /\ pending # <<>> => dispatching

(* No event is lost between the flag, the list, the snapshot of the clients
   and the transport: a client that is known when an event is sent, and is not
   lost since, has the event or will be sent it.                            *)
NothingLost == \A c \in Clients : due[c] \subseteq Delivered(c) \cup OnItsWay(c)

(* No client is sent an event twice, nor has one on two ways at once. *)
NoDuplicates ==
    \A c \in Clients :
        /\ \A i, j \in EventsAt(c) : inbox[c][i].id = inbox[c][j].id => i = j
        /\ Delivered(c) \cap OnItsWay(c) = {}

(* A requester has its response before the events its request caused. *)
ResponseFirst ==
    \A c \in Clients : \A j \in EventsAt(c), i \in DOMAIN inbox[c] \ EventsAt(c) :
        inbox[c][j].cause = inbox[c][i].response => i < j

(* Events that were deferred reach every client in the order in which they
   were sent; on Zephyr, where no event is sent between a dispatch and its
   flush, so do all.                                                        *)
EventsInOrder ==
    \A c \in Clients : \A i, j \in EventsAt(c) :
        /\ i < j
        /\ cooperative \/ (inbox[c][i].deferred /\ inbox[c][j].deferred)
        => inbox[c][i].id < inbox[c][j].id

(* Every event that waits is sent, without another request arriving. *)
EverythingSent ==
    \A n \in 1..MaxEvents :
        (\E c \in Clients : n \in OnItsWay(c)) ~> (\A c \in Clients : n \notin OnItsWay(c))

=============================================================================
