------------------------- MODULE SomeIpServerProofs -------------------------
(* Theorems about SomeIpServer, for any number of clients, threads, messages
   and events, and both ways of scheduling.                                   *)
EXTENDS SomeIpServer, TLAPS

Threads == Workers \cup {Rx}

RxTypes == [pc : {"idle", "request", "dispatch", "respond", "snapshot", "flush", "other"},
            client : Clients \cup {"none"},
            kind : {"none", "method", "unknown", "other"},
            deferred : Seq(Events), targets : SUBSET Clients]

LEMMA RxIdleType == RxIdle \in RxTypes /\ <<>> \in Seq(Events)
<1>1. <<>> \in Seq(Events) OBVIOUS
<1>2. QED BY <1>1 DEF RxIdle, RxTypes

LEMMA RxMovesType ==
    ASSUME NEW r \in RxTypes
    PROVE  /\ \A pc \in {"idle", "request", "dispatch", "respond", "snapshot", "flush",
                           "other"}, c \in Clients,
               kind \in {"method", "unknown", "other"} :
                   [r EXCEPT !.pc = pc, !.client = c, !.kind = kind] \in RxTypes
           /\ \A s \in Seq(Events) :
                   [r EXCEPT !.pc = "respond", !.deferred = s] \in RxTypes
  BY DEF RxTypes

LEMMA InitTypeOK == Init => TypeOK
<1>1. Init => FlagsTypeOK BY Zenon DEF Init, FlagsTypeOK
<1>2. Init => DataTypeOK BY ServerAssumption DEF Init, DataTypeOK, RxIdle
<1>3. QED BY <1>1, <1>2 DEF TypeOK

LEMMA FlagsStep == FlagsTypeOK /\ [Next]_vars => FlagsTypeOK'
<1> SUFFICES ASSUME FlagsTypeOK, [Next]_vars PROVE FlagsTypeOK'
  OBVIOUS
<1>1. UNCHANGED cooperative BY Zenon DEF Next, vars
<1>2. dispatching' = dispatching \/ dispatching' = TRUE \/ dispatching' = FALSE
  BY Zenon
  DEF Next, Step, RxStep, vars, serverVars, Receive, HandlerSends, StartDispatch, EndDispatch,
      SendResponse, Snapshot, SendDeferred, RequestDone, OtherDone, SendHeld, WorkerSends,
      ConnectionLost
<1>3. QED BY <1>1, <1>2, Zenon DEF FlagsTypeOK

(* What is sent to some clients has the type of messages. *)
LEMMA SendToType ==
    ASSUME DataTypeOK, NEW targets, NEW m \in Events \cup Responses, SendTo(targets, m)
    PROVE  inbox' \in [Clients -> Seq(Events \cup Responses)]
  BY DEF DataTypeOK, SendTo

LEMMA DeferOrHoldType ==
    ASSUME TypeOK, NEW t \in Threads, DeferOrHold(t)
    PROVE  /\ emitted' \in 0..MaxEvents
           /\ Event(t) \in Events
           /\ pending' \in Seq(Events)
           /\ hold' \in [Threads -> Events \cup {NoEvent}]
           /\ due' \in [Clients -> SUBSET (1..MaxEvents)]
<1>. USE DEF TypeOK, DataTypeOK
<1>1. emitted \in Nat /\ emitted < MaxEvents /\ emitted' = emitted + 1
  BY ServerAssumption DEF DeferOrHold, NewEvent
<1>2. emitted' \in 1..MaxEvents /\ emitted + 1 \in 1..MaxEvents BY <1>1, ServerAssumption
<1>3. Event(t) \in Events
  <2>1. dispatching \in BOOLEAN BY Zenon DEF FlagsTypeOK
  <2>2. (IF t = Rx /\ dispatching THEN received ELSE 0) \in 0..MaxMessages
    BY ServerAssumption
  <2>3. QED BY <1>2, <2>1, <2>2, Zenon DEF Event, Events, Threads
<1>4. due' \in [Clients -> SUBSET (1..MaxEvents)]
  BY <1>1, <1>2 DEF DeferOrHold, NewEvent
<1>5. \/ pending' = Append(pending, Event(t)) /\ hold' = hold
      \/ hold' = [hold EXCEPT ![t] = Event(t)] /\ pending' = pending
  BY Zenon DEF DeferOrHold
<1>6. pending' \in Seq(Events)
  <2>1. Append(pending, Event(t)) \in Seq(Events) BY <1>3
  <2>2. QED BY <1>5, <2>1
<1>7. hold' \in [Threads -> Events \cup {NoEvent}]
  <2>1. [hold EXCEPT ![t] = Event(t)] \in [Threads -> Events \cup {NoEvent}]
    BY <1>3 DEF Threads
  <2>2. hold \in [Threads -> Events \cup {NoEvent}] BY DEF Threads
  <2>3. QED BY <1>5, <2>1, <2>2
<1>8. QED BY <1>2, <1>3, <1>4, <1>6, <1>7, ServerAssumption

LEMMA NextTypeOK == TypeOK /\ [Next]_vars => TypeOK'
<1> SUFFICES ASSUME TypeOK, [Next]_vars PROVE DataTypeOK'
  BY FlagsStep DEF TypeOK
<1>0. DataTypeOK BY DEF TypeOK
<1>. USE DEF DataTypeOK
<1>1. CASE UNCHANGED vars BY <1>0, <1>1 DEF vars, serverVars
<1>2. ASSUME NEW c \in Clients, NEW kind \in {"method", "unknown", "other"}, Receive(c, kind)
      PROVE  DataTypeOK'
  <2>1. rx' \in RxTypes
    <3>1. (IF kind = "other" THEN "other" ELSE "request") \in {"request", "other"}
      OBVIOUS
    <3>2. QED BY <1>2, <3>1, RxIdleType, RxMovesType DEF Receive
  <2>2. received' \in 0..MaxMessages BY <1>0, <1>2, ServerAssumption DEF Receive
  <2>3. known_clients' \subseteq Clients BY <1>0, <1>2 DEF Receive
  <2>4. QED BY <1>0, <1>2, <2>1, <2>2, <2>3 DEF Receive, RxTypes
<1>3. CASE HandlerSends
  BY <1>0, <1>3, DeferOrHoldType DEF HandlerSends, Threads
<1>4. ASSUME NEW w \in Workers, WorkerSends(w) PROVE DataTypeOK'
  BY <1>0, <1>4, DeferOrHoldType DEF WorkerSends, Threads
<1>5. ASSUME NEW t \in Threads, SendHeld(t) PROVE DataTypeOK'
  <2>1. hold[t] \in Events BY <1>0, <1>5 DEF SendHeld, Threads
  <2>2. inbox' \in [Clients -> Seq(Events \cup Responses)]
    BY <1>0, <1>5, <2>1, SendToType DEF SendHeld
  <2>3. QED BY <1>0, <1>5, <2>2 DEF SendHeld, Threads
<1>6. CASE StartDispatch BY <1>0, <1>6 DEF StartDispatch
<1>7. CASE EndDispatch
  <2>1. rx' \in RxTypes
    <3>1. rx \in RxTypes /\ pending \in Seq(Events) BY <1>0 DEF RxTypes
    <3>2. rx' = [rx EXCEPT !.pc = "respond", !.deferred = pending]
      BY <1>7 DEF EndDispatch
    <3>3. QED BY ONLY <3>1, <3>2, RxMovesType
  <2>2. pending' \in Seq(Events) BY <1>7, RxIdleType DEF EndDispatch
  <2>3. QED BY <1>0, <1>7, <2>1, <2>2 DEF EndDispatch, RxTypes
<1>8. CASE SendResponse
  <2>1. Response \in Responses BY <1>0 DEF Response, Responses
  <2>2. inbox' \in [Clients -> Seq(Events \cup Responses)]
    BY <1>0, <1>8, <2>1, SendToType DEF SendResponse
  <2>3. QED BY <1>0, <1>8, <2>2 DEF SendResponse
<1>9. CASE Snapshot BY <1>0, <1>9 DEF Snapshot
<1>10. CASE SendDeferred
  <2>1. Head(rx.deferred) \in Events /\ Tail(rx.deferred) \in Seq(Events)
    BY <1>0, <1>10 DEF SendDeferred
  <2>2. inbox' \in [Clients -> Seq(Events \cup Responses)]
    BY <1>0, <1>10, <2>1, SendToType DEF SendDeferred
  <2>3. QED BY <1>0, <1>10, <2>1, <2>2 DEF SendDeferred
<1>11. CASE RequestDone \/ OtherDone
  <2>1. rx' \in RxTypes BY <1>11, RxIdleType DEF RequestDone, OtherDone
  <2>2. QED BY <1>0, <1>11, <2>1 DEF RequestDone, OtherDone, RxTypes
<1>12. ASSUME NEW c \in Clients, ConnectionLost(c) PROVE DataTypeOK'
  BY <1>0, <1>12 DEF ConnectionLost
<1>13. QED
  BY <1>1, <1>2, <1>3, <1>4, <1>5, <1>6, <1>7, <1>8, <1>9, <1>10, <1>11, <1>12
  DEF Next, Step, RxStep, Threads

(* Every variable keeps its type. *)
THEOREM ServerTypeCorrect == Spec => []TypeOK
  BY InitTypeOK, NextTypeOK, PTL DEF Spec

-----------------------------------------------------------------------------
(* What is in a sequence of events, and in what a client was sent. *)
LEMMA IdsEmpty == Ids(<<>>) = {}
  BY DEF Ids

LEMMA IdsAreNat == ASSUME NEW s \in Seq(Events) PROVE \A n \in Ids(s) : n \in Nat
<1>1. \A i \in DOMAIN s : s[i] \in Events OBVIOUS
<1>2. \A e \in Events : e.id \in Nat BY ServerAssumption DEF Events
<1>3. QED BY <1>1, <1>2 DEF Ids

LEMMA IdsAppend ==
    ASSUME NEW s \in Seq(Events), NEW e \in Events
    PROVE  Ids(Append(s, e)) = Ids(s) \cup {e.id}
<1>1. Append(s, e) \in Seq(Events) /\ Len(Append(s, e)) = Len(s) + 1 OBVIOUS
<1>2. \A i \in 1..Len(s) : Append(s, e)[i] = s[i] OBVIOUS
<1>3. Append(s, e)[Len(s) + 1] = e OBVIOUS
<1>4. DOMAIN Append(s, e) = 1..(Len(s) + 1) /\ DOMAIN s = 1..Len(s) OBVIOUS
<1>5. \A x \in Ids(Append(s, e)) : x \in Ids(s) \cup {e.id}
  BY <1>2, <1>3, <1>4 DEF Ids
<1>6. \A x \in Ids(s) \cup {e.id} : x \in Ids(Append(s, e))
  BY <1>2, <1>3, <1>4 DEF Ids
<1>7. QED BY <1>5, <1>6

LEMMA IdsHead ==
    ASSUME NEW s \in Seq(Events), s # <<>>
    PROVE  /\ Head(s) \in Events /\ Tail(s) \in Seq(Events)
           /\ Ids(s) = Ids(Tail(s)) \cup {Head(s).id}
<1>1. Head(s) = s[1] /\ Tail(s) \in Seq(Events) /\ Head(s) \in Events OBVIOUS
<1>2. DOMAIN s = 1..Len(s) /\ DOMAIN Tail(s) = 1..(Len(s) - 1) /\ Len(s) \in Nat
      /\ Len(s) # 0
  OBVIOUS
<1>3. \A i \in 1..(Len(s) - 1) : Tail(s)[i] = s[i + 1] OBVIOUS
<1>4. \A x \in Ids(s) : x \in Ids(Tail(s)) \cup {Head(s).id}
  <2>1. ASSUME NEW i \in 1..Len(s), i # 1 PROVE s[i].id \in Ids(Tail(s))
    <3>1. i - 1 \in 1..(Len(s) - 1) /\ (i - 1) + 1 = i BY <2>1, <1>2
    <3>2. Tail(s)[i - 1] = s[i] BY <1>3, <3>1
    <3>3. QED BY <1>2, <3>1, <3>2 DEF Ids
  <2>2. QED BY <1>1, <1>2, <2>1 DEF Ids
<1>5. \A x \in Ids(Tail(s)) \cup {Head(s).id} : x \in Ids(s)
  <2>1. ASSUME NEW i \in 1..(Len(s) - 1) PROVE Tail(s)[i].id \in Ids(s)
    <3>1. i + 1 \in 1..Len(s) BY <1>2
    <3>2. QED BY <1>2, <1>3, <3>1 DEF Ids
  <2>2. Head(s).id \in Ids(s) BY <1>1, <1>2 DEF Ids
  <2>3. QED BY <1>2, <2>1, <2>2 DEF Ids
<1>6. QED BY <1>1, <1>4, <1>5

LEMMA BoxGrows ==
    ASSUME DataTypeOK, NEW c \in Clients, NEW m \in Events \cup Responses,
           inbox'[c] = Append(inbox[c], m)
    PROVE  /\ DOMAIN inbox[c] = 1..Len(inbox[c])
           /\ DOMAIN inbox'[c] = 1..(Len(inbox[c]) + 1)
           /\ Len(inbox[c]) \in Nat
           /\ \A i \in 1..Len(inbox[c]) : inbox'[c][i] = inbox[c][i]
           /\ inbox'[c][Len(inbox[c]) + 1] = m
  BY DEF DataTypeOK

LEMMA EventDelivered ==
    ASSUME DataTypeOK, NEW c \in Clients, NEW e \in Events,
           inbox'[c] = Append(inbox[c], e)
    PROVE  /\ EventsAt(c)' = EventsAt(c) \cup {Len(inbox[c]) + 1}
           /\ Delivered(c)' = Delivered(c) \cup {e.id}
<1>1. "id" \in DOMAIN e BY DEF Events
<1>2. EventsAt(c)' = EventsAt(c) \cup {Len(inbox[c]) + 1}
  BY <1>1, BoxGrows DEF EventsAt
<1>3. \A i \in EventsAt(c) : inbox'[c][i] = inbox[c][i]
  BY BoxGrows DEF EventsAt
<1>4. inbox'[c][Len(inbox[c]) + 1] = e BY BoxGrows
<1>5. QED BY <1>2, <1>3, <1>4 DEF Delivered

LEMMA ResponseDelivered ==
    ASSUME DataTypeOK, NEW c \in Clients, NEW m \in Responses,
           inbox'[c] = Append(inbox[c], m)
    PROVE  EventsAt(c)' = EventsAt(c) /\ Delivered(c)' = Delivered(c)
<1>1. "id" \notin DOMAIN m BY DEF Responses
<1>2. EventsAt(c)' = EventsAt(c)
  BY <1>1, BoxGrows DEF EventsAt
<1>3. \A i \in EventsAt(c) : inbox'[c][i] = inbox[c][i]
  BY BoxGrows DEF EventsAt
<1>4. QED BY <1>2, <1>3 DEF Delivered

-----------------------------------------------------------------------------
(* No event is lost.  What makes it inductive: the local list is empty but
   between the end of a dispatch and the end of its flush; only known clients
   are due anything; the snapshot of a flush has every client still known.    *)
ListEmptyBefore == rx.pc \in {"idle", "request", "dispatch", "other"} => rx.deferred = <<>>
KnownAreDue == \A c \in Clients : c \notin known_clients => due[c] = {}
SnapshotHasKnown == rx.pc = "flush" => known_clients \subseteq rx.targets

LossInv == TypeOK /\ ListEmptyBefore /\ KnownAreDue /\ SnapshotHasKnown /\ NothingLost

(* What was on its way, or is new, is delivered or still on its way. *)
Way(c) == Delivered(c) \cup OnItsWay(c)

LEMMA DeferOrHoldWay ==
    ASSUME LossInv, NEW t \in Threads, DeferOrHold(t), UNCHANGED <<rx, inbox, known_clients>>
    PROVE  ListEmptyBefore' /\ KnownAreDue' /\ SnapshotHasKnown' /\ NothingLost'
<1>0. TypeOK BY DEF LossInv
<1>1. Event(t) \in Events /\ Event(t).id = emitted' BY <1>0, DeferOrHoldType DEF DeferOrHold, NewEvent, Event
<1>2. \A c \in Clients : due'[c] \subseteq due[c] \cup {emitted'}
  BY <1>0 DEF DeferOrHold, NewEvent, TypeOK, DataTypeOK
<1>3. Ids(pending') \cup Held' = Ids(pending) \cup Held \cup {emitted'}
  <2>1. CASE pending' = Append(pending, Event(t)) /\ hold' = hold
    <3>1. Ids(pending') = Ids(pending) \cup {emitted'}
      BY <1>0, <1>1, <2>1, IdsAppend DEF TypeOK, DataTypeOK
    <3>2. Held' = Held BY <2>1 DEF Held
    <3>3. QED BY <3>1, <3>2
  <2>2. CASE hold' = [hold EXCEPT ![t] = Event(t)] /\ pending' = pending
    <3>1. hold[t].id = 0 BY DEF DeferOrHold, NoEvent
    <3>2. emitted' # 0 BY <1>0, ServerAssumption DEF TypeOK, DataTypeOK, DeferOrHold, NewEvent
    <3>3. \A u \in Threads : hold'[u].id = IF u = t THEN emitted' ELSE hold[u].id
      BY <1>0, <1>1, <2>2 DEF TypeOK, DataTypeOK, Threads
    <3>4. Held' = Held \cup {emitted'} BY <3>1, <3>2, <3>3 DEF Held, Threads
    <3>5. QED BY <2>2, <3>4
  <2>3. QED BY <2>1, <2>2, Zenon DEF DeferOrHold
<1>4. \A c \in Clients : Way(c)' = Way(c) \cup {emitted'}
  BY <1>3 DEF Way, OnItsWay, Delivered, EventsAt
<1>5. NothingLost' BY <1>2, <1>4 DEF LossInv, NothingLost, Way
<1>6. KnownAreDue'
  BY <1>0 DEF DeferOrHold, NewEvent, LossInv, KnownAreDue, TypeOK, DataTypeOK
<1>7. QED BY <1>5, <1>6 DEF LossInv, ListEmptyBefore, SnapshotHasKnown

LEMMA SendHeldWay ==
    ASSUME LossInv, NEW t \in Threads, SendHeld(t)
    PROVE  ListEmptyBefore' /\ KnownAreDue' /\ SnapshotHasKnown' /\ NothingLost'
<1>0. TypeOK /\ DataTypeOK BY DEF LossInv, TypeOK
<1>1. hold[t] \in Events BY <1>0 DEF SendHeld, DataTypeOK, Threads
<1>2. \A u \in Threads : hold'[u] = IF u = t THEN NoEvent ELSE hold[u]
  BY <1>0 DEF SendHeld, DataTypeOK, Threads
<1>3. Held \subseteq Held' \cup {hold[t].id} BY <1>2 DEF Held, Threads
<1>4. ASSUME NEW c \in Clients, c \in known_clients
      PROVE  Way(c) \subseteq Way(c)'
  <2>1. inbox'[c] = Append(inbox[c], hold[t])
    BY <1>0, <1>4 DEF SendHeld, SendTo, DataTypeOK
  <2>2. Delivered(c)' = Delivered(c) \cup {hold[t].id}
    BY <1>0, <1>1, <2>1, EventDelivered
  <2>3. QED BY <1>3, <2>2 DEF Way, OnItsWay, SendHeld
<1>5. NothingLost'
  BY <1>4 DEF LossInv, NothingLost, KnownAreDue, Way, SendHeld
<1>6. QED BY <1>5 DEF LossInv, ListEmptyBefore, KnownAreDue, SnapshotHasKnown, SendHeld

LEMMA LossStep == LossInv /\ [Next]_vars => LossInv'
<1> SUFFICES ASSUME LossInv, [Next]_vars
             PROVE  ListEmptyBefore' /\ KnownAreDue' /\ SnapshotHasKnown' /\ NothingLost'
  BY NextTypeOK DEF LossInv
<1>0. TypeOK /\ DataTypeOK BY DEF LossInv, TypeOK
<1>1. CASE UNCHANGED vars
  BY <1>1 DEF vars, serverVars, LossInv, ListEmptyBefore, KnownAreDue, SnapshotHasKnown,
     NothingLost, Delivered, EventsAt, OnItsWay, Held
<1>2. ASSUME NEW c \in Clients, NEW kind \in {"method", "unknown", "other"}, Receive(c, kind)
      PROVE  ListEmptyBefore' /\ KnownAreDue' /\ SnapshotHasKnown' /\ NothingLost'
  <2>1. rx.deferred = <<>> /\ rx'.deferred = <<>> /\ rx.pc # "flush"
        /\ rx'.pc \in {"request", "other"}
    BY <1>0, <1>2 DEF Receive, LossInv, ListEmptyBefore, RxIdle
  <2>2. \A d \in Clients : Way(d)' = Way(d)
    BY <1>2, <2>1 DEF Receive, Way, OnItsWay, Held, Delivered, EventsAt
  <2>3. QED
    BY <1>2, <2>1, <2>2
    DEF Receive, LossInv, ListEmptyBefore, KnownAreDue, SnapshotHasKnown, NothingLost, Way
<1>3. CASE HandlerSends
  BY <1>3, DeferOrHoldWay DEF HandlerSends, Threads
<1>4. ASSUME NEW w \in Workers, WorkerSends(w)
      PROVE  ListEmptyBefore' /\ KnownAreDue' /\ SnapshotHasKnown' /\ NothingLost'
  BY <1>4, DeferOrHoldWay DEF WorkerSends, Threads
<1>5. ASSUME NEW t \in Threads, SendHeld(t)
      PROVE  ListEmptyBefore' /\ KnownAreDue' /\ SnapshotHasKnown' /\ NothingLost'
  BY <1>5, SendHeldWay
<1>6. CASE StartDispatch
  <2>1. rx'.deferred = rx.deferred /\ rx.deferred = <<>> /\ rx.pc # "flush" /\ rx'.pc = "dispatch"
    BY <1>0, <1>6 DEF StartDispatch, DataTypeOK, LossInv, ListEmptyBefore
  <2>2. \A d \in Clients : Way(d)' = Way(d)
    BY <1>6, <2>1 DEF StartDispatch, Way, OnItsWay, Held, Delivered, EventsAt
  <2>3. QED
    BY <1>6, <2>1, <2>2
    DEF StartDispatch, LossInv, ListEmptyBefore, KnownAreDue, SnapshotHasKnown, NothingLost, Way
<1>7. CASE EndDispatch
  <2>1. rx'.deferred = pending /\ rx.deferred = <<>> /\ rx.pc # "flush" /\ rx'.pc = "respond"
    BY <1>0, <1>7 DEF EndDispatch, DataTypeOK, LossInv, ListEmptyBefore
  <2>2. pending' = <<>> /\ UNCHANGED <<hold, inbox, due, known_clients>> BY <1>7 DEF EndDispatch
  <2>3. \A d \in Clients : Way(d)' = Way(d)
    BY <2>1, <2>2, IdsEmpty DEF Way, OnItsWay, Held, Delivered, EventsAt
  <2>4. QED
    BY <2>1, <2>2, <2>3
    DEF LossInv, ListEmptyBefore, KnownAreDue, SnapshotHasKnown, NothingLost, Way
<1>8. CASE SendResponse
  <2>1. rx'.deferred = rx.deferred /\ rx.pc # "flush" /\ rx'.pc = "snapshot"
    BY <1>0, <1>8 DEF SendResponse, DataTypeOK
  <2>2. Response \in Responses BY <1>0 DEF Response, Responses, DataTypeOK
  <2>3. \A d \in Clients : Delivered(d)' = Delivered(d)
    <3>1. TAKE d \in Clients
    <3>2. CASE d = rx.client
      <4>1. inbox'[d] = Append(inbox[d], Response)
        BY <1>0, <1>8, <3>2 DEF SendResponse, SendTo, DataTypeOK
      <4>2. QED BY <1>0, <2>2, <4>1, ResponseDelivered
    <3>3. CASE d # rx.client
      <4>1. inbox'[d] = inbox[d]
        BY <1>0, <1>8, <3>3 DEF SendResponse, SendTo, DataTypeOK
      <4>2. QED BY <4>1 DEF Delivered, EventsAt
    <3>4. QED BY <3>2, <3>3
  <2>4. \A d \in Clients : Way(d)' = Way(d)
    BY <1>8, <2>1, <2>3 DEF SendResponse, Way, OnItsWay, Held
  <2>5. QED
    BY <1>8, <2>1, <2>4
    DEF SendResponse, LossInv, ListEmptyBefore, KnownAreDue, SnapshotHasKnown, NothingLost, Way
<1>9. CASE Snapshot
  <2>1. rx'.deferred = rx.deferred /\ rx'.targets = known_clients /\ rx'.pc = "flush"
        /\ rx.pc # "flush"
    BY <1>0, <1>9 DEF Snapshot, DataTypeOK
  <2>2. \A d \in Clients : d \in known_clients => Way(d)' = Way(d)
    BY <1>9, <2>1 DEF Snapshot, Way, OnItsWay, Held, Delivered, EventsAt
  <2>3. QED
    BY <1>9, <2>1, <2>2
    DEF Snapshot, LossInv, ListEmptyBefore, KnownAreDue, SnapshotHasKnown, NothingLost, Way
<1>10. CASE SendDeferred
  <2>1. rx'.deferred = Tail(rx.deferred) /\ rx'.targets = rx.targets /\ rx'.pc = rx.pc
        /\ rx.pc = "flush"
    BY <1>0, <1>10 DEF SendDeferred, DataTypeOK
  <2>2. Head(rx.deferred) \in Events
        /\ Ids(rx.deferred) = Ids(Tail(rx.deferred)) \cup {Head(rx.deferred).id}
    BY <1>0, <1>10, IdsHead DEF SendDeferred, DataTypeOK
  <2>3. ASSUME NEW d \in Clients, d \in known_clients PROVE Way(d)' = Way(d)
    <3>1. d \in rx.targets BY <2>1, <2>3 DEF LossInv, SnapshotHasKnown
    <3>2. inbox'[d] = Append(inbox[d], Head(rx.deferred))
      BY <1>0, <1>10, <3>1 DEF SendDeferred, SendTo, DataTypeOK
    <3>3. Delivered(d)' = Delivered(d) \cup {Head(rx.deferred).id}
      BY <1>0, <2>2, <3>2, EventDelivered
    <3>4. QED BY <1>10, <2>1, <2>2, <3>1, <3>3 DEF SendDeferred, Way, OnItsWay, Held
  <2>4. QED
    BY <1>10, <2>1, <2>3
    DEF SendDeferred, LossInv, ListEmptyBefore, KnownAreDue, SnapshotHasKnown, NothingLost, Way
<1>11. CASE RequestDone \/ OtherDone
  <2>1. rx'.deferred = <<>> /\ rx.deferred = <<>> /\ rx'.pc = "idle"
    BY <1>0, <1>11 DEF RequestDone, OtherDone, RxIdle, LossInv, ListEmptyBefore
  <2>2. \A d \in Clients : Way(d) \subseteq Way(d)'
    BY <1>11, <2>1, IdsEmpty
    DEF RequestDone, OtherDone, Way, OnItsWay, Held, Delivered, EventsAt
  <2>3. QED
    BY <1>11, <2>1, <2>2
    DEF RequestDone, OtherDone, LossInv, ListEmptyBefore, KnownAreDue, SnapshotHasKnown,
        NothingLost, Way
<1>12. ASSUME NEW c \in Clients, ConnectionLost(c)
       PROVE  ListEmptyBefore' /\ KnownAreDue' /\ SnapshotHasKnown' /\ NothingLost'
  <2>1. \A d \in Clients : due'[d] = IF d = c THEN {} ELSE due[d]
    BY <1>0, <1>12 DEF ConnectionLost, DataTypeOK
  <2>2. \A d \in Clients : Way(d)' = Way(d)
    BY <1>12 DEF ConnectionLost, Way, OnItsWay, Held, Delivered, EventsAt
  <2>3. QED
    BY <1>12, <2>1, <2>2
    DEF ConnectionLost, LossInv, ListEmptyBefore, KnownAreDue, SnapshotHasKnown, NothingLost, Way
<1>13. QED
  BY <1>1, <1>2, <1>3, <1>4, <1>5, <1>6, <1>7, <1>8, <1>9, <1>10, <1>11, <1>12
  DEF Next, Step, RxStep, Threads

LEMMA LossInit == Init => LossInv
<1> SUFFICES ASSUME Init PROVE LossInv OBVIOUS
<1>1. TypeOK BY InitTypeOK
<1>2. ListEmptyBefore /\ KnownAreDue /\ SnapshotHasKnown /\ NothingLost
  BY DEF Init, RxIdle, ListEmptyBefore, KnownAreDue, SnapshotHasKnown, NothingLost
<1>3. QED BY <1>1, <1>2 DEF LossInv

(* A client that is known when an event is sent, and is not lost since, has the
   event or will be sent it: for any number of clients and threads.           *)
THEOREM NothingLostAlways == Spec => []NothingLost
<1>1. LossInv => NothingLost BY DEF LossInv
<1>2. QED BY LossInit, LossStep, <1>1, PTL DEF Spec

-----------------------------------------------------------------------------
(* No event is sent twice.  Every number was given out once, the three ways an
   event can be on are disjoint, and on each way an event is there once.       *)
Numbers(c) == Delivered(c) \cup Ids(pending) \cup Held \cup Ids(rx.deferred)
Distinct(s) == \A i, j \in DOMAIN s : s[i].id = s[j].id => i = j

Fresh == \A c \in Clients : \A n \in Numbers(c) : n <= emitted
AllFresh == \A n \in Ids(pending) \cup Held \cup Ids(rx.deferred) : n <= emitted
OneHolder == \A t, u \in Threads : hold[t].id = hold[u].id /\ hold[t].id # 0 => t = u
WaysApart ==
    /\ Ids(pending) \cap Held = {}
    /\ Ids(rx.deferred) \cap (Ids(pending) \cup Held) = {}

OnOneWay == Fresh /\ AllFresh /\ Distinct(pending) /\ Distinct(rx.deferred)
            /\ OneHolder /\ WaysApart
DupInv == TypeOK /\ OnOneWay /\ NoDuplicates

LEMMA DistinctAppend ==
    ASSUME NEW s \in Seq(Events), NEW e \in Events, Distinct(s), e.id \notin Ids(s)
    PROVE  Distinct(Append(s, e))
<1>1. DOMAIN Append(s, e) = 1..(Len(s) + 1) /\ DOMAIN s = 1..Len(s) /\ Len(s) \in Nat
  OBVIOUS
<1>2. \A i \in 1..Len(s) : Append(s, e)[i] = s[i] OBVIOUS
<1>3. Append(s, e)[Len(s) + 1] = e OBVIOUS
<1>4. \A i \in 1..Len(s) : s[i].id # e.id BY <1>1 DEF Ids
<1>5. QED BY <1>1, <1>2, <1>3, <1>4 DEF Distinct

LEMMA DistinctTail ==
    ASSUME NEW s \in Seq(Events), s # <<>>, Distinct(s)
    PROVE  Distinct(Tail(s)) /\ Head(s).id \notin Ids(Tail(s))
<1>1. DOMAIN s = 1..Len(s) /\ DOMAIN Tail(s) = 1..(Len(s) - 1) /\ Len(s) \in Nat
      /\ Len(s) # 0 /\ Head(s) = s[1]
  OBVIOUS
<1>2. \A i \in 1..(Len(s) - 1) : Tail(s)[i] = s[i + 1] OBVIOUS
<1>3. Distinct(Tail(s)) BY <1>1, <1>2 DEF Distinct
<1>4. \A i \in 1..(Len(s) - 1) : Tail(s)[i].id # Head(s).id BY <1>1, <1>2 DEF Distinct
<1>5. QED BY <1>1, <1>3, <1>4 DEF Ids

(* The first half of NoDuplicates, for one client. *)
Once(c) == \A i, j \in EventsAt(c) : inbox[c][i].id = inbox[c][j].id => i = j

LEMMA OnceDelivered ==
    ASSUME DataTypeOK, NEW c \in Clients, NEW e \in Events,
           inbox'[c] = Append(inbox[c], e), Once(c), e.id \notin Delivered(c)
    PROVE  Once(c)'
<1>1. EventsAt(c)' = EventsAt(c) \cup {Len(inbox[c]) + 1} BY EventDelivered
<1>2. /\ \A i \in EventsAt(c) : inbox'[c][i] = inbox[c][i]
      /\ inbox'[c][Len(inbox[c]) + 1] = e
  BY BoxGrows DEF EventsAt
<1>3. \A i \in EventsAt(c) : inbox[c][i].id # e.id BY DEF Delivered
<1>4. QED BY <1>1, <1>2, <1>3 DEF Once

LEMMA OnceAnswered ==
    ASSUME DataTypeOK, NEW c \in Clients, NEW m \in Responses,
           inbox'[c] = Append(inbox[c], m), Once(c)
    PROVE  Once(c)'
<1>1. EventsAt(c)' = EventsAt(c) BY ResponseDelivered
<1>2. \A i \in EventsAt(c) : inbox'[c][i] = inbox[c][i] BY BoxGrows DEF EventsAt
<1>3. QED BY <1>1, <1>2 DEF Once

(* Steps that move nothing, or let a way end, keep all of it. *)
LEMMA NothingMoves ==
    ASSUME DupInv, UNCHANGED <<pending, hold, inbox, emitted>>,
           rx'.deferred \in {rx.deferred, <<>>},
           \A c \in Clients : OnItsWay(c)' \subseteq OnItsWay(c)
    PROVE  OnOneWay' /\ NoDuplicates'
<1>1. /\ Held' = Held
      /\ Ids(pending)' = Ids(pending)
      /\ \A c \in Clients : Delivered(c)' = Delivered(c) /\ EventsAt(c)' = EventsAt(c)
  BY DEF Held, Delivered, EventsAt
<1>2. Ids(rx'.deferred) \subseteq Ids(rx.deferred) BY IdsEmpty
<1>3. Distinct(rx'.deferred) BY DEF DupInv, OnOneWay, Distinct
<1>4. \A c \in Clients : Numbers(c)' \subseteq Numbers(c) BY <1>1, <1>2 DEF Numbers
<1>5. Fresh' /\ AllFresh' BY <1>1, <1>2, <1>4 DEF DupInv, OnOneWay, Fresh, AllFresh
<1>6. WaysApart' BY <1>1, <1>2 DEF DupInv, OnOneWay, WaysApart
<1>7. OneHolder' BY DEF DupInv, OnOneWay, OneHolder
<1>8. NoDuplicates' BY <1>1 DEF DupInv, NoDuplicates
<1>9. QED BY <1>3, <1>5, <1>6, <1>7, <1>8 DEF DupInv, OnOneWay, Distinct

LEMMA DeferOrHoldOnce ==
    ASSUME DupInv, NEW t \in Threads, DeferOrHold(t), UNCHANGED <<rx, inbox>>
    PROVE  OnOneWay' /\ NoDuplicates'
<1>0. TypeOK /\ DataTypeOK BY DEF DupInv, TypeOK
<1>1. Event(t) \in Events /\ Event(t).id = emitted'
  BY <1>0, DeferOrHoldType DEF DeferOrHold, NewEvent, Event
<1>2. emitted' = emitted + 1 /\ emitted \in Nat
  BY <1>0, ServerAssumption DEF DataTypeOK, DeferOrHold, NewEvent
<1>3. \A c \in Clients : Delivered(c)' = Delivered(c) /\ EventsAt(c)' = EventsAt(c)
  BY DEF Delivered, EventsAt
<1>new. /\ emitted' \notin Ids(pending) \cup Held \cup Ids(rx.deferred)
      /\ \A c \in Clients : emitted' \notin Delivered(c)
  BY <1>2 DEF DupInv, OnOneWay, Fresh, AllFresh, Numbers
<1>4. \/ /\ Ids(pending') = Ids(pending) \cup {emitted'} /\ Held' = Held
         /\ Distinct(pending') /\ hold' = hold
      \/ /\ Held' = Held \cup {emitted'} /\ pending' = pending
         /\ OneHolder'
  <2>1. CASE pending' = Append(pending, Event(t)) /\ hold' = hold
    <3>1. pending \in Seq(Events) BY <1>0 DEF DataTypeOK
    <3>2. Ids(pending') = Ids(pending) \cup {emitted'} BY <1>1, <2>1, <3>1, IdsAppend
    <3>3. Distinct(pending')
      BY <1>1, <1>new, <2>1, <3>1, DistinctAppend DEF DupInv, OnOneWay
    <3>4. QED BY <2>1, <3>2, <3>3 DEF Held
  <2>2. CASE hold' = [hold EXCEPT ![t] = Event(t)] /\ pending' = pending
    <3>1. hold[t].id = 0 BY DEF DeferOrHold, NoEvent
    <3>2. emitted' # 0 BY <1>2
    <3>3. \A u \in Threads : hold'[u].id = IF u = t THEN emitted' ELSE hold[u].id
      BY <1>0, <1>1, <2>2 DEF DataTypeOK, Threads
    <3>4. Held' = Held \cup {emitted'} BY <3>1, <3>2, <3>3 DEF Held, Threads
    <3>5. \A u \in Threads : hold[u].id # emitted'
      BY <1>new, <3>2 DEF Held, Threads
    <3>6. OneHolder' BY <3>3, <3>5 DEF DupInv, OnOneWay, OneHolder
    <3>7. QED BY <2>2, <3>4, <3>6
  <2>3. QED BY <2>1, <2>2, Zenon DEF DeferOrHold
<1>5. /\ Ids(pending') \cup Held' = Ids(pending) \cup Held \cup {emitted'}
      /\ Ids(pending)' \cap Held' = {}
      /\ Distinct(pending') /\ OneHolder'
  BY <1>4, <1>new DEF DupInv, OnOneWay, WaysApart, OneHolder
<1>6. Ids(rx.deferred)' = Ids(rx.deferred) /\ Distinct(rx.deferred)' /\ Distinct(pending)'
  BY <1>5 DEF DupInv, OnOneWay, Distinct
<1>7. WaysApart' BY <1>5, <1>6, <1>new DEF DupInv, OnOneWay, WaysApart
<1>8. /\ \A c \in Clients : Numbers(c)' = Numbers(c) \cup {emitted'}
      /\ \A c \in Clients : OnItsWay(c)' = OnItsWay(c) \cup {emitted'}
  BY <1>3, <1>5, <1>6 DEF Numbers, OnItsWay
<1>9. Fresh' /\ AllFresh'
  <2>1. \A n \in Ids(pending) \cup Held \cup Ids(rx.deferred) : n \in Nat /\ n <= emitted
    <3>1. \A n \in Ids(pending) \cup Ids(rx.deferred) : n \in Nat
      <4>1. pending \in Seq(Events) /\ rx.deferred \in Seq(Events) BY <1>0 DEF DataTypeOK
      <4>2. QED BY <4>1, IdsAreNat
    <3>2. \A n \in Held : n \in Nat
      BY <1>0, ServerAssumption DEF Held, DataTypeOK, Events, NoEvent
    <3>3. QED BY <3>1, <3>2 DEF DupInv, OnOneWay, AllFresh
  <2>2. \A c \in Clients : \A n \in Delivered(c) : n \in Nat /\ n <= emitted
    <3>1. \A c \in Clients : \A i \in EventsAt(c) : inbox[c][i] \in Events
      <4>1. \A c \in Clients : \A i \in DOMAIN inbox[c] : inbox[c][i] \in Events \cup Responses
        BY <1>0 DEF DataTypeOK
      <4>2. \A m \in Responses : "id" \notin DOMAIN m BY DEF Responses
      <4>3. QED BY <4>1, <4>2 DEF EventsAt
    <3>2. QED BY <3>1, ServerAssumption
          DEF Delivered, Events, DupInv, OnOneWay, Fresh, Numbers
  <2>3. QED BY <1>2, <1>5, <1>6, <1>8, <2>1, <2>2 DEF Fresh, AllFresh, Numbers
<1>10. NoDuplicates' BY <1>3, <1>8, <1>new DEF DupInv, NoDuplicates
<1>11. QED BY <1>5, <1>6, <1>7, <1>9, <1>10 DEF OnOneWay

(* One event goes to some of the clients and leaves its way. *)
LEMMA EventGoesOut ==
    ASSUME DupInv, NEW e \in Events, NEW targets, SendTo(targets, e),
           emitted' = emitted, e.id <= emitted,
           Distinct(pending'), Distinct(rx'.deferred), OneHolder',
           Ids(pending') \subseteq Ids(pending), Held' \subseteq Held,
           Ids(rx'.deferred) \subseteq Ids(rx.deferred),
           \A c \in Clients : c \in targets => e.id \in OnItsWay(c),
           \A c \in Clients : OnItsWay(c)' \subseteq OnItsWay(c) \ {e.id}
    PROVE  OnOneWay' /\ NoDuplicates'
<1>0. TypeOK /\ DataTypeOK BY DEF DupInv, TypeOK
<1>1. ASSUME NEW c \in Clients
      PROVE  /\ Once(c)'
             /\ Delivered(c)' \subseteq Delivered(c) \cup {e.id}
             /\ Delivered(c)' \cap OnItsWay(c)' = {}
  <2>1. Once(c) /\ Delivered(c) \cap OnItsWay(c) = {} BY DEF DupInv, NoDuplicates, Once
  <2>2. CASE c \in targets
    <3>1. inbox'[c] = Append(inbox[c], e) BY <1>0, <2>2 DEF SendTo, DataTypeOK
    <3>2. Delivered(c)' = Delivered(c) \cup {e.id} BY <1>0, <3>1, EventDelivered
    <3>3. e.id \notin Delivered(c) BY <2>1, <2>2
    <3>4. Once(c)' BY <1>0, <2>1, <3>1, <3>3, OnceDelivered
    <3>5. QED BY <2>1, <3>2, <3>4
  <2>3. CASE c \notin targets
    <3>1. inbox'[c] = inbox[c] BY <1>0, <2>3 DEF SendTo, DataTypeOK
    <3>2. Delivered(c)' = Delivered(c) /\ Once(c)'
      BY <2>1, <3>1 DEF Delivered, EventsAt, Once
    <3>3. QED BY <2>1, <3>2
  <2>4. QED BY <2>2, <2>3
<1>2. NoDuplicates' BY <1>1 DEF NoDuplicates, Once
<1>3. \A c \in Clients : Numbers(c)' \subseteq Numbers(c) \cup {e.id}
  BY <1>1 DEF Numbers
<1>4. Fresh' /\ AllFresh' BY <1>3 DEF DupInv, OnOneWay, Fresh, AllFresh
<1>5. WaysApart' BY DEF DupInv, OnOneWay, WaysApart
<1>6. QED BY <1>2, <1>4, <1>5 DEF OnOneWay, Distinct

LEMMA SendHeldOnce ==
    ASSUME DupInv, NEW t \in Threads, SendHeld(t)
    PROVE  OnOneWay' /\ NoDuplicates'
<1>0. TypeOK /\ DataTypeOK BY DEF DupInv, TypeOK
<1>1. hold[t] \in Events /\ hold[t].id # 0 BY <1>0 DEF SendHeld, DataTypeOK, Threads, Events
<1>2. \A u \in Threads : hold'[u].id = IF u = t THEN 0 ELSE hold[u].id
  BY <1>0 DEF SendHeld, DataTypeOK, Threads, NoEvent
<1>3. hold[t].id \in Held BY <1>1 DEF Held, Threads
<1>4. OneHolder' /\ Held' = Held \ {hold[t].id}
  BY <1>1, <1>2 DEF DupInv, OnOneWay, OneHolder, Held, Threads
<1>5. Distinct(pending') /\ Distinct(rx'.deferred) BY DEF SendHeld, DupInv, OnOneWay, Distinct
<1>6. \A c \in Clients : OnItsWay(c)' \subseteq OnItsWay(c) \ {hold[t].id}
  BY <1>3, <1>4 DEF OnItsWay, SendHeld, DupInv, OnOneWay, WaysApart
<1>7. \A c \in Clients : hold[t].id \in OnItsWay(c) BY <1>3 DEF OnItsWay
<1>8. hold[t].id <= emitted BY <1>3 DEF DupInv, OnOneWay, AllFresh
<1>9. QED
  BY <1>1, <1>4, <1>5, <1>6, <1>7, <1>8, EventGoesOut DEF SendHeld

LEMMA DupStep == DupInv /\ [Next]_vars => DupInv'
<1> SUFFICES ASSUME DupInv, [Next]_vars PROVE OnOneWay' /\ NoDuplicates'
  BY NextTypeOK DEF DupInv
<1>0. TypeOK /\ DataTypeOK BY DEF DupInv, TypeOK
<1>1. CASE UNCHANGED vars
  <2>1. \A c \in Clients : OnItsWay(c)' = OnItsWay(c)
    BY <1>1 DEF vars, serverVars, OnItsWay, Held
  <2>2. QED BY <1>1, <2>1, NothingMoves DEF vars, serverVars
<1>2. ASSUME NEW c \in Clients, NEW kind \in {"method", "unknown", "other"}, Receive(c, kind)
      PROVE  OnOneWay' /\ NoDuplicates'
  <2>1. rx'.deferred = <<>> BY <1>2 DEF Receive, RxIdle
  <2>2. \A d \in Clients : OnItsWay(d)' \subseteq OnItsWay(d)
    BY <1>2, <2>1, IdsEmpty DEF Receive, OnItsWay, Held
  <2>3. QED BY <1>2, <2>1, <2>2, NothingMoves DEF Receive
<1>3. CASE HandlerSends BY <1>3, DeferOrHoldOnce DEF HandlerSends, Threads
<1>4. ASSUME NEW w \in Workers, WorkerSends(w) PROVE OnOneWay' /\ NoDuplicates'
  BY <1>4, DeferOrHoldOnce DEF WorkerSends, Threads
<1>5. ASSUME NEW t \in Threads, SendHeld(t) PROVE OnOneWay' /\ NoDuplicates'
  BY <1>5, SendHeldOnce
<1>6. CASE StartDispatch
  <2>1. rx'.deferred = rx.deferred /\ rx.pc # "flush"
    BY <1>0, <1>6 DEF StartDispatch, DataTypeOK
  <2>2. \A d \in Clients : OnItsWay(d)' \subseteq OnItsWay(d)
    BY <1>6, <2>1 DEF StartDispatch, OnItsWay, Held
  <2>3. QED BY <1>6, <2>1, <2>2, NothingMoves DEF StartDispatch
<1>7. CASE EndDispatch
  <2>1. rx'.deferred = pending /\ rx.pc # "flush" BY <1>0, <1>7 DEF EndDispatch, DataTypeOK
  <2>2. pending' = <<>> /\ Ids(pending') = {} /\ UNCHANGED <<hold, inbox, emitted>>
    BY <1>7, IdsEmpty DEF EndDispatch
  <2>3. /\ Held' = Held
        /\ \A d \in Clients : Delivered(d)' = Delivered(d) /\ EventsAt(d)' = EventsAt(d)
    BY <2>2 DEF Held, Delivered, EventsAt
  <2>4. Distinct(pending') /\ Distinct(rx'.deferred)
    BY <2>1, <2>2 DEF DupInv, OnOneWay, Distinct
  <2>5. WaysApart' BY <2>1, <2>2, <2>3 DEF DupInv, OnOneWay, WaysApart
  <2>6. OneHolder' BY <2>2 DEF DupInv, OnOneWay, OneHolder
  <2>7. \A d \in Clients : Numbers(d)' \subseteq Numbers(d) /\ OnItsWay(d)' \subseteq OnItsWay(d)
    BY <2>1, <2>2, <2>3 DEF Numbers, OnItsWay
  <2>8. Fresh' /\ AllFresh'
    BY <2>1, <2>2, <2>3, <2>7 DEF DupInv, OnOneWay, Fresh, AllFresh
  <2>9. NoDuplicates' BY <2>2, <2>3, <2>7 DEF DupInv, NoDuplicates
  <2>10. QED BY <2>4, <2>5, <2>6, <2>8, <2>9 DEF OnOneWay, Distinct
<1>8. CASE SendResponse
  <2>1. rx'.deferred = rx.deferred /\ rx.pc # "flush" /\ rx'.pc = "snapshot"
        /\ UNCHANGED <<pending, hold, emitted>>
    BY <1>0, <1>8 DEF SendResponse, DataTypeOK
  <2>2. Response \in Responses BY <1>0 DEF Response, Responses, DataTypeOK
  <2>3. ASSUME NEW d \in Clients PROVE Delivered(d)' = Delivered(d) /\ Once(d)'
    <3>1. Once(d) BY DEF DupInv, NoDuplicates, Once
    <3>2. CASE d = rx.client
      <4>1. inbox'[d] = Append(inbox[d], Response)
        BY <1>0, <1>8, <3>2 DEF SendResponse, SendTo, DataTypeOK
      <4>2. QED BY <1>0, <2>2, <3>1, <4>1, ResponseDelivered, OnceAnswered
    <3>3. CASE d # rx.client
      <4>1. inbox'[d] = inbox[d]
        BY <1>0, <1>8, <3>3 DEF SendResponse, SendTo, DataTypeOK
      <4>2. QED BY <3>1, <4>1 DEF Delivered, EventsAt, Once
    <3>4. QED BY <3>2, <3>3
  <2>4. Held' = Held /\ OneHolder' /\ WaysApart' /\ AllFresh'
    BY <2>1 DEF Held, DupInv, OnOneWay, OneHolder, WaysApart, AllFresh
  <2>5. \A d \in Clients : Numbers(d)' = Numbers(d) /\ OnItsWay(d)' = OnItsWay(d)
    BY <2>1, <2>3, <2>4 DEF Numbers, OnItsWay
  <2>6. Fresh' BY <2>1, <2>5 DEF DupInv, OnOneWay, Fresh
  <2>7. NoDuplicates' BY <2>3, <2>5 DEF DupInv, NoDuplicates, Once
  <2>8. QED BY <2>1, <2>4, <2>6, <2>7 DEF DupInv, OnOneWay, Distinct
<1>9. CASE Snapshot
  <2>1. rx'.deferred = rx.deferred /\ rx.pc # "flush" BY <1>0, <1>9 DEF Snapshot, DataTypeOK
  <2>2. \A d \in Clients : OnItsWay(d)' \subseteq OnItsWay(d)
    BY <1>9, <2>1 DEF Snapshot, OnItsWay, Held
  <2>3. QED BY <1>9, <2>1, <2>2, NothingMoves DEF Snapshot
<1>10. CASE SendDeferred
  <2>0. /\ rx.pc = "flush" /\ rx.deferred # <<>> /\ UNCHANGED <<pending, hold, emitted>>
        /\ rx.deferred \in Seq(Events) /\ Distinct(rx.deferred)
        /\ SendTo(rx.targets, Head(rx.deferred))
    BY <1>0, <1>10 DEF SendDeferred, DataTypeOK, DupInv, OnOneWay
  <2>1. rx'.deferred = Tail(rx.deferred) /\ rx'.targets = rx.targets /\ rx'.pc = rx.pc
    BY <1>0, <1>10 DEF SendDeferred, DataTypeOK
  <2>2. /\ Head(rx.deferred) \in Events
        /\ Ids(rx.deferred) = Ids(Tail(rx.deferred)) \cup {Head(rx.deferred).id}
    BY <2>0, IdsHead
  <2>3. Distinct(Tail(rx.deferred)) /\ Head(rx.deferred).id \notin Ids(Tail(rx.deferred))
    BY <2>0, DistinctTail
  <2>4. Held' = Held /\ OneHolder' /\ Distinct(pending') /\ Ids(pending') = Ids(pending)
    BY <2>0 DEF Held, DupInv, OnOneWay, OneHolder
  <2>5. \A d \in Clients : d \in rx.targets => Head(rx.deferred).id \in OnItsWay(d)
    BY <2>0, <2>2 DEF OnItsWay
  <2>6. \A d \in Clients : OnItsWay(d)' \subseteq OnItsWay(d) \ {Head(rx.deferred).id}
    BY <2>0, <2>1, <2>2, <2>3, <2>4 DEF OnItsWay, DupInv, OnOneWay, WaysApart
  <2>7. Head(rx.deferred).id <= emitted BY <2>2 DEF DupInv, OnOneWay, AllFresh
  <2>8. QED BY <2>0, <2>1, <2>2, <2>3, <2>4, <2>5, <2>6, <2>7, EventGoesOut
<1>11. CASE RequestDone \/ OtherDone
  <2>1. rx'.deferred = <<>> BY <1>11 DEF RequestDone, OtherDone, RxIdle
  <2>2. \A d \in Clients : OnItsWay(d)' \subseteq OnItsWay(d)
    BY <1>11, <2>1, IdsEmpty DEF RequestDone, OtherDone, OnItsWay, Held
  <2>3. QED BY <1>11, <2>1, <2>2, NothingMoves DEF RequestDone, OtherDone
<1>12. ASSUME NEW c \in Clients, ConnectionLost(c) PROVE OnOneWay' /\ NoDuplicates'
  <2>1. \A d \in Clients : OnItsWay(d)' = OnItsWay(d)
    BY <1>12 DEF ConnectionLost, OnItsWay, Held
  <2>2. QED BY <1>12, <2>1, NothingMoves DEF ConnectionLost
<1>13. QED
  BY <1>1, <1>2, <1>3, <1>4, <1>5, <1>6, <1>7, <1>8, <1>9, <1>10, <1>11, <1>12
  DEF Next, Step, RxStep, Threads

LEMMA DupInit == Init => DupInv
<1> SUFFICES ASSUME Init PROVE DupInv OBVIOUS
<1>1. pending = <<>> /\ rx.deferred = <<>> /\ Held = {} BY DEF Init, RxIdle, Held, NoEvent
<1>2. \A c \in Clients : EventsAt(c) = {} /\ Delivered(c) = {} BY DEF Init, EventsAt, Delivered
<1>3. OneHolder BY DEF Init, OneHolder, NoEvent, Threads
<1>4. OnOneWay
  BY <1>1, <1>2, <1>3, IdsEmpty DEF OnOneWay, Fresh, AllFresh, Distinct, WaysApart, Numbers
<1>5. NoDuplicates BY <1>2 DEF NoDuplicates
<1>6. QED BY <1>4, <1>5, InitTypeOK DEF DupInv

(* No client is sent an event twice, whichever way the event went: deferred and
   flushed by the receive thread, or sent by its own.                         *)
THEOREM NoDuplicatesAlways == Spec => []NoDuplicates
<1>1. DupInv => NoDuplicates BY DEF DupInv
<1>2. QED BY DupInit, DupStep, <1>1, PTL DEF Spec

-----------------------------------------------------------------------------
(* The response is first.  An event that a thread sends at once was caused by
   no request; until the response is sent, no client has an event the request
   caused; the rest is how the events get there.                              *)
AtOnceHasNoCause == \A t \in Threads : hold[t] # NoEvent => hold[t].cause = 0
AnsweredLater == rx.pc \in {"request", "dispatch", "respond"} => received # 0
CausesSoFar == \A c \in Clients : \A j \in EventsAt(c) : inbox[c][j].cause <= received
WaitingCauses ==
    /\ \A i \in DOMAIN pending : pending[i].cause <= received
    /\ \A i \in DOMAIN rx.deferred : rx.deferred[i].cause <= received
NoneBefore ==
    rx.pc \in {"request", "dispatch", "respond"} =>
        \A c \in Clients : \A j \in EventsAt(c) : inbox[c][j].cause # received

CauseInv == /\ AtOnceHasNoCause /\ AnsweredLater /\ CausesSoFar /\ WaitingCauses /\ NoneBefore
            /\ ResponseFirst
FirstInv == TypeOK /\ CauseInv

(* ResponseFirst and its causes, for one client. *)
FirstFor(c) ==
    \A j \in EventsAt(c), i \in DOMAIN inbox[c] \ EventsAt(c) :
        inbox[c][j].cause = inbox[c][i].response => i < j

LEMMA CausesInDomain ==
    ASSUME DataTypeOK
    PROVE  /\ received \in Nat
           /\ \A c \in Clients : \A j \in EventsAt(c) :
                  inbox[c][j] \in Events /\ inbox[c][j].cause \in Nat
           /\ \A e \in Events : e.cause \in Nat
<1>1. \A c \in Clients : \A i \in DOMAIN inbox[c] : inbox[c][i] \in Events \cup Responses
  BY DEF DataTypeOK
<1>2. \A m \in Responses : "id" \notin DOMAIN m BY DEF Responses
<1>3. \A e \in Events : e.cause \in Nat BY ServerAssumption DEF Events
<1>4. received \in Nat BY ServerAssumption DEF DataTypeOK
<1>5. QED BY <1>1, <1>2, <1>3, <1>4 DEF EventsAt

(* An event goes to some clients, when its cause is not being answered. *)
LEMMA EventKeepsFirst ==
    ASSUME FirstInv, NEW e \in Events, NEW targets, SendTo(targets, e),
           UNCHANGED received, e.cause <= received,
           rx'.pc = rx.pc,
           rx.pc \in {"request", "dispatch", "respond"} => e.cause # received
    PROVE  CausesSoFar' /\ NoneBefore' /\ ResponseFirst'
<1>0. TypeOK /\ DataTypeOK BY DEF FirstInv, TypeOK
<1>1. ASSUME NEW c \in Clients
      PROVE  /\ FirstFor(c)'
             /\ \A j \in EventsAt(c)' : /\ inbox'[c][j].cause <= received
                                        /\ rx.pc \in {"request", "dispatch", "respond"} =>
                                               inbox'[c][j].cause # received
  <2>1. /\ FirstFor(c)
        /\ \A j \in EventsAt(c) : /\ inbox[c][j].cause <= received
                                  /\ rx.pc \in {"request", "dispatch", "respond"} =>
                                         inbox[c][j].cause # received
    BY DEF FirstInv, CauseInv, ResponseFirst, FirstFor, CausesSoFar, NoneBefore
  <2>2. CASE c \in targets
    <3>1. inbox'[c] = Append(inbox[c], e) BY <1>0, <2>2 DEF SendTo, DataTypeOK
    <3>2. EventsAt(c)' = EventsAt(c) \cup {Len(inbox[c]) + 1} BY <1>0, <3>1, EventDelivered
    <3>3. /\ DOMAIN inbox[c] = 1..Len(inbox[c])
          /\ DOMAIN inbox'[c] = 1..(Len(inbox[c]) + 1)
          /\ Len(inbox[c]) \in Nat
          /\ \A i \in 1..Len(inbox[c]) : inbox'[c][i] = inbox[c][i]
          /\ inbox'[c][Len(inbox[c]) + 1] = e
      BY <1>0, <3>1, BoxGrows
    <3>4. EventsAt(c) \subseteq 1..Len(inbox[c]) BY <3>3 DEF EventsAt
    <3>5. DOMAIN inbox'[c] \ EventsAt(c)' = DOMAIN inbox[c] \ EventsAt(c)
      BY <3>2, <3>3, <3>4
    <3>6. FirstFor(c)' BY <2>1, <3>2, <3>3, <3>4, <3>5 DEF FirstFor
    <3>7. QED BY <2>1, <3>2, <3>3, <3>4, <3>6
  <2>3. CASE c \notin targets
    <3>1. inbox'[c] = inbox[c] BY <1>0, <2>3 DEF SendTo, DataTypeOK
    <3>2. QED BY <2>1, <3>1 DEF EventsAt, FirstFor
  <2>4. QED BY <2>2, <2>3
<1>2. CausesSoFar' BY <1>1 DEF CausesSoFar
<1>3. NoneBefore' BY <1>1 DEF NoneBefore
<1>4. ResponseFirst' BY <1>1, Zenon DEF ResponseFirst, FirstFor
<1>5. QED BY <1>2, <1>3, <1>4

LEMMA DeferOrHoldFirst ==
    ASSUME FirstInv, NEW t \in Threads, DeferOrHold(t), UNCHANGED <<rx, inbox, received>>
    PROVE  CauseInv'
<1>0. TypeOK /\ DataTypeOK BY DEF FirstInv, TypeOK
<1>1. Event(t) \in Events BY <1>0, DeferOrHoldType
<1>2. Event(t).cause = (IF t = Rx /\ dispatching THEN received ELSE 0) BY DEF Event
<1>3. received \in Nat BY <1>0, CausesInDomain
<1>4. Event(t).cause <= received BY <1>2, <1>3
<1>5. \/ pending' = Append(pending, Event(t)) /\ hold' = hold
      \/ hold' = [hold EXCEPT ![t] = Event(t)] /\ pending' = pending /\ Event(t).cause = 0
  <2>1. CASE dispatching BY <2>1, Zenon DEF DeferOrHold
  <2>2. CASE ~dispatching
    <3>1. Event(t).cause = 0 BY <1>2, <2>2, Zenon
    <3>2. QED BY <2>2, <3>1, Zenon DEF DeferOrHold
  <2>3. QED BY <2>1, <2>2
<1>6. \A i \in DOMAIN pending' : pending'[i].cause <= received
  <2>1. pending \in Seq(Events) BY <1>0 DEF DataTypeOK
  <2>2. DOMAIN Append(pending, Event(t)) = 1..(Len(pending) + 1)
        /\ DOMAIN pending = 1..Len(pending) /\ Len(pending) \in Nat
    BY <1>1, <2>1
  <2>3. \A i \in 1..Len(pending) : Append(pending, Event(t))[i] = pending[i] BY <1>1, <2>1
  <2>4. Append(pending, Event(t))[Len(pending) + 1] = Event(t) BY <1>1, <2>1
  <2>5. \A i \in DOMAIN pending : pending[i].cause <= received
    BY DEF FirstInv, CauseInv, WaitingCauses
  <2>6. QED BY <1>4, <1>5, <2>2, <2>3, <2>4, <2>5
<1>7. WaitingCauses' BY <1>6 DEF FirstInv, CauseInv, WaitingCauses
<1>8. AtOnceHasNoCause'
  BY <1>0, <1>5 DEF FirstInv, CauseInv, AtOnceHasNoCause, DataTypeOK, Threads
<1>9. AnsweredLater' /\ CausesSoFar' /\ NoneBefore' /\ ResponseFirst'
  BY DEF FirstInv, CauseInv, AnsweredLater, CausesSoFar, NoneBefore, ResponseFirst, EventsAt
<1>10. QED BY <1>7, <1>8, <1>9 DEF CauseInv

LEMMA FirstStep == FirstInv /\ [Next]_vars => FirstInv'
<1> SUFFICES ASSUME FirstInv, [Next]_vars PROVE CauseInv'
  BY NextTypeOK DEF FirstInv
<1>0. TypeOK /\ DataTypeOK BY DEF FirstInv, TypeOK
<1>. USE DEF FirstInv, CauseInv
<1>1. CASE UNCHANGED vars
  BY <1>1 DEF vars, serverVars, AtOnceHasNoCause, AnsweredLater, CausesSoFar, WaitingCauses,
     NoneBefore, ResponseFirst, EventsAt
<1>2. ASSUME NEW c \in Clients, NEW kind \in {"method", "unknown", "other"}, Receive(c, kind)
      PROVE  CauseInv'
  <2>1. rx'.deferred = <<>> BY <1>2 DEF Receive, RxIdle
  <2>2. received' = received + 1 /\ received \in Nat /\ UNCHANGED <<pending, hold, inbox>>
    BY <1>0, <1>2, CausesInDomain DEF Receive
  <2>3. \A d \in Clients : EventsAt(d)' = EventsAt(d) BY <2>2 DEF EventsAt
  <2>4. CausesSoFar' /\ NoneBefore'
    BY <1>0, <2>2, <2>3, CausesInDomain DEF CausesSoFar, NoneBefore
  <2>5. \A i \in DOMAIN pending : pending[i].cause \in Nat
    <3>1. pending \in Seq(Events) BY <1>0 DEF DataTypeOK
    <3>2. QED BY <1>0, <3>1, CausesInDomain
  <2>6. WaitingCauses' BY <2>1, <2>2, <2>5 DEF WaitingCauses
  <2>7. AtOnceHasNoCause' /\ AnsweredLater' /\ ResponseFirst'
    BY <2>2, <2>3 DEF AtOnceHasNoCause, AnsweredLater, ResponseFirst
  <2>8. QED BY <2>4, <2>6, <2>7
<1>3. CASE HandlerSends BY <1>3, DeferOrHoldFirst DEF HandlerSends, Threads
<1>4. ASSUME NEW w \in Workers, WorkerSends(w) PROVE CauseInv'
  BY <1>4, DeferOrHoldFirst DEF WorkerSends, Threads
<1>5. ASSUME NEW t \in Threads, SendHeld(t) PROVE CauseInv'
  <2>1. hold[t] \in Events /\ hold[t].cause = 0
    BY <1>0, <1>5 DEF SendHeld, DataTypeOK, Threads, AtOnceHasNoCause
  <2>2. SendTo(known_clients, hold[t]) /\ UNCHANGED <<rx, pending, received>>
    BY <1>5 DEF SendHeld
  <2>3. 0 <= received BY <1>0, CausesInDomain
  <2>4. CausesSoFar' /\ NoneBefore' /\ ResponseFirst'
    BY <2>1, <2>2, <2>3, EventKeepsFirst DEF AnsweredLater
  <2>5. AtOnceHasNoCause'
    BY <1>0, <1>5 DEF SendHeld, AtOnceHasNoCause, DataTypeOK, Threads
  <2>6. QED BY <2>2, <2>4, <2>5 DEF AnsweredLater, WaitingCauses
<1>6. CASE StartDispatch
  <2>1. rx'.deferred = rx.deferred /\ rx.pc = "request"
    BY <1>0, <1>6 DEF StartDispatch, DataTypeOK
  <2>2. QED
    BY <1>6, <2>1 DEF StartDispatch, AtOnceHasNoCause, AnsweredLater, CausesSoFar,
       WaitingCauses, NoneBefore, ResponseFirst, EventsAt
<1>7. CASE EndDispatch
  <2>1. rx'.deferred = pending /\ rx.pc = "dispatch" /\ pending' = <<>>
    BY <1>0, <1>7 DEF EndDispatch, DataTypeOK
  <2>2. QED
    BY <1>7, <2>1 DEF EndDispatch, AtOnceHasNoCause, AnsweredLater, CausesSoFar,
       WaitingCauses, NoneBefore, ResponseFirst, EventsAt
<1>8. CASE SendResponse
  <2>1. /\ rx'.deferred = rx.deferred /\ rx.pc = "respond" /\ rx'.pc = "snapshot"
        /\ UNCHANGED <<pending, hold, received>>
    BY <1>0, <1>8 DEF SendResponse, DataTypeOK
  <2>2. Response \in Responses /\ Response.response = received
    BY <1>0 DEF Response, Responses, DataTypeOK
  <2>3. ASSUME NEW d \in Clients
        PROVE  /\ FirstFor(d)'
               /\ \A j \in EventsAt(d)' : inbox'[d][j].cause <= received
    <3>1. /\ FirstFor(d)
          /\ \A j \in EventsAt(d) : inbox[d][j].cause <= received /\ inbox[d][j].cause # received
      BY <2>1 DEF ResponseFirst, FirstFor, CausesSoFar, NoneBefore
    <3>2. CASE d = rx.client
      <4>1. inbox'[d] = Append(inbox[d], Response)
        BY <1>0, <1>8, <3>2 DEF SendResponse, SendTo, DataTypeOK
      <4>2. EventsAt(d)' = EventsAt(d) BY <1>0, <2>2, <4>1, ResponseDelivered
      <4>3. /\ DOMAIN inbox[d] = 1..Len(inbox[d])
            /\ DOMAIN inbox'[d] = 1..(Len(inbox[d]) + 1)
            /\ Len(inbox[d]) \in Nat
            /\ \A i \in 1..Len(inbox[d]) : inbox'[d][i] = inbox[d][i]
            /\ inbox'[d][Len(inbox[d]) + 1] = Response
        BY <1>0, <2>2, <4>1, BoxGrows
      <4>4. \A j \in EventsAt(d) : inbox'[d][j] = inbox[d][j] BY <4>3 DEF EventsAt
      <4>5. DOMAIN inbox'[d] \ EventsAt(d)'
                = (DOMAIN inbox[d] \ EventsAt(d)) \cup {Len(inbox[d]) + 1}
        BY <4>2, <4>3 DEF EventsAt
      <4>6. \A j \in EventsAt(d)' : inbox'[d][j].cause # inbox'[d][Len(inbox[d]) + 1].response
        BY <2>2, <3>1, <4>2, <4>3, <4>4
      <4>7. FirstFor(d)' BY <3>1, <4>2, <4>3, <4>4, <4>5, <4>6 DEF FirstFor
      <4>8. QED BY <3>1, <4>2, <4>4, <4>7
    <3>3. CASE d # rx.client
      <4>1. inbox'[d] = inbox[d]
        BY <1>0, <1>8, <3>3 DEF SendResponse, SendTo, DataTypeOK
      <4>2. QED BY <3>1, <4>1 DEF EventsAt, FirstFor
    <3>4. QED BY <3>2, <3>3
  <2>4. CausesSoFar' /\ ResponseFirst' BY <2>1, <2>3 DEF CausesSoFar, ResponseFirst, FirstFor
  <2>5. QED
    BY <2>1, <2>4 DEF AtOnceHasNoCause, AnsweredLater, WaitingCauses, NoneBefore
<1>9. CASE Snapshot
  <2>1. rx'.deferred = rx.deferred /\ rx'.pc = "flush"
    BY <1>0, <1>9 DEF Snapshot, DataTypeOK
  <2>2. QED
    BY <1>9, <2>1 DEF Snapshot, AtOnceHasNoCause, AnsweredLater, CausesSoFar,
       WaitingCauses, NoneBefore, ResponseFirst, EventsAt
<1>10. CASE SendDeferred
  <2>0. /\ rx.pc = "flush" /\ rx.deferred # <<>> /\ UNCHANGED <<pending, hold, received>>
        /\ rx.deferred \in Seq(Events)
        /\ SendTo(rx.targets, Head(rx.deferred))
    BY <1>0, <1>10 DEF SendDeferred, DataTypeOK
  <2>1. rx'.deferred = Tail(rx.deferred) /\ rx'.pc = rx.pc
    BY <1>0, <1>10 DEF SendDeferred, DataTypeOK
  <2>2. /\ DOMAIN rx.deferred = 1..Len(rx.deferred)
        /\ DOMAIN Tail(rx.deferred) = 1..(Len(rx.deferred) - 1)
        /\ Len(rx.deferred) \in Nat /\ Len(rx.deferred) # 0
        /\ Head(rx.deferred) = rx.deferred[1] /\ Head(rx.deferred) \in Events
        /\ \A i \in 1..(Len(rx.deferred) - 1) : Tail(rx.deferred)[i] = rx.deferred[i + 1]
    BY <2>0
  <2>3. Head(rx.deferred).cause <= received BY <2>2 DEF WaitingCauses
  <2>4. CausesSoFar' /\ NoneBefore' /\ ResponseFirst'
    BY <2>0, <2>1, <2>2, <2>3, EventKeepsFirst
  <2>5. WaitingCauses' BY <2>0, <2>1, <2>2 DEF WaitingCauses
  <2>6. QED BY <2>0, <2>1, <2>4, <2>5 DEF AtOnceHasNoCause, AnsweredLater
<1>11. CASE RequestDone \/ OtherDone
  <2>1. rx'.deferred = <<>> /\ rx'.pc = "idle" BY <1>11 DEF RequestDone, OtherDone, RxIdle
  <2>2. QED
    BY <1>11, <2>1 DEF RequestDone, OtherDone, AtOnceHasNoCause, AnsweredLater, CausesSoFar,
       WaitingCauses, NoneBefore, ResponseFirst, EventsAt
<1>12. ASSUME NEW c \in Clients, ConnectionLost(c) PROVE CauseInv'
  BY <1>12 DEF ConnectionLost, AtOnceHasNoCause, AnsweredLater, CausesSoFar,
     WaitingCauses, NoneBefore, ResponseFirst, EventsAt
<1>13. QED
  BY <1>1, <1>2, <1>3, <1>4, <1>5, <1>6, <1>7, <1>8, <1>9, <1>10, <1>11, <1>12
  DEF Next, Step, RxStep, Threads

LEMMA FirstInit == Init => FirstInv
<1> SUFFICES ASSUME Init PROVE FirstInv OBVIOUS
<1>1. \A c \in Clients : EventsAt(c) = {} /\ DOMAIN inbox[c] = {} BY DEF Init, EventsAt
<1>2. pending = <<>> /\ rx.deferred = <<>> /\ rx.pc = "idle" BY DEF Init, RxIdle
<1>3. AtOnceHasNoCause BY DEF Init, AtOnceHasNoCause, Threads
<1>4. QED
  BY <1>1, <1>2, <1>3, InitTypeOK
  DEF FirstInv, CauseInv, AnsweredLater, CausesSoFar, WaitingCauses, NoneBefore, ResponseFirst

(* A requester has its response before the events its request caused, whatever
   the other threads send meanwhile.                                          *)
THEOREM ResponseFirstAlways == Spec => []ResponseFirst
<1>1. FirstInv => ResponseFirst BY DEF FirstInv, CauseInv
<1>2. QED BY FirstInit, FirstStep, <1>1, PTL DEF Spec

-----------------------------------------------------------------------------
(* The flag covers exactly the dispatch of a request, and nothing is pending
   outside of one.                                                            *)
LEMMA PendingStep ==
    TypeOK /\ PendingOnlyInDispatch /\ [Next]_vars => PendingOnlyInDispatch'
<1> SUFFICES ASSUME TypeOK, PendingOnlyInDispatch, [Next]_vars PROVE PendingOnlyInDispatch'
  OBVIOUS
<1>0. DataTypeOK BY DEF TypeOK
<1>1. CASE UNCHANGED vars BY <1>1, Zenon DEF vars, serverVars, PendingOnlyInDispatch
<1>2. ASSUME NEW c \in Clients, NEW kind \in {"method", "unknown", "other"}, Receive(c, kind)
      PROVE  PendingOnlyInDispatch'
  <2>1. rx.pc # "dispatch" /\ rx'.pc # "dispatch" BY <1>2 DEF Receive, RxIdle
  <2>2. UNCHANGED <<dispatching, pending>> BY <1>2 DEF Receive
  <2>3. QED BY <2>1, <2>2, Zenon DEF PendingOnlyInDispatch
<1>3. ASSUME NEW t \in Threads, DeferOrHold(t), UNCHANGED <<rx, dispatching>>
      PROVE  PendingOnlyInDispatch'
  <2>1. dispatching \/ pending' = pending BY <1>3, Zenon DEF DeferOrHold
  <2>2. QED BY <1>3, <2>1, Zenon DEF PendingOnlyInDispatch
<1>4. ASSUME NEW t \in Threads, SendHeld(t) PROVE PendingOnlyInDispatch'
  BY <1>4, Zenon DEF SendHeld, PendingOnlyInDispatch
<1>5. CASE StartDispatch
  <2>1. rx'.pc = "dispatch" BY <1>0, <1>5 DEF StartDispatch, DataTypeOK
  <2>2. dispatching' = TRUE BY <1>5 DEF StartDispatch
  <2>3. QED BY <2>1, <2>2, Zenon DEF PendingOnlyInDispatch
<1>6. CASE EndDispatch
  <2>1. rx'.pc # "dispatch" BY <1>0, <1>6 DEF EndDispatch, DataTypeOK
  <2>2. dispatching' = FALSE /\ pending' = <<>> BY <1>6 DEF EndDispatch
  <2>3. QED BY <2>1, <2>2, Zenon DEF PendingOnlyInDispatch
<1>7. CASE SendResponse \/ Snapshot \/ SendDeferred \/ RequestDone \/ OtherDone
  <2>1. rx.pc # "dispatch" /\ rx'.pc # "dispatch"
    <3>1. CASE SendResponse BY <1>0, <3>1 DEF SendResponse, DataTypeOK
    <3>2. CASE Snapshot BY <1>0, <3>2 DEF Snapshot, DataTypeOK
    <3>3. CASE SendDeferred BY <1>0, <3>3 DEF SendDeferred, DataTypeOK
    <3>4. CASE RequestDone \/ OtherDone BY <3>4 DEF RequestDone, OtherDone, RxIdle
    <3>5. QED BY <1>7, <3>1, <3>2, <3>3, <3>4
  <2>2. UNCHANGED <<dispatching, pending>>
    BY <1>7 DEF SendResponse, Snapshot, SendDeferred, RequestDone, OtherDone
  <2>3. QED BY <2>1, <2>2, Zenon DEF PendingOnlyInDispatch
<1>8. ASSUME NEW c \in Clients, ConnectionLost(c) PROVE PendingOnlyInDispatch'
  BY <1>8, Zenon DEF ConnectionLost, PendingOnlyInDispatch
<1>9. CASE HandlerSends BY <1>3, <1>9 DEF HandlerSends, Threads
<1>10. ASSUME NEW w \in Workers, WorkerSends(w) PROVE PendingOnlyInDispatch'
  BY <1>3, <1>10 DEF WorkerSends, Threads
<1>11. QED
  BY <1>1, <1>2, <1>4, <1>5, <1>6, <1>7, <1>8, <1>9, <1>10 DEF Next, Step, RxStep, Threads

(* No event is left pending outside of a dispatch: there would be nobody to
   send it.                                                                   *)
THEOREM PendingOnlyInDispatchAlways == Spec => []PendingOnlyInDispatch
<1>1. Init => PendingOnlyInDispatch
  <2>1. Init => rx.pc # "dispatch" /\ pending = <<>> /\ dispatching = FALSE
    BY DEF Init, RxIdle
  <2>2. QED BY <2>1, Zenon DEF PendingOnlyInDispatch
<1>2. QED BY <1>1, InitTypeOK, NextTypeOK, PendingStep, PTL DEF Spec

-----------------------------------------------------------------------------
(* On Zephyr, one thread at a time is between the halves of sendEvent(), and
   none while a request is being answered.                                    *)
NobodyHolds == \A t \in Threads : hold[t] = NoEvent
Alone ==
    cooperative =>
        /\ rx.pc \notin {"idle", "other"} => NobodyHolds
        /\ rx.pc = "other" => \A w \in Workers : hold[w] = NoEvent
        /\ hold[Rx] # NoEvent => rx.pc = "other"
        /\ \A t, u \in Threads : hold[t] # NoEvent /\ hold[u] # NoEvent => t = u

LEMMA AloneDefers ==
    ASSUME TypeOK, PendingOnlyInDispatch, Alone, NEW t \in Threads, DeferOrHold(t),
           UNCHANGED <<cooperative, rx>>, t = Rx => rx.pc \in {"dispatch", "other"}
    PROVE  Alone'
<1>0. DataTypeOK BY DEF TypeOK
<1>1. CASE ~cooperative BY <1>1, Zenon DEF Alone
<1>2. CASE cooperative
  <2>1. \/ hold' = hold
        \/ hold' = [hold EXCEPT ![t] = Event(t)] /\ rx.pc # "dispatch"
    BY Zenon DEF DeferOrHold, PendingOnlyInDispatch
  <2>2. /\ t # Rx => rx.pc = "idle"
        /\ \A u \in Threads \ {t} : hold[u] = NoEvent
    BY <1>2, Zenon DEF DeferOrHold, MayRun, Threads
  <2>3. /\ rx.pc \notin {"idle", "other"} => NobodyHolds
        /\ rx.pc = "other" => \A w \in Workers : hold[w] = NoEvent
        /\ hold[Rx] # NoEvent => rx.pc = "other"
        /\ \A u, v \in Threads : hold[u] # NoEvent /\ hold[v] # NoEvent => u = v
    BY <1>2, Zenon DEF Alone
  <2>4. \A u \in Threads \ {t} : hold'[u] = NoEvent
    BY <1>0, <2>1, <2>2 DEF DataTypeOK, Threads
  <2>5. /\ rx'.pc \notin {"idle", "other"} => NobodyHolds'
        /\ rx'.pc = "other" => \A w \in Workers : hold'[w] = NoEvent
        /\ hold'[Rx] # NoEvent => rx'.pc = "other"
    <3>1. CASE t = Rx
      <4>1. rx.pc \in {"dispatch", "other"} BY <3>1
      <4>2. \A w \in Workers : hold'[w] = NoEvent BY <2>4, <3>1, ServerAssumption DEF Threads
      <4>3. CASE hold' = hold BY <2>3, <4>1, <4>2, <4>3 DEF NobodyHolds
      <4>4. CASE rx.pc # "dispatch" BY <4>1, <4>2, <4>4
      <4>5. QED BY <2>1, <4>3, <4>4
    <3>2. CASE t # Rx
      <4>1. rx.pc = "idle" /\ hold'[Rx] = NoEvent BY <2>2, <2>4, <3>2 DEF Threads
      <4>2. QED BY <4>1
    <3>3. QED BY <3>1, <3>2
  <2>6. \A u, v \in Threads : hold'[u] # NoEvent /\ hold'[v] # NoEvent => u = v
    BY <2>4
  <2>7. QED BY <2>5, <2>6, Zenon DEF Alone
<1>3. QED BY <1>1, <1>2

(* Steps after which no thread holds more, and the receive thread is not in a
   place where it may not be held up.                                         *)
LEMMA AloneKept ==
    ASSUME Alone, UNCHANGED cooperative,
           \A t \in Threads : hold'[t] \in {hold[t], NoEvent},
           \/ rx'.pc = rx.pc
           \/ cooperative => NobodyHolds
           \/ rx.pc \notin {"idle", "other"}
    PROVE  Alone'
<1>1. CASE ~cooperative BY <1>1, Zenon DEF Alone
<1>2. CASE cooperative
  <2>1. /\ rx.pc \notin {"idle", "other"} => NobodyHolds
        /\ rx.pc = "other" => \A w \in Workers : hold[w] = NoEvent
        /\ hold[Rx] # NoEvent => rx.pc = "other"
        /\ \A u, v \in Threads : hold[u] # NoEvent /\ hold[v] # NoEvent => u = v
    BY <1>2, Zenon DEF Alone
  <2>2. CASE NobodyHolds
    <3>1. NobodyHolds' BY <2>2 DEF NobodyHolds
    <3>2. QED BY <3>1, Zenon DEF Alone, NobodyHolds, Threads
  <2>3. CASE rx'.pc = rx.pc
    <3>1. /\ rx'.pc \notin {"idle", "other"} => NobodyHolds'
          /\ rx'.pc = "other" => \A w \in Workers : hold'[w] = NoEvent
          /\ hold'[Rx] # NoEvent => rx'.pc = "other"
          /\ \A u, v \in Threads : hold'[u] # NoEvent /\ hold'[v] # NoEvent => u = v
      BY <2>1, <2>3 DEF NobodyHolds, Threads
    <3>2. QED BY <3>1, Zenon DEF Alone
  <2>4. QED BY <1>2, <2>1, <2>2, <2>3, Zenon
<1>3. QED BY <1>1, <1>2

LEMMA AloneStep ==
    TypeOK /\ PendingOnlyInDispatch /\ Alone /\ [Next]_vars => Alone'
<1> SUFFICES ASSUME TypeOK, PendingOnlyInDispatch, Alone, [Next]_vars PROVE Alone'
  OBVIOUS
<1>0. DataTypeOK BY DEF TypeOK
<1>c. UNCHANGED cooperative BY Zenon DEF Next, vars
<1>1. CASE UNCHANGED vars BY <1>c, <1>1, AloneKept DEF vars, serverVars
<1>2. ASSUME NEW c \in Clients, NEW kind \in {"method", "unknown", "other"}, Receive(c, kind)
      PROVE  Alone'
  <2>1. UNCHANGED hold /\ rx.pc = "idle" BY <1>2 DEF Receive
  <2>2. cooperative => \A u \in Threads \ {Rx} : hold[u] = NoEvent
    BY <1>2, Zenon DEF Receive, MayRun, Threads
  <2>3. "idle" # "other" OBVIOUS
  <2>4. cooperative => hold[Rx] = NoEvent BY <2>1, <2>3, Zenon DEF Alone
  <2>5. cooperative => NobodyHolds BY <2>2, <2>4, Zenon DEF NobodyHolds
  <2>6. QED BY <1>c, <2>1, <2>5, AloneKept
<1>3. CASE HandlerSends BY <1>c, <1>3, AloneDefers DEF HandlerSends, Threads
<1>4. ASSUME NEW w \in Workers, WorkerSends(w) PROVE Alone'
  <2>1. w # Rx BY ServerAssumption
  <2>2. QED BY <1>c, <1>4, <2>1, AloneDefers DEF WorkerSends, Threads
<1>5. ASSUME NEW t \in Threads, SendHeld(t) PROVE Alone'
  <2>1. \A u \in Threads : hold'[u] \in {hold[u], NoEvent}
    BY <1>0, <1>5 DEF SendHeld, DataTypeOK, Threads
  <2>2. QED BY <1>c, <1>5, <2>1, AloneKept DEF SendHeld
<1>6. CASE StartDispatch \/ EndDispatch \/ SendResponse \/ Snapshot \/ SendDeferred \/ RequestDone
  <2>1. rx.pc \notin {"idle", "other"} /\ UNCHANGED hold
    BY <1>6 DEF StartDispatch, EndDispatch, SendResponse, Snapshot, SendDeferred, RequestDone
  <2>2. QED BY <1>c, <2>1, AloneKept
<1>7. CASE OtherDone
  <2>1. rx.pc = "other" /\ hold[Rx] = NoEvent /\ UNCHANGED hold BY <1>7 DEF OtherDone
  <2>2. cooperative => NobodyHolds BY <2>1, Zenon DEF Alone, NobodyHolds, Threads
  <2>3. QED BY <1>c, <2>1, <2>2, AloneKept
<1>8. ASSUME NEW c \in Clients, ConnectionLost(c) PROVE Alone'
  BY <1>c, <1>8, AloneKept DEF ConnectionLost
<1>9. QED
  BY <1>1, <1>2, <1>3, <1>4, <1>5, <1>6, <1>7, <1>8 DEF Next, Step, RxStep, Threads

-----------------------------------------------------------------------------
(* Order.  Of the events that count -- all of them on Zephyr, the deferred ones
   elsewhere -- those a client has are older than those that wait, and those
   that wait are in order.                                                     *)
Counted(c) == {i \in EventsAt(c) : cooperative \/ inbox[c][i].deferred}
Waiting == Ids(pending) \cup Ids(rx.deferred) \cup {n \in Held : cooperative}
Sorted(s) == \A i, j \in DOMAIN s : i < j => s[i].id < s[j].id

InOrder(c) == \A i, j \in Counted(c) : i < j => inbox[c][i].id < inbox[c][j].id
Older(c) == \A i \in Counted(c) : \A n \in Waiting : inbox[c][i].id < n
AtOnceNotDeferred == \A t \in Threads : hold[t] # NoEvent => ~hold[t].deferred

OrderParts == /\ Sorted(pending) /\ Sorted(rx.deferred) /\ AtOnceNotDeferred
              /\ \A c \in Clients : InOrder(c) /\ Older(c)
OrderInv == /\ DupInv /\ LossInv /\ PendingOnlyInDispatch /\ Alone
            /\ OrderParts

LEMMA OrderIsEventsInOrder == (\A c \in Clients : InOrder(c)) => EventsInOrder
  BY Zenon DEF InOrder, Counted, EventsInOrder

LEMMA SortedAppend ==
    ASSUME NEW s \in Seq(Events), NEW e \in Events, Sorted(s), \A n \in Ids(s) : n < e.id
    PROVE  Sorted(Append(s, e))
<1>1. DOMAIN Append(s, e) = 1..(Len(s) + 1) /\ DOMAIN s = 1..Len(s) /\ Len(s) \in Nat
  OBVIOUS
<1>2. \A i \in 1..Len(s) : Append(s, e)[i] = s[i] OBVIOUS
<1>3. Append(s, e)[Len(s) + 1] = e OBVIOUS
<1>4. \A i \in 1..Len(s) : s[i].id < e.id BY <1>1 DEF Ids
<1>5. QED BY <1>1, <1>2, <1>3, <1>4 DEF Sorted

LEMMA SortedTail ==
    ASSUME NEW s \in Seq(Events), s # <<>>, Sorted(s)
    PROVE  Sorted(Tail(s)) /\ \A n \in Ids(Tail(s)) : Head(s).id < n
<1>1. DOMAIN s = 1..Len(s) /\ DOMAIN Tail(s) = 1..(Len(s) - 1) /\ Len(s) \in Nat
      /\ Len(s) # 0 /\ Head(s) = s[1]
  OBVIOUS
<1>2. \A i \in 1..(Len(s) - 1) : Tail(s)[i] = s[i + 1] OBVIOUS
<1>3. Sorted(Tail(s)) BY <1>1, <1>2 DEF Sorted
<1>4. \A i \in 1..(Len(s) - 1) : Head(s).id < Tail(s)[i].id BY <1>1, <1>2 DEF Sorted
<1>5. QED BY <1>1, <1>3, <1>4 DEF Ids

(* Steps that send nothing and let nothing new wait. *)
LEMMA OrderKept ==
    ASSUME OrderParts, UNCHANGED <<cooperative, hold, inbox>>,
           Sorted(pending'), Sorted(rx'.deferred),
           Ids(pending') \cup Ids(rx'.deferred) \subseteq Ids(pending) \cup Ids(rx.deferred)
    PROVE  OrderParts'
<1>1. Waiting' \subseteq Waiting BY Zenon DEF Waiting, Held
<1>2. \A c \in Clients : Counted(c)' = Counted(c) BY Zenon DEF Counted, EventsAt
<1>3. \A c \in Clients : InOrder(c)' /\ Older(c)'
  BY <1>1, <1>2, Zenon DEF OrderParts, InOrder, Older
<1>4. AtOnceNotDeferred' BY Zenon DEF OrderParts, AtOnceNotDeferred
<1>5. QED BY <1>3, <1>4, Zenon DEF OrderParts, Sorted

LEMMA OrderDefers ==
    ASSUME OrderInv, NEW t \in Threads, DeferOrHold(t), UNCHANGED <<cooperative, rx, inbox>>
    PROVE  OrderParts'
<1>0. TypeOK /\ DataTypeOK /\ DupInv BY DEF OrderInv, DupInv, TypeOK
<1>1. Event(t) \in Events /\ Event(t).id = emitted'
  BY <1>0, DeferOrHoldType DEF DeferOrHold, NewEvent, Event
<1>2. emitted' = emitted + 1 /\ emitted \in Nat
  BY <1>0, ServerAssumption DEF DataTypeOK, DeferOrHold, NewEvent
<1>3. pending \in Seq(Events) BY <1>0 DEF DataTypeOK
<1>4. \A n \in Ids(pending) : n < emitted'
  <2>1. \A n \in Ids(pending) : n \in Nat BY <1>3, IdsAreNat
  <2>2. QED BY <1>0, <1>2, <2>1 DEF DupInv, OnOneWay, AllFresh
<1>5. \A c \in Clients : \A i \in EventsAt(c) : inbox[c][i].id < emitted'
  <2>1. \A c \in Clients : \A i \in EventsAt(c) :
            inbox[c][i].id \in Delivered(c) /\ inbox[c][i] \in Events
    BY <1>0, CausesInDomain DEF Delivered
  <2>2. \A e \in Events : e.id \in Nat BY ServerAssumption DEF Events
  <2>3. QED BY <1>0, <1>2, <2>1, <2>2 DEF DupInv, OnOneWay, Fresh, Numbers
<1>6. \/ pending' = Append(pending, Event(t)) /\ hold' = hold
      \/ /\ hold' = [hold EXCEPT ![t] = Event(t)] /\ pending' = pending
         /\ ~Event(t).deferred
  <2>1. Event(t).deferred = dispatching BY DEF Event
  <2>2. QED BY <2>1, Zenon DEF DeferOrHold
<1>7. Sorted(pending')
  BY <1>1, <1>3, <1>4, <1>6, SortedAppend DEF OrderInv, OrderParts
<1>8. AtOnceNotDeferred'
  <2>1. \A u \in Threads : hold'[u] = hold[u] \/ (hold'[u] = Event(t) /\ ~Event(t).deferred)
    BY <1>0, <1>6 DEF DataTypeOK, Threads
  <2>2. QED BY <2>1, Zenon DEF OrderInv, OrderParts, AtOnceNotDeferred
<1>9. Waiting' \subseteq Waiting \cup {emitted'}
  <2>1. Ids(pending') \subseteq Ids(pending) \cup {emitted'}
    BY <1>1, <1>3, <1>6, IdsAppend
  <2>2. \A u \in Threads : hold'[u] \in {hold[u], Event(t)}
    BY <1>0, <1>6 DEF DataTypeOK, Threads
  <2>3. Held' \subseteq Held \cup {emitted'} BY <1>1, <2>2 DEF Held, Threads
  <2>4. QED BY <2>1, <2>3, Zenon DEF Waiting
<1>10. \A c \in Clients : Counted(c)' = Counted(c) /\ Counted(c) \subseteq EventsAt(c)
  BY Zenon DEF Counted, EventsAt
<1>11. \A c \in Clients : InOrder(c)' /\ Older(c)'
  <2>1. TAKE c \in Clients
  <2>2. InOrder(c) /\ Older(c) BY Zenon DEF OrderInv, OrderParts
  <2>3. InOrder(c)' BY <1>10, <2>2, Zenon DEF InOrder
  <2>4. Older(c)'
    <3>1. ASSUME NEW i \in Counted(c), NEW n \in Waiting' PROVE inbox[c][i].id < n
      BY <1>5, <1>9, <1>10, <2>2 DEF Older
    <3>2. QED BY <1>10, <3>1, Zenon DEF Older
  <2>5. QED BY <2>3, <2>4
<1>12. QED BY <1>7, <1>8, <1>11, Zenon DEF OrderInv, OrderParts, Sorted

(* An event goes out to some clients: if it counts, it is newer than what they
   have and older than what still waits.                                      *)
LEMMA OrderGoesOut ==
    ASSUME OrderInv, NEW e \in Events, NEW targets, SendTo(targets, e),
           UNCHANGED cooperative, AtOnceNotDeferred',
           Sorted(pending'), Sorted(rx'.deferred), Waiting' \subseteq Waiting,
           cooperative \/ e.deferred =>
               e.id \in Waiting /\ \A n \in Waiting' : e.id < n
    PROVE  OrderParts'
<1>0. TypeOK /\ DataTypeOK BY DEF OrderInv, DupInv, TypeOK
<1>1. ASSUME NEW c \in Clients PROVE InOrder(c)' /\ Older(c)'
  <2>1. InOrder(c) /\ Older(c) BY Zenon DEF OrderInv, OrderParts
  <2>2. CASE c \in targets
    <3>1. inbox'[c] = Append(inbox[c], e) BY <1>0, <2>2 DEF SendTo, DataTypeOK
    <3>2. EventsAt(c)' = EventsAt(c) \cup {Len(inbox[c]) + 1} BY <1>0, <3>1, EventDelivered
    <3>3. /\ DOMAIN inbox[c] = 1..Len(inbox[c]) /\ Len(inbox[c]) \in Nat
          /\ \A i \in 1..Len(inbox[c]) : inbox'[c][i] = inbox[c][i]
          /\ inbox'[c][Len(inbox[c]) + 1] = e
      BY <1>0, <3>1, BoxGrows
    <3>4. EventsAt(c) \subseteq 1..Len(inbox[c]) BY <3>3 DEF EventsAt
    <3>5. \A i \in EventsAt(c) : inbox'[c][i] = inbox[c][i] BY <3>3, <3>4
    <3>6. /\ \A i \in Counted(c)' : \/ i \in Counted(c)
                                    \/ i = Len(inbox[c]) + 1 /\ (cooperative \/ e.deferred)
          /\ Counted(c) \subseteq EventsAt(c)
      BY <3>2, <3>3, <3>5, Zenon DEF Counted
    <3>7. cooperative \/ e.deferred =>
              /\ \A i \in Counted(c) : inbox[c][i].id < e.id
              /\ \A n \in Waiting' : e.id < n
      BY <2>1, Zenon DEF Older
    <3>8. InOrder(c)'
      <4>1. ASSUME NEW i \in Counted(c)', NEW j \in Counted(c)', i < j
            PROVE  inbox'[c][i].id < inbox'[c][j].id
        <5>1. CASE j \in Counted(c)
          <6>1. i \in Counted(c) BY <3>3, <3>4, <3>6, <4>1, <5>1
          <6>2. QED BY <2>1, <3>5, <3>6, <4>1, <5>1, <6>1 DEF InOrder
        <5>2. CASE j = Len(inbox[c]) + 1 /\ (cooperative \/ e.deferred)
          <6>0. i # Len(inbox[c]) + 1
            <7>1. j = Len(inbox[c]) + 1 BY <5>2, Zenon
            <7>2. QED BY <3>3, <4>1, <7>1
          <6>1. i \in Counted(c) BY <3>6, <4>1, <6>0, Zenon
          <6>2. QED BY <3>3, <3>5, <3>6, <3>7, <5>2, <6>1
        <5>3. QED BY <3>6, <5>1, <5>2, Zenon
      <4>2. QED BY <4>1, Zenon DEF InOrder
    <3>9. Older(c)'
      <4>1. ASSUME NEW i \in Counted(c)', NEW n \in Waiting' PROVE inbox'[c][i].id < n
        <5>1. CASE i \in Counted(c) BY <2>1, <3>5, <3>6, <4>1, <5>1, Zenon DEF Older
        <5>2. CASE i = Len(inbox[c]) + 1 /\ (cooperative \/ e.deferred)
          BY <3>3, <3>7, <4>1, <5>2, Zenon
        <5>3. QED BY <3>6, <5>1, <5>2, Zenon
      <4>2. QED BY <4>1, Zenon DEF Older
    <3>10. QED BY <3>8, <3>9
  <2>3. CASE c \notin targets
    <3>1. inbox'[c] = inbox[c] BY <1>0, <2>3 DEF SendTo, DataTypeOK
    <3>2. Counted(c)' = Counted(c) BY <3>1, Zenon DEF Counted, EventsAt
    <3>3. QED BY <2>1, <3>1, <3>2, Zenon DEF InOrder, Older
  <2>4. QED BY <2>2, <2>3
<1>2. QED BY <1>1, Zenon DEF OrderParts, Sorted

LEMMA OrderSendsHeld ==
    ASSUME OrderInv, NEW t \in Threads, SendHeld(t), UNCHANGED cooperative
    PROVE  OrderParts'
<1>0. TypeOK /\ DataTypeOK BY DEF OrderInv, DupInv, TypeOK
<1>1. /\ hold[t] \in Events /\ hold[t] # NoEvent /\ hold[t].id # 0
      /\ SendTo(known_clients, hold[t]) /\ UNCHANGED <<rx, pending>>
  BY <1>0 DEF SendHeld, DataTypeOK, Threads, Events
<1>2. \A u \in Threads : hold'[u] = IF u = t THEN NoEvent ELSE hold[u]
  BY <1>0 DEF SendHeld, DataTypeOK, Threads
<1>3. Held' \subseteq Held /\ hold[t].id \in Held
  BY <1>1, <1>2 DEF Held, Threads, NoEvent
<1>4. Waiting' \subseteq Waiting BY <1>1, <1>3, Zenon DEF Waiting
<1>5. AtOnceNotDeferred' /\ ~hold[t].deferred
  BY <1>1, <1>2, Zenon DEF OrderInv, OrderParts, AtOnceNotDeferred
<1>6. Sorted(pending') /\ Sorted(rx'.deferred) BY <1>1, Zenon DEF OrderInv, OrderParts
<1>7. ASSUME cooperative PROVE hold[t].id \in Waiting /\ Waiting' = {}
  <2>1. rx.pc \in {"idle", "other"}
    BY <1>1, <1>7, Zenon DEF OrderInv, Alone, NobodyHolds
  <2>2. rx.deferred = <<>> BY <2>1 DEF OrderInv, LossInv, ListEmptyBefore
  <2>3. rx.pc # "dispatch" BY <2>1
  <2>4. pending = <<>> BY <2>3, Zenon DEF OrderInv, PendingOnlyInDispatch
  <2>5. \A u \in Threads : hold[u] # NoEvent => u = t
    BY <1>1, <1>7, Zenon DEF OrderInv, Alone
  <2>6. Held' = {} BY <1>2, <2>5 DEF Held, Threads, NoEvent
  <2>7. Ids(pending') = {} /\ Ids(rx'.deferred) = {} BY <1>1, <2>2, <2>4, IdsEmpty
  <2>8. QED BY <1>3, <1>7, <2>6, <2>7, Zenon DEF Waiting
<1>8. cooperative \/ hold[t].deferred =>
          hold[t].id \in Waiting /\ \A n \in Waiting' : hold[t].id < n
  BY <1>5, <1>7, Zenon
<1>9. QED BY <1>1, <1>4, <1>5, <1>6, <1>8, OrderGoesOut

LEMMA OrderStep == OrderInv /\ [Next]_vars => OrderInv'
<1> SUFFICES ASSUME OrderInv, [Next]_vars PROVE OrderParts'
  BY DupStep, LossStep, PendingStep, AloneStep DEF OrderInv, DupInv
<1>0. TypeOK /\ DataTypeOK BY DEF OrderInv, DupInv, TypeOK
<1>c. UNCHANGED cooperative BY Zenon DEF Next, vars
<1>p. OrderParts /\ Sorted(pending) /\ Sorted(rx.deferred) BY Zenon DEF OrderInv, OrderParts
<1>1. CASE UNCHANGED vars BY <1>c, <1>p, <1>1, OrderKept DEF vars, serverVars
<1>2. ASSUME NEW c \in Clients, NEW kind \in {"method", "unknown", "other"}, Receive(c, kind)
      PROVE  OrderParts'
  <2>1. rx'.deferred = <<>> /\ UNCHANGED <<pending, hold, inbox>> BY <1>2 DEF Receive, RxIdle
  <2>2. Sorted(rx'.deferred) BY <2>1 DEF Sorted
  <2>3. Ids(rx'.deferred) = {} BY <2>1, IdsEmpty
  <2>4. QED BY <1>c, <1>p, <2>1, <2>2, <2>3, OrderKept
<1>3. CASE HandlerSends BY <1>c, <1>3, OrderDefers DEF HandlerSends, Threads
<1>4. ASSUME NEW w \in Workers, WorkerSends(w) PROVE OrderParts'
  BY <1>c, <1>4, OrderDefers DEF WorkerSends, Threads
<1>5. ASSUME NEW t \in Threads, SendHeld(t) PROVE OrderParts'
  BY <1>c, <1>5, OrderSendsHeld
<1>6. CASE StartDispatch \/ Snapshot
  <2>1. rx'.deferred = rx.deferred /\ UNCHANGED <<pending, hold, inbox>>
    BY <1>0, <1>6 DEF StartDispatch, Snapshot, DataTypeOK
  <2>2. QED BY <1>c, <1>p, <2>1, OrderKept
<1>7. CASE EndDispatch
  <2>1. rx'.deferred = pending /\ pending' = <<>> /\ UNCHANGED <<hold, inbox>>
    BY <1>0, <1>7 DEF EndDispatch, DataTypeOK
  <2>2. Sorted(pending') /\ Ids(pending') = {} BY <2>1, IdsEmpty DEF Sorted
  <2>3. QED BY <1>c, <1>p, <2>1, <2>2, OrderKept
<1>8. CASE SendResponse
  <2>1. rx'.deferred = rx.deferred /\ UNCHANGED <<pending, hold>>
    BY <1>0, <1>8 DEF SendResponse, DataTypeOK
  <2>2. Response \in Responses BY <1>0 DEF Response, Responses, DataTypeOK
  <2>3. ASSUME NEW d \in Clients
        PROVE  /\ EventsAt(d)' = EventsAt(d)
               /\ \A i \in EventsAt(d) : inbox'[d][i] = inbox[d][i]
    <3>1. CASE d = rx.client
      <4>1. inbox'[d] = Append(inbox[d], Response)
        BY <1>0, <1>8, <3>1 DEF SendResponse, SendTo, DataTypeOK
      <4>2. EventsAt(d)' = EventsAt(d) BY <1>0, <2>2, <4>1, ResponseDelivered
      <4>3. QED BY <1>0, <2>2, <4>1, <4>2, BoxGrows DEF EventsAt
    <3>2. CASE d # rx.client
      <4>1. inbox'[d] = inbox[d]
        BY <1>0, <1>8, <3>2 DEF SendResponse, SendTo, DataTypeOK
      <4>2. QED BY <4>1 DEF EventsAt
    <3>3. QED BY <3>1, <3>2
  <2>4. \A d \in Clients : Counted(d)' = Counted(d) BY <1>c, <2>3, Zenon DEF Counted
  <2>5. Waiting' = Waiting BY <1>c, <2>1, Zenon DEF Waiting, Held
  <2>6. \A d \in Clients : \A i \in Counted(d) : inbox'[d][i] = inbox[d][i]
    BY <2>3, Zenon DEF Counted
  <2>7. \A d \in Clients : InOrder(d)' /\ Older(d)'
    BY <1>p, <2>4, <2>5, <2>6, Zenon DEF OrderParts, InOrder, Older
  <2>8. AtOnceNotDeferred' BY <1>p, <2>1, Zenon DEF OrderParts, AtOnceNotDeferred
  <2>9. QED BY <1>p, <2>1, <2>7, <2>8, Zenon DEF OrderParts, Sorted
<1>9. CASE SendDeferred
  <2>0. /\ rx.pc = "flush" /\ rx.deferred # <<>> /\ UNCHANGED <<pending, hold>>
        /\ rx.deferred \in Seq(Events)
        /\ SendTo(rx.targets, Head(rx.deferred))
    BY <1>0, <1>9 DEF SendDeferred, DataTypeOK
  <2>1. rx'.deferred = Tail(rx.deferred) BY <1>0, <1>9 DEF SendDeferred, DataTypeOK
  <2>2. /\ Head(rx.deferred) \in Events
        /\ Ids(rx.deferred) = Ids(Tail(rx.deferred)) \cup {Head(rx.deferred).id}
    BY <2>0, IdsHead
  <2>3. Sorted(Tail(rx.deferred)) /\ \A n \in Ids(Tail(rx.deferred)) : Head(rx.deferred).id < n
    BY <1>p, <2>0, SortedTail
  <2>4. pending = <<>>
    <3>1. rx.pc # "dispatch" BY <2>0
    <3>2. QED BY <3>1, Zenon DEF OrderInv, PendingOnlyInDispatch
  <2>5. cooperative => Held' = {}
    <3>1. "flush" \notin {"idle", "other"} OBVIOUS
    <3>2. cooperative => NobodyHolds BY <2>0, <3>1, Zenon DEF OrderInv, Alone
    <3>3. NobodyHolds => Held' = {} BY <2>0 DEF NobodyHolds, Held, NoEvent, Threads
    <3>4. QED BY <3>2, <3>3, Zenon
  <2>6. Ids(pending') = {} BY <2>0, <2>4, IdsEmpty
  <2>7. Waiting' \subseteq Ids(Tail(rx.deferred)) BY <1>c, <2>1, <2>5, <2>6, Zenon DEF Waiting
  <2>8. Ids(rx.deferred) \subseteq Waiting BY Zenon DEF Waiting
  <2>9. Waiting' \subseteq Waiting /\ Head(rx.deferred).id \in Waiting
        /\ \A n \in Waiting' : Head(rx.deferred).id < n
    BY <2>2, <2>3, <2>7, <2>8
  <2>10. AtOnceNotDeferred' BY <1>p, <2>0, Zenon DEF OrderParts, AtOnceNotDeferred
  <2>11. QED BY <1>c, <1>p, <2>0, <2>1, <2>2, <2>3, <2>9, <2>10, OrderGoesOut
<1>10. CASE RequestDone \/ OtherDone
  <2>1. rx'.deferred = <<>> /\ UNCHANGED <<pending, hold, inbox>>
    BY <1>10 DEF RequestDone, OtherDone, RxIdle
  <2>2. Sorted(rx'.deferred) /\ Ids(rx'.deferred) = {} BY <2>1, IdsEmpty DEF Sorted
  <2>3. QED BY <1>c, <1>p, <2>1, <2>2, OrderKept
<1>11. ASSUME NEW c \in Clients, ConnectionLost(c) PROVE OrderParts'
  BY <1>c, <1>p, <1>11, OrderKept DEF ConnectionLost
<1>12. QED
  BY <1>1, <1>2, <1>3, <1>4, <1>5, <1>6, <1>7, <1>8, <1>9, <1>10, <1>11
  DEF Next, Step, RxStep, Threads

LEMMA OrderInit == Init => OrderInv
<1> SUFFICES ASSUME Init PROVE OrderInv OBVIOUS
<1>1. pending = <<>> /\ rx.deferred = <<>> /\ rx.pc = "idle" /\ NobodyHolds
  BY DEF Init, RxIdle, NobodyHolds, Threads
<1>2. \A c \in Clients : EventsAt(c) = {} BY DEF Init, EventsAt
<1>3. PendingOnlyInDispatch
  <2>1. rx.pc # "dispatch" BY <1>1
  <2>2. dispatching = FALSE BY DEF Init
  <2>3. QED BY <1>1, <2>1, <2>2, Zenon DEF PendingOnlyInDispatch
<1>4. Alone
  <2>1. "idle" # "other" OBVIOUS
  <2>2. QED BY <1>1, <2>1, Zenon DEF Alone, NobodyHolds, Threads
<1>5. Sorted(pending) /\ Sorted(rx.deferred) BY <1>1 DEF Sorted
<1>6. \A c \in Clients : InOrder(c) /\ Older(c)
  BY <1>2, Zenon DEF InOrder, Older, Counted
<1>7. AtOnceNotDeferred BY <1>1, Zenon DEF AtOnceNotDeferred, NobodyHolds
<1>8. QED BY <1>3, <1>4, <1>5, <1>6, <1>7, DupInit, LossInit, Zenon DEF OrderInv, OrderParts

(* Deferred events reach every client in the order they were sent, and on
   Zephyr all events do.                                                      *)
THEOREM EventsInOrderAlways == Spec => []EventsInOrder
<1>1. OrderInv => EventsInOrder BY OrderIsEventsInOrder, Zenon DEF OrderInv, OrderParts
<1>2. QED BY OrderInit, OrderStep, <1>1, PTL DEF Spec

=============================================================================
