---------------------------- MODULE SignalBridge ----------------------------
(* The MPU's SOME/IP-to-Kuksa bridge between the body ECU and the signal
   broker: door events become the signal IsLocked, the announcement of the VIN
   the signal VIN, and the signal Command.Door.Lock becomes Lock and Unlock
   requests.

   External parts, as the code uses them: the Kuksa databroker keeps the last
   value of a signal, hands it to a new subscriber and then every later value,
   of which a slow subscriber may miss all but the last; UDP loses datagrams
   and here keeps their order.  The body ECU is reduced to its door lock and
   its VIN; it sends events to whoever has sent it something (SomeIpServer).
   The signals IsLocked, Command.Door.Lock and VIN stand for the other
   mappings, which take the same two paths.                                  *)
EXTENDS Integers, Sequences

CONSTANTS Vin,          \* the vehicle's VIN
          MaxInFlight,  \* bound: datagrams on the wire in one direction
          MaxInputs     \* bound: inputs from outside and faults, altogether

ASSUME BridgeAssumption ==
    /\ MaxInFlight \in Nat \ {0} /\ MaxInputs \in Nat
    /\ Vin \notin {"none", "locked", "unlocked", "UNKNOWN", "x01", ""}

VARIABLES store,     \* the broker: the last value of each signal
          streams,   \* per signal: subscribed or not, values not yet read
          mutex,     \* KuksaSignalBusAdapter::mutex_: the callback inside it
          socket,    \* the SOME/IP client is running
          uplink,    \* datagrams from the body ECU
          downlink,  \* datagrams to the body ECU
          mcu,       \* the body ECU: its lock, whether it knows this MPU, and
                     \* whether it has announced its VIN, at the end of its boot
          inputs,    \* inputs and faults so far
          reported,  \* history: the last lock event sent to this MPU
          requested, \* history: the last Lock or Unlock this MPU sent
          lost       \* history: something sent to or by this MPU was lost

bridgeVars == <<store, streams, mutex, socket, uplink, downlink, mcu, inputs,
                reported, requested, lost>>

None == "none"
Signals == {"locked", "command", "vin"}
LockStates == {"locked", "unlocked"}   \* true and false of the first two signals
Payloads == LockStates \cup {Vin}
Values == Payloads \cup {None}
Methods == {"door", "getVin", "other"}
Requests == [method : Methods, value : Payloads, live : BOOLEAN]
Messages == [kind : Methods \cup Signals, value : Payloads, ok : BOOLEAN]

Opposite(v) == IF v = "locked" THEN "unlocked" ELSE "locked"

Off == [on |-> FALSE, queue |-> <<>>]

BridgeTypeOK ==
    /\ store \in [Signals -> Values]
    /\ streams \in [Signals -> [on : BOOLEAN, queue : Seq(Payloads)]]
    /\ mutex \in Signals \cup {None}
    /\ socket \in BOOLEAN
    /\ uplink \in Seq(Messages) /\ Len(uplink) <= MaxInFlight
    /\ downlink \in Seq(Requests) /\ Len(downlink) <= MaxInFlight
    /\ mcu \in [locked : LockStates, known : BOOLEAN, announced : BOOLEAN]
    /\ inputs \in 0..MaxInputs
    /\ {reported, requested} \subseteq Values
    /\ lost \in BOOLEAN

BridgeInit ==
    /\ store = [s \in Signals |-> None]
    /\ streams = [s \in Signals |-> Off]
    /\ mutex = None
    /\ socket = FALSE
    /\ uplink = <<>> /\ downlink = <<>>
    /\ mcu = [locked |-> "unlocked", known |-> FALSE, announced |-> FALSE]
    /\ inputs = 0
    /\ reported = None /\ requested = None
    /\ lost = FALSE

Input == inputs < MaxInputs /\ inputs' = inputs + 1
Fault == Input /\ lost' = TRUE

-----------------------------------------------------------------------------
(* The wire: a full socket buffer drops what is sent. *)

Fits(link, ms) == Len(link) + Len(ms) <= MaxInFlight
Wire(link, ms) == IF Fits(link, ms) THEN link \o ms ELSE link

LoseDatagram ==
    /\ Fault
    /\ \/ uplink # <<>> /\ uplink' = Tail(uplink) /\ UNCHANGED downlink
       \/ downlink # <<>> /\ downlink' = Tail(downlink) /\ UNCHANGED uplink
    /\ UNCHANGED <<store, streams, mutex, socket, mcu, reported, requested>>

-----------------------------------------------------------------------------
(* The broker, and the adapter's subscribe(), publish() and reader threads. *)

(* A slow reader's buffer holds every value, or the newest in place of those
   it has not read.                                                          *)
Buffered(stream, v) ==
    IF stream.on THEN {[stream EXCEPT !.queue = Append(@, v)],
                       [stream EXCEPT !.queue = <<v>>]}
                 ELSE {stream}

(* publish(): it may fail, after five seconds at the latest; the callers look
   at no result.                                                             *)
PublishSignal(s, v) ==
    \/ /\ store' = [store EXCEPT ![s] = v]
       /\ \E q \in Buffered(streams[s], v) : streams' = [streams EXCEPT ![s] = q]
       /\ UNCHANGED <<lost, inputs>>
    \/ Fault /\ UNCHANGED <<store, streams>>

(* Mistake: a subscriber hears of inputs only. *)
Subscribed_NoCurrent(s) == [on |-> TRUE, queue |-> <<>>]

Subscribed(s) ==
    [on |-> TRUE, queue |-> IF store[s] = None THEN <<>> ELSE <<store[s]>>]

(* A stream that breaks ends its reader thread; nothing subscribes again.    *)
StreamBreaks(s) ==
    /\ streams[s].on /\ mutex # s
    /\ streams' = [streams EXCEPT ![s] = Off]
    /\ Fault
    /\ UNCHANGED <<store, mutex, socket, uplink, downlink, mcu, reported, requested>>

-----------------------------------------------------------------------------
(* The bridge. *)

(* A transport that is not running refuses what it is given. *)
Send(request) ==
    /\ downlink' = IF socket THEN Wire(downlink, <<request>>) ELSE downlink
    /\ lost' = (lost \/ ~socket \/ ~Fits(downlink, <<request>>))

(* Lock with payload 1 or, for false, Unlock with payload 0. *)
DoorRequest(v) == [method |-> "door", value |-> v, live |-> TRUE]

onSignalChanged ==
    LET stream == streams["command"] IN
    /\ stream.queue # <<>> /\ mutex = None
    /\ streams' = [streams EXCEPT !["command"].queue = Tail(@)]
    /\ Send(DoorRequest(Head(stream.queue)))
    /\ requested' = DoorRequest(Head(stream.queue)).value
    /\ UNCHANGED <<store, mutex, socket, uplink, mcu, inputs, reported>>

(* Mistake: the byte 0 is taken for true. *)
EventValue_Inverted(m) == IF m.kind = "locked" THEN Opposite(m.value) ELSE m.value

(* The payload's last byte is not 0, or the payload up to a 0. *)
EventValue(m) == m.value

(* LockStateChanged and VinAvailable, each to its signal. *)
onSomeIpEvent ==
    /\ socket /\ uplink # <<>> /\ Head(uplink).kind \in Signals
    /\ uplink' = Tail(uplink)
    /\ PublishSignal(Head(uplink).kind, EventValue(Head(uplink)))
    /\ UNCHANGED <<mutex, socket, downlink, mcu, reported, requested>>

-----------------------------------------------------------------------------
(* The body ECU. *)

LockEvent(v) == [kind |-> "locked", value |-> v, ok |-> TRUE]
VinEvent == [kind |-> "vin", value |-> Vin, ok |-> TRUE]
Answer(request, o) == [kind |-> request.method, value |-> o.value, ok |-> o.ok]

(* What the ECU may make of a request: its answer, and where the lock is then.
   Lock and Unlock, which the interlock may refuse, are answered with the
   payload of the request.  The "other" requests are the command line's; Lock,
   Unlock and SetMode are among them, and the bytes of their answers are all 0
   ("unlocked") or not.  Nobody looks at the bytes of a refusal.             *)
Outcomes(request) ==
    {o \in [value : Payloads, ok : BOOLEAN, to : LockStates] :
        /\ ~o.ok => o.to = mcu.locked /\ o.value = request.value
        /\ request.method = "door" => /\ o.value = request.value
                                      /\ o.ok => o.to = request.value
        /\ IF request.method = "getVin" THEN o.ok /\ o.to = mcu.locked /\ o.value = Vin
                                       ELSE o.value \in LockStates}

(* The response and, if the lock moved, the event its handler deferred.  The
   answer to a request of an MPU process that is gone goes to a port nobody
   reads.                                                                    *)
Replies(request, o) ==
    (IF request.live THEN <<Answer(request, o)>> ELSE <<>>)
    \o (IF o.to # mcu.locked /\ (mcu.known \/ request.live)
        THEN <<LockEvent(o.to)>> ELSE <<>>)

McuHandles ==
    /\ downlink # <<>>
    /\ downlink' = Tail(downlink)
    /\ LET request == Head(downlink) IN
        \E o \in Outcomes(request) :
            /\ mcu' = [mcu EXCEPT !.locked = o.to, !.known = @ \/ request.live]
            /\ uplink' = Wire(uplink, Replies(request, o))
            /\ lost' = (lost \/ ~Fits(uplink, Replies(request, o)))
            /\ reported' = IF o.to # mcu.locked /\ mcu'.known THEN o.to ELSE reported
    /\ UNCHANGED <<store, streams, mutex, socket, inputs, requested>>

(* A mode change or another client moves the lock. *)
McuChanges ==
    /\ Input
    /\ mcu' = [mcu EXCEPT !.locked = Opposite(@)]
    /\ LET event == IF mcu.known THEN <<LockEvent(Opposite(mcu.locked))>> ELSE <<>> IN
        /\ uplink' = Wire(uplink, event)
        /\ lost' = (lost \/ ~Fits(uplink, event))
        /\ reported' = IF mcu.known THEN Opposite(mcu.locked) ELSE reported
    /\ UNCHANGED <<store, streams, mutex, socket, downlink, requested>>

(* At the end of its boot, when requests are long answered, the ECU announces
   its VIN to the clients it knows by then.                                  *)
McuAnnounces ==
    /\ ~mcu.announced
    /\ mcu' = [mcu EXCEPT !.announced = TRUE]
    /\ LET event == IF mcu.known THEN <<VinEvent>> ELSE <<>> IN
        /\ uplink' = Wire(uplink, event)
        /\ lost' = (lost \/ ~Fits(uplink, event))
    /\ UNCHANGED <<store, streams, mutex, socket, downlink, inputs, reported, requested>>

(* The body ECU is reset: unlocked, and it knows no client. *)
McuRestarts ==
    /\ Input
    /\ mcu' = [locked |-> "unlocked", known |-> FALSE, announced |-> FALSE]
    /\ UNCHANGED <<store, streams, mutex, socket, uplink, downlink, reported,
                   requested, lost>>

BridgeNext ==
    \/ LoseDatagram
    \/ \E s \in Signals : StreamBreaks(s)
    \/ onSignalChanged
    \/ onSomeIpEvent
    \/ McuHandles
    \/ McuChanges
    \/ McuAnnounces
    \/ McuRestarts

-----------------------------------------------------------------------------
(* Every lock event the body ECU sends reaches the broker, in order: when none
   is under way and none was lost, the broker's IsLocked is the state the ECU
   last reported to this MPU (onSomeIpEvent).                                *)
BrokerAgrees ==
    (uplink = <<>> /\ ~lost /\ reported # None) => store["locked"] = reported

(* The last command wins: however many commands the reader thread skipped, the
   last request of a bridge that has heard them all is for the value the broker
   holds -- a value the broker had before the bridge started included, for the
   broker hands it out on subscription (onSignalChanged).                    *)
LastCommandWins ==
    (streams["command"].on /\ streams["command"].queue = <<>>)
        => (requested = store["command"] \/ lost)
=============================================================================
