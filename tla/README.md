# Body ECU: specification and verification

TLA+ modules of the body ECU in this repository, the TLC runs that check them, and theorems about the
components proved with TLAPS. File names below are relative to the repository's root; `PROJECT.json` names,
for every definition, the lines it models, and for every hazard, the line where it bites and the properties that watch
it.

- [The system](#the-system): components, state, operations, interaction, what is hard
- [Modules](#modules) and how their state and actions correspond to the code
- [Runs](#runs): what each checks and shows, bounds, fairness
- [Proofs](#proofs)
- [Where the code and its documents disagree](#where-the-code-and-its-documents-disagree)
- [Not modelled](#not-modelled), [Plan](#plan)

## The system

Two computers. The **MCU** runs the body services (doors, lights, vehicle mode, ignition, a simulated speed) and
serves them over SOME/IP; it has UDS diagnostics over DoIP and CAN, and a CAN gateway. It is built for Zephyr
(`app/src/main.cpp`) and for POSIX (`platforms/posix/src/app.cpp`). The **MPU** (`platforms/autosd/main.cpp`) is a
SOME/IP client that copies events into a Kuksa signal broker and signals into SOME/IP requests, connects the broker
to a cloud (NATS), and has a command line. A companion app sits at the other end of the cloud.

```
 button, ADC, pins     CAN bus          testers                    user        companion app
       |                 |  |             |                          |               |
 +-----v-----------------v--|-------------v------+   UDP    +--------v---------------v-------+
 | controllers <- mode   gateway DoCAN   DoIP    | SOME/IP  | command line      NATS         |
 |      |       manager         \___UDS__/       |<-------->| bridge <-> Kuksa <-> gateway   |
 |      +--> signal bus     SOME/IP server       |          | SOME/IP client   (broker)      |
 +----------------------- MCU -------------------+          +------------- MPU --------------+
```

| Component | State | Operations | Called by | Correct when |
|---|---|---|---|---|
| Vehicle mode manager | mode, observers | `setMode`, setter/getter | ignition, SOME/IP | only valid transitions; every observer told, in order, in the same call |
| Door lock | Locked / Unlocked / Error, pin, `IsLocked` | `lock`, `unlock`, `setError`, auto-lock, button, command signal | SOME/IP, mode manager, bus, button | bolt moves only at rest (5 km/h) and with the door not open; pin (if it is the lock's own), bus, events and state agree |
| Lighting | three lights, pins | `setLightState`, all off in Off | SOME/IP, mode manager | lamps, service and events agree; a light that was told is set, as long as no gateway has taken the method |
| Ignition | `cranking_`, one-shot timer | press, timer expiry | button, timer | a crank always ends; never leaves Run while moving |
| Speed simulator | speed, override, last sent, copy of the mode | 100 ms tick, `SetSpeed`, mode change | timer, SOME/IP, mode manager | moves only in Run; bus, events and state agree; the override is reached |
| Signal bus (MCU) | last value per signal | publish, subscribe, get | controllers | synchronous |
| SOME/IP server | known clients, `dispatching_`, deferred events | receive and dispatch, `sendEvent`, connection lost | transport thread, any thread | no event lost or doubled; response before the events it caused |
| UDS handler | session | session control, reads, IO control | DoIP and CAN threads | IO control in the extended session only |
| DoIP transport | listening and client descriptor, accept thread | accept, read, reply, shutdown | testers, lifecycle | each tester gets its own answers; silent after shutdown |
| DoCAN transport | handler | frame in, frame out | CAN thread | answers what came in over CAN, in order |
| CAN gateway | mapping tables | `start`, request to frame, frame to event | SOME/IP, CAN thread | forwards what is mapped, takes nothing else over |
| Bridge (MPU) | mapping tables | event to signal, signal to request | SOME/IP thread, Kuksa reader threads | broker agrees with the ECU; the last command wins |
| Kuksa adapter | streams, reader threads, `mutex_` | connect, publish, subscribe, get, disconnect | bridge, gateway | callbacks one at a time; disconnect ends all of them |
| Cloud gateway | VIN, connected | command in, state out, `publishCurrentState`, `updateVin` | NATS, reader, main and CLI threads | cloud agrees with the broker; it is the vehicle's VIN that is published |
| Command line | last response, running | request and wait 2 s, commands, stop | user, main | the response is to its own request |
| Timer services | slots or threads, next id, `slots_mtx_` or work queue | `startPeriodic`, `startOneShot`, `cancel`, `stopAll`, expiry | controllers; threads, interrupt, work queue | a callback for every expiry, none after `cancel()` returned; no slot is lost |
| CAN adapter | callbacks, filter, receive thread | `addRxCallback`, `startReceiving` | gateway, DoCAN, main | whoever registered hears frames |
| MCU mains | devices found, components and their levels, stand-ins | the start | boot | lock, mode and speed are served on every board; the diagnosis has its handler before frames arrive; the start ends |
| NATS adapter | connection, patterns with callbacks, subscriptions | connect, subscribe, publish, disconnect, dispatch | gateway, library's threads | each message heard by whom it is for, as often as the caller's patterns match it |
| MPU main | where it is | startup, VIN loop, main loop, shutdown | systemd, signals | comes up and goes down whatever the others do; runs until stopped |

What is hard here:

- **Steps inside one call.** `setMode` calls every observer before it returns, and the door lock is called before the
  simulator. The auto-lock works only because of what the bus holds at that moment.
- **Threads without locks.** On POSIX the receive thread and the 100 ms timer's thread call the controllers; the mode
  manager's header asks its callers for serialisation which nothing gives. On Zephyr the threads are cooperative and
  the "mutex" is empty.
- **Order.** Responses and events of one request, direct and deferred events, state messages of three threads.
- **Loss.** UDP, a broker that skips values for slow readers, a message bus that keeps nothing, failed publications
  whose result is not looked at, restarts of either side.
- **Starting.** Six devices that may be missing, components in run levels, a lifecycle manager that waits for reports,
  requests and frames that arrive in the middle of it.
- **Waiting.** Joins on blocked threads, callbacks under a mutex, two-second waits that take any response.

## Modules

Read them in this order. `EXTENDS` is the composition: the components' variables and handlers are brought together by
the module that calls them.

| Module | Models | Extends |
|---|---|---|
| `BodySignals` | the MCU's signals, pins, replies; constants of the board | |
| `VehicleMode` | transition relation, notifier | `BodySignals` |
| `DoorLock` | lock state machine, interlock, pin, event, `IsLocked` | `BodySignals` |
| `Lighting` | lights, lamps, event | `BodySignals` |
| `SpeedSimulator` | tick, override, reaction to modes, events, bus | `BodySignals` |
| `BodyService` | **abstract**: one vehicle with mode, speed, bolt, door, lights | |
| `BodyEcu` | boot order, `setMode` with its observers, ignition, requests, timers, CAN gateway; implements `BodyService` | the four above |
| `MCBodyEcu` | values for TLC | `BodyEcu` |
| `BodyEcuProofs` | theorems | `BodyEcu`, `TLAPS` |
| `BodyThreads` | the same handlers access by access, in the threads of either build | instance of `VehicleMode` |
| `BodyThreadsProofs` | theorems | `BodyThreads`, `TLAPS` |
| `TimerService` | **abstract**: the promise of `ports/ITimerService.h` | |
| `ThreadTimers` | the POSIX timer service: a thread per timer, `slots_mtx_`, joins | |
| `ZephyrTimers` | the Zephyr timer service: slots, kernel timers, work queue | |
| `TimerPlatforms` | either of them, refining `TimerService` | instances of the three |
| `TimerProofs` | theorems | `TimerPlatforms`, `TLAPS` |
| `Lifecycle` | run levels, and which call may come next | |
| `McuBoot` | both MCU mains from the search for devices to the running program | `Lifecycle` |
| `McuBootProofs` | theorems | `McuBoot`, `TLAPS` |
| `SomeIpServer` | receive thread, senders, clients | |
| `SomeIpServerProofs` | theorems | `SomeIpServer`, `TLAPS` |
| `Uds` | UDS handler, called in two steps by a thread | |
| `DoIp` | accept loop, connection, shutdown | `Uds` |
| `Diagnostics` | both transports around the handler | `DoIp` |
| `MCDiagnostics` | values for TLC | `Diagnostics` |
| `DiagnosticsProofs` | theorems | `Diagnostics`, `TLAPS` |
| `SignalBridge` | wire, broker, bridge, a body ECU reduced to its lock | |
| `CloudGateway` | gateway, its three publishing threads, NATS, app | `SignalBridge` |
| `Mpu` | main thread, command line, signal, shutdown, restart | `CloudGateway` |
| `MpuProofs` | theorems | `Mpu`, `TLAPS` |
| `NatsTransport` | connect, subscribe, publish, disconnect, dispatch with the adapter's matching of subjects | |
| `MCNats` | values for TLC | `NatsTransport` |
| `NatsProofs` | theorems | `NatsTransport`, `TLAPS` |

How to read an action against the code:

- **BodyEcu.** One action is one handler with everything it calls: `SetMode(new)` is `VehicleModeManager::setMode` past
  its early returns, with `AllLightsOff`, `AutoLock` and `SpeedOnMode` -- the observers -- as conjuncts. Events to
  subscribers are the variables `modeEvent`, `doorEvent`, `lightEvent`, `speedEvent`: the last payload sent. `reply` is
  the last return code. Speeds are integers; the 5 km/h step of the override and the clamping are kept, the fixed-point
  filter of the potentiometer is any speed between the old one and the sample. What depends on the
  build or is not connected by the mains (door button, other bus clients, `setError`, failing timers, the gateway) is
  switched by the constant `Wired`, which the run sets to all of them. The pins are one array `gpio`: `LockPin` may be
  a lamp's.
- **BodyThreads.** A handler is a sequence of steps `at[t].pc`, one for each access to what another thread touches.
  Cooperative scheduling is a guard: a handler starts only when no other is under way.
- **SomeIpServer.** One action per critical section or `send_message()`; `hold` is the event between the two halves of
  `sendEvent`.
- **TimerService and below.** A timer is one call of `startPeriodic()` or `startOneShot()`. `phase`, `due`, `firing` of
  the abstract service are functions of threads and slots in the detailed ones. Time is left out: a timer may expire
  whenever it runs. A callback may start timers (`CallbackStarts`); it cancels none. `cancel()`
  may come with the identifier of a timer that has long ended. `sound` of the Zephyr service is a history variable: it
  becomes false when a slot is handed out whose work item is still queued or whose callback still runs, after which the
  kernel promises nothing, and so does `TimerService`.
- **McuBoot.** `hw` is what the search for devices finds, `todo` the set of calls the lifecycle manager has still to
  make -- `MayCall` says which of them may be next, by level, operation and place of registration --,
  `stuck` the stages with a component that never calls `transitionDone()`. A "method" is its service's name.
- **NatsTransport.** `subjectMatchesPattern` is the code's, token by token; `NatsMatches` is the server's rule. Each
  message is a thread of the library that calls `dispatchMessage`. `heard[p][n]` is a history: how often the callback of
  pattern p was called for the n-th message.
- **Uds, DoIp, Diagnostics.** `task[t]` is a request inside the handler: asked, permitted, answered. The DoIP
  descriptor is `client`; a message is its kind.
- **SignalBridge, CloudGateway, Mpu.** `uplink` and `downlink` are the wire, `streams[s]` the values a reader thread
  has not taken, `mutex` the callback inside the adapter's mutex, `held[p]` a publishing thread between reading and
  publishing. The broker's signals are the door's lock, its
  command and the VIN; the VIN as the app shows it, taken from every message's subject, is left out. `main.pc` is the
  statement of `main()` that comes next. `lost`, `reported`, `requested`, `overtaken` are
  history variables: the properties use them to tell what the code must do from what the network did.

Operators whose name ends in a word after an underscore (`SpeedOnMode_OnlyOff`) are plausible mistakes in the
definition that follows. Nothing uses them in the specification; each breaks a property, which shows that the
property can be broken.

## Runs

| Run | Configuration (module) | Checks | Outcome | States |
|---|---|---|---|---|
| `body` | `MCBodyEcu` | the controllers as one vehicle, pins, button, events, answers; cranks end, overrides take effect | holds | 312 k |
| `threads` | `MCThreads` (`BodyThreads`) | agreement and promises where handlers run through, coming to a stop where they race | holds | 25 k |
| `timers` | `MCTimers` (`TimerPlatforms`) | both timer services keep one promise | holds | 47 k |
| `boot` | `MCBoot` (`McuBoot`) | both mains start, on every combination of devices | holds | 43 k |
| `boot_stub` | `MCBootStub` (`McuBoot`) | the software-only lock sends its own event | violated | - |
| `someip` | `MCSomeIp` (`SomeIpServer`) | loss, duplication and order of events | holds | 211 k |
| `diag` | `MCDiagnostics` | answers, order, sessions, silence after shutdown | holds | 1.1 M |
| `diag_session` | `MCDiagnosticsSession` (`MCDiagnostics`) | IO control in the extended session, with both transports | violated | - |
| `diag_shutdown` | `MCDiagnosticsShutdown` (`MCDiagnostics`) | `shutdown()` returns | violated | - |
| `nats` | `MCNats` | the adapter's matching against the server's | holds | 6.5 M |
| `mpu` | `MCMpu` (`Mpu`) | broker, cloud, commands, progress of main | holds | 2.4 M |
| `mpu_vin` | `MCMpuVin` (`Mpu`) | the VIN is the vehicle's | violated | - |

### body

*Shows* that under every sequence of presses, requests, ticks, faults, signals and CAN frames the controllers agree
with each other, their subscribers, the bus and the pins (`SubscribersCurrent`, `MotionOnlyInRun`,
`ActuatorFollowsLock`, `LampsShowLights`), that the button leaves a moving vehicle in Run (`ButtonKeepsMovingInRun`),
that an answer says what was done (`AnswersTruthful`), and that the five of them behave as one vehicle: `KeepsPromise`
is the refinement of `BodyService`, where the bolt moves at walking speed with the door not open, entering Run locks
what can be locked, Off darkens the lights, `LockStateChanged` events chain, and speed exists in Run only. With the
timers running a crank ends (`CrankEnds`) and an override that is left alone becomes the speed (`OverrideTakesEffect`).

*What the properties leave to the code.* Walking speed is the code's 5 km/h; `.specs/prd.md:136` asks for zero (below).
Where the lock's pin is a lamp's too, `ActuatorFollowsLock` says that the pin shows the lock *or that light*, whichever
was written last, and `LampsShowLights` is about the other lamps; where the pin is the lock's own both say the whole.
The gateway, once started, takes the lights' method and may send a `LockStateChanged` of a CAN frame:
`SubscribersCurrent` gives up the lock's event then, `BodyService` has an action for it (`Relay`), and a light that
the gateway was asked for is not set. Everything else is shown with the gateway at work.

*Bounds.* Nothing counts, so none of the variables is capped. Two lights, with the lock on the pin of the second: a
lamp that is the lock's and one that is not, as on the Zephyr board, whose lock is on the pin of the third of three
(`app/src/main.cpp:187`). Speeds 0, 5, 10: with a limit of 5 km/h these are the standing vehicle, the one that may
just move its bolt, and the one that may not. Requests 3 (rounds), 12 (is clamped) and -1 (clears). One CAN frame, of
an event that an unlocked or faulty lock did not send. The theorems are about any number of lights and any pin.

*Fairness.* The crank timer and the 100 ms timer expire: on Zephyr the kernel's timers submit to a work queue that
nothing blocks, on POSIX each has a thread that waits with a deadline; run `timers` shows that every expiry is served.
Nobody has to press or send anything. `CrankEnds` needs the first, `OverrideTakesEffect` the second.

### threads

*Shows* when a handler may be taken as one step, which is what `BodyEcu` does: with Zephyr's scheduling the interleaved
handlers keep `MovesSlow`, `RunEntersLocked` and `QuietAgrees`. With POSIX threads these three are false -- a tick that
has read the mode before a mode change writes its speed after it -- and the properties say so by their condition
`Cooperative`; what holds for both is `ComesToStop`: the next tick outside Run repairs speed and bus. What is not
repaired is the subscribers' value (below).

*Bounds.* Four threads (two on POSIX) and the same three speeds; no counters. The bus starts with the speed 0 that the
ignition's `init()` causes. *Fairness.* A handler that has begun
ends. The tick has strong fairness, because on Zephyr it can start only when no other handler is under way: it waits
in the work queue's order, which is first come, first served, and is not starved.

### timers

*Shows* that a thread per timer with a mutex held across joins, and a slot table with an interrupt and a work queue,
both refine `TimerService` (`KeepsPromise`, its liveness included: every expiry is served); that `cancel()` and
`stopAll()` return (`CancelReturns`) unless a callback they join is waiting for `slots_mtx_` to start a timer -- the
deadlock the code has room for, which no callback of the program walks into; and that every way a timer can end gives
its slot back (`RefusedOnlyWhenFull`). `cancel()` may come at any time and with any identifier ever returned. On Zephyr
a slot's number is all that names a timer, so a late `cancel()` may end another timer than was meant, which the promise
allows, and it may free a slot whose work item is still queued or running. When such a slot is handed out again, start
initialises the queued item anew, and the kernel leaves open what follows: `sound` is false from there on and nothing
is promised. Only a `cancel()` leads there, and the program contains none (theorem `SoundWithoutCancel`).

*Bounds.* Three timers and two slots (eight in the code): slots are used up, one is reused, and two expire at once.
*Fairness.* Threads that can run do; the work queue serves its items in turn, so each item has strong fairness.

### boot, boot_stub

*Shows*, for both mains and all combinations of emulation or silicon, GPIO, ADC and CAN, with requests arriving from
the moment the transport is up, who answers once the start is over (`EveryHardwareServes`): lock, mode and speed always
have a handler, the component's or what stands in for it; the lights have one exactly where there is a GPIO, and the
VIN on Zephyr only. The gateway never hears the CAN bus without the diagnosis hearing it too, with its handler set
(`DiagnosisHearsFirst`); no frame comes before that handler (`HandlerBeforeFrames`); and the start ends unless a socket
could not be had (`StartEnds`). The exception is the code's: `SomeIpSystem::run()` and `DoIpTransport::init()` return
without `transitionDone()` when their socket fails, and OpenBSW's manager then waits.

OpenBSW's manager is not in the repository. `async` leaves open whether `transitionToLevel()` returns before the
transition is over. If it does, Zephyr's `startReceiving()` (`app/src/main.cpp:373`) may come before the callbacks are
added, which `CanAdapter` then refuses with a warning in the log (`CanAdapter.cpp:54`): gateway and diagnosis may
hear nothing. The model has that case. `DiagnosisHearsFirst` holds in it -- the diagnosis may hear without the gateway, never
the other way round --, `HandlerBeforeFrames` does not claim it. Also seen: `DoIpTransport::run()` and
`DoCanTransport::run()` do not report either, and discovery offers only what level 1's `run()` has registered.

*Bounds.* None: nothing counts, and only the last request and the last event are remembered. *Fairness.* `main()` and the lifecycle manager run on. Deadlock
checking is off because a program that is up, and is asked nothing, does nothing.

### someip

*Shows* that no event is lost between the flag, the deferred list, the snapshot of clients and the transport
(`NothingLost`), none is sent twice (`NoDuplicates`), responses precede the events they cause (`ResponseFirst`),
deferred events keep their order and on Zephyr all do (`EventsInOrder`), and none waits for another request
(`EverythingSent`). Between a direct and a deferred event of the same POSIX thread there is no order: the direct one
may overtake.

*Bounds.* Both schedulings (`Schedulings`), two clients (a requester and a bystander), one sender besides the receive
thread, three events, two messages: an event before, inside and after a dispatch, and a second dispatch. *Fairness.* A
thread inside a call goes on.

### diag, diag_session, diag_shutdown

*Shows* per tester what it is answered and in which order, with nothing behind a fatal message, for testers that leave
in the middle and a shutdown at any point (`OwnAnswersInOrder`, `ServedIsAnswered`, `QuietAfterShutdown`); that what
goes out over CAN answers what came in there, in order, each at most once and every request whose answer fits a frame
(`CanAnswersInOrder`); and that the session is respected as long as there is one transport
(`DoIpControlInExtendedOnly`). `ServedIsAnswered` excepts a tester that stays silent while it holds the only
connection: others wait in the listen queue. Whether an answer of more than seven bytes goes out over CAN is left open:
the code drops it, `docs/decisions/005-diagnostics-transport.md:42` speaks of the same services (below).

`diag_session` and `diag_shutdown` show the two disagreements with the repository's texts (below). In the latter the
only way out of the join is `CalledTooLate`, an `accept()` that starts after the close; a thread that is already in
`accept()` is not woken.

*Bounds.* One tester with two messages, two CAN frames: enough for a session change between check and use, for a
second message in the buffer when the first is fatal, and for an answer that overtakes another. Three requests -- a
session change, the VIN, whose answer is long over CAN, a control --, and the change back to the default session in
`diag_session`. *Fairness.* The accept thread, the CAN thread and `shutdown()`
run on; testers need not do anything, nor is it assumed that `accept()` or `recv()` return on a closed descriptor.
Deadlock checking is off because a transport that is shut down, and a process killed by SIGPIPE, stop.

### nats

*Shows* that a callback hears only messages that its own pattern matches by the server's rule, and each of them at most
as often as the caller has patterns that match it (`HeardOnce`): the server delivers a message once to every
subscription that matches, and for each delivery the adapter calls every callback that matches, so two overlapping
patterns make two calls each. And that the adapter's matching loses nothing the server let through (`SentIsHeard`).

*Bounds.* Every pair of patterns of up to two tokens from two words, `*` and a final `>`, every subject of up to three
tokens, and the gateway's two patterns: a pattern shorter, longer and as long as its subject. Two messages, one thread
that publishes, one connection. Deadlock checking is off because a disconnected adapter does nothing.

### mpu, mpu_vin

*Shows*, with restarts of either side, lost datagrams, broken streams, failed publications, skipped updates and a
cloud that was never reached: `BrokerAgrees` (the broker has what the ECU last reported, if nothing was lost),
`LastCommandWins` (the last request to the ECU is for the value the broker holds, however many the reader skipped),
`CloudAgrees` (once startup is over and all is read and published, an app that missed no message shows the broker's
lock state, whichever `get()` failed), `MainNeverStuck` (startup and shutdown always get on, but for `Cli::stop()` at a terminal where nobody
types). A failure outside of the program -- the ECU refuses, the broker loses, a call of its fails -- is an input.

`CloudAgrees` has one exception, which the code has: `publishCurrentState()` reads and publishes without the reader's
mutex, so a reader thread's newer value may go out before an older one (`overtaken`). It is over when a reader
publishes again. What `get()` returns is a value or nothing, since its call may fail or pass its deadline
(`KuksaSignalBusAdapter.cpp:188-198`); then nothing is published, and the app keeps what it had from the readers. Under
which VIN the messages go out is `mpu_vin`'s question. The VIN reaches the gateway three ways: from startup's or the
CLI's request, and from the ECU's announcement through the broker (`ReadVin`), which persists it for the next start.

*Bounds.* `MaxInFlight = 2` datagrams each way: a response and its event fit, a third is dropped, as by a full socket
buffer. `MaxInputs = 3` inputs and faults together: a command, a second one that overtakes it, and one fault or
restart between them. `MaxAttempts = 2` instead of five: first, last. *Fairness.* The main thread and publications go
on and the CLI's waits end after two seconds; broker, ECU, network, cloud and user owe nothing. Deadlock checking is
off because the process may have ended and the inputs be used up.

## Proofs

`BodyEcuProofs` proves for **every** number of lights, pin assignment, maximum speed (a multiple of 5) and wiring:

| Theorem | States |
|---|---|
| `TypeCorrect` | `Spec => []TypeOK` |
| `MotionOnlyInRunAlways` | `Spec => []MotionOnlyInRun` |
| `ActuatorFollowsLockAlways` | `Spec => []ActuatorFollowsLock`, on any pin |
| `InterlockHoldsAlways` | `Spec => InterlockHolds`: the simulator's own speed is at most 5 km/h and the door not open when the bolt moves |
| `RunEntersLockedAlways` | `Spec => RunEntersLocked` |
| `CrankingHasTimerAlways` | `Spec => []CrankingHasTimer` |
| `BodyKeepsPromise` | `Spec => KeepsPromise`: the controllers implement `BodyService`, with and without a CAN gateway |
| `LampsShowLightsAlways` | `Spec => []LampsShowLights`, on any pin |
| `SubscribersCurrentAlways` | `Spec => []SubscribersCurrent` |
| `ButtonKeepsMovingInRunAlways` | `Spec => ButtonKeepsMovingInRun` |
| `AnswersTruthfulAlways` | `Spec => AnswersTruthful` |

`SomeIpServerProofs` is about any number of clients, sending threads, events and messages, under both schedulings:

| Theorem | States |
|---|---|
| `ServerTypeCorrect` | `Spec => []TypeOK` |
| `NothingLostAlways` | `Spec => []NothingLost` |
| `NoDuplicatesAlways` | `Spec => []NoDuplicates` |
| `ResponseFirstAlways` | `Spec => []ResponseFirst` |
| `PendingOnlyInDispatchAlways` | `Spec => []PendingOnlyInDispatch` |
| `EventsInOrderAlways` | `Spec => []EventsInOrder` |

`BodyThreadsProofs` is about the handlers access by access, for any maximum speed; what it says of the order of
accesses holds where handlers run through (`Cooperative`, the Zephyr build):

| Theorem | States |
|---|---|
| `ThreadsTypeCorrect` | `Spec => []TypeOK`, in either build |
| `QuietAgreesAlways` | `Spec => []QuietAgrees` |
| `MovesSlowAlways` | `Spec => MovesSlow` |
| `RunEntersLockedOnBoard` | `Spec => RunEntersLocked` |

`TimerProofs` is about any timers and any number of slots:

| Theorem | States |
|---|---|
| `RefusedOnlyWhenFullAlways` | `Spec => RefusedOnlyWhenFull` |
| `ServicesKeepPromise` | `Spec => Promise!Init /\ [][Promise!Next]_Promise!vars`: both services implement `TimerService`, fairness left aside, up to the loss of `sound` |
| `SoundWithoutCancel` | while nobody calls `cancel()`, `sound` is not lost |

`McuBootProofs` is about both mains, on every combination of devices:

| Theorem | States |
|---|---|
| `EveryHardwareServesAlways` | `Spec => []EveryHardwareServes` |
| `DiagnosisHearsFirstAlways` | `Spec => []DiagnosisHearsFirst` |
| `HandlerBeforeFramesAlways` | `Spec => []HandlerBeforeFrames` |
| `BootTypeCorrect` | `Spec => []TypeOK` |

`DiagnosticsProofs` is about any testers and requests and any numbers of messages and frames:

| Theorem | States |
|---|---|
| `OwnAnswersInOrderAlways` | `Spec => []OwnAnswersInOrder` |
| `CanAnswersInOrderAlways` | `Spec => []CanAnswersInOrder` |
| `QuietAfterShutdownAlways` | `Spec => []QuietAfterShutdown` |
| `DoIpControlInExtendedOnlyAlways` | `Spec => DoIpControlInExtendedOnly` |
| `DiagnosticsTypeCorrect` | `Spec => []TypeOK` |

`MpuProofs` is about any number of datagrams in flight, inputs and faults, and attempts, with and without a terminal:

| Theorem | States |
|---|---|
| `MpuTypeCorrect` | `Spec => []TypeOK` |
| `BrokerAgreesAlways` | `Spec => []BrokerAgrees` |
| `LastCommandWinsAlways` | `Spec => []LastCommandWins` |
| `CloudAgreesAlways` | `Spec => []CloudAgrees` |

`NatsProofs` is about any patterns and subjects and any number of messages:

| Theorem | States |
|---|---|
| `MatchesAsServer` | the adapter's loop over the tokens decides as the server's rule does |
| `HeardOnceAlways` | `Spec => []HeardOnce` |
| `SentIsHeardAlways` | `Spec => SentIsHeard` |

The assumptions are the modules' own (`SignalsAssumption`, `BodyAssumption`, `ThreadsAssumption`, `TimersAssumption`,
`ServerAssumption`, `RequestsAssumption`, `DoIpAssumption`, `BridgeAssumption`, `GatewayAssumption`, `MpuAssumption`,
`NatsAssumption`), which TLC evaluates on every run.

*The argument.* Types first: one lemma per helper (`MoveLockType`, `LightsType`, `SpeedOnModeType`, `EnterType`), one
per group of actions, `NextTypeOK` above them. `MotionOnlyInRun` is not inductive by itself: the simulator reports a
standing vehicle to the bus only if its speed *differs from the last one sent*, so a step into Off could leave the bus
moving if the last sent value were out of date. The inductive invariant `SpeedInv` adds `SentIsCurrent`
(`last_sent_speed_kmh_` is the speed after every handler). `ModeSteps` then reduces the seventeen actions to three
kinds of step -- mode untouched, `Enter(new)`, the failed crank -- and `SpeedInvStep` treats these.

`InterlockHolds` and `RunEntersLocked` are action properties that follow from that invariant. The interlock reads the
*bus*, the property speaks of the simulator's *own* speed; `MotionOnlyInRun` says they are equal or the bus is empty
and the speed 0. The auto-lock on the way into Run is refused by nothing but a failed lock or an open door because in
every mode but Run the bus is at most 0. `DoorSteps` reduces every step to a move of the bolt, a fault, or nothing
about the lock; `FlagSteps` does the same for the ignition's flags. The pins need no hypothesis about `LockPin`: one
write to it leaves it the lock's level or that light's, which is what the two properties say.

The refinement `BodyKeepsPromise` goes action by action: each of the seventeen is an action of `BodyService` or leaves
its six variables alone. Two of its steps need the invariants: a request to lock is *obeyed* in the abstract service at
walking speed, which the code decides by the bus, and entering Run locks. The gateway's two actions are steps of
`BodyService` too: an answer that changes nothing, and `Relay`.

*The server.* Each property has its own inductive invariant.

- `NothingLost` (`LossInv`): only known clients are due anything; the receive thread's local list is empty except
  between the end of a dispatch and the end of its flush, so that nothing is overwritten when the lists are swapped;
  the snapshot taken before a flush contains every client that is still known -- clients are added by the receive
  thread itself, so none appears between snapshot and flush.
- `NoDuplicates` (`DupInv`): the numbers of the events delivered, pending, held between the halves of `sendEvent()`
  and in the local list are at most `emitted`, the three ways are disjoint, and each is without repetition.
- `ResponseFirst` (`FirstInv`): an event that is sent at once was caused by no request, because while a request is
  dispatched the flag defers it; so no client has an event of the request before its response.
- `EventsInOrder` (`OrderInv`): of the events that count, those a client has are older than all that wait, and those
  that wait are sorted. It rests on `PendingOnlyInDispatch` (the list is empty while another is flushed) and, for
  Zephyr, on `Alone`: one thread at a time is between the halves of `sendEvent()`, none while a request is answered.

*The threads.* `CoopInv` says that at most one handler is under way, and `StateOf(t)`, by its program counter, what of
the state is not yet as it will be: the simulator has the mode but still its speed, the event is out but the speed not
remembered. Between handlers nothing is (`Rested`), which is `QuietAgrees`. One lemma per access keeps it
(`CheckCoop` to `DoneCoop`); `TurnOf` says whose turn it is. `MovesSlow` and `RunEntersLocked` are read off the same
invariant (`SafeStep`): nobody changes the speed between the lock's check of the bus and its act.

*The timers.* With slots, as long as the service is sound (`SlotInv`): a timer that can still fire has an active slot of its own and the other way round
(`Owned`); what ticks, waits in the queue or runs is active, and a one-shot does one of the three at a time (`Served`).
`RefusedOnlyWhenFull` then counts: the slots and the timers that can fire are in bijection. With threads
(`ThreadsInv`): an identifier is a place in `slots_` (`NumberedInv`), so that `cancel()` reaches its own timer, and a
thread that was told to stop and has not ended is waited for (`ThreadInv`). For the refinement, `SlotView` and
`ThreadView` say in each service's terms what a caller sees; one lemma per action names the abstract step it is
(`SlotsStart` to `SlotsReturn`, `ThreadsStart` to `ThreadsJoined`). `Call(t)` is the case that needs the invariant: a
thread that wakes and finds `running` false drops its expiry, which the promise permits only while `cancel()` waits.

*The boot.* `BootInv` says where the start is by what is left of `todo`: the calls made are the first ones in the
manager's order (`OrderInv`, closed under `Precedes`), a method's owner is the component if its `init()` has been
called, else nobody or the stand-in (`MethodsInv`), and the callbacks at the CAN adapter are those of the components
called (`CanInv`), or, where Zephyr may be receiving in the middle of it, the first of them: DoCAN's comes with a level's
`init()`, the gateway's with a later `run()`, and by then every `init()`, the diagnosis' with it, has been called
(`InitsBeforeGateway`). Where the transition is synchronous `todo` is empty before Zephyr starts to receive; on POSIX
it is the order of two components that puts the diagnosis' handler before the first frame.

*Diagnostics.* `QuietInv`: the accept thread serves whom it accepted, the shared descriptor is that tester's or closed,
and the handler is at work for it only while a message is handled (`ServerInv`); hence, when `shutdown()` has returned,
nothing is. `SessionInv`: as long as nothing came in over CAN, what the session has permitted it permits still.

`OwnAnswersInOrder` counts: every reply has a place among those that are due (`Due`: a message, and which reply to it),
and the n-th reply sent is the one with n places up to its own (`DueUpTo`). Its invariant `WireInv` says per tester
that what is unread is the end of what was sent, that a tester who is not served has been told nothing, that the
request inside the handler is the last message read, and that on a connection that is whole exactly what is due for the
messages read is sent, but for the answer under way (`AllSent`). `DueNext` is the lemma about one message more,
`DueAppend` the one about messages that arrive meanwhile. The invariant claims nothing of a connection that is not
whole: once `shutdown()` has taken the descriptor, or the tester has left, nothing more is sent on it. `CanInv` does
the same for CAN: of the frames answered so far those with a short answer are counted (`ShortUpTo`), and the n-th reply
is the one with n of them up to its own. Whether an answer is short depends on its request only.

*The MPU.* Each property is an agreement of two ends of a chain of queues, and its invariant says what is under way.
`EventInv`: unless something was lost, the newest lock event on the wire is what the ECU reported, and if there is none
the broker has it. `QueuesInv`: what a reader thread has not taken ends with the broker's value, so that skipping costs
only what is out of date; a broken stream has nothing waiting. `CommandInv`: a reader that has taken everything has
requested the broker's value. For the cloud, `StepsInv` says where each of the three publishing threads may
be between reading and publishing; `LockInv`: the app has the broker's lock state and nobody holds another, or the
reader thread has it in hand, or will read it, or an older one was still to come when a reader published last. That
history, `overtaken`, is a premise, not a conclusion: without it the statement is false, because the gateway publishes
outside of its mutex. `SeenInv` is what lets `get()` fail: nobody has published a value the broker never had.

*NATS.* `MatchesAsServer` compares the loop of `subjectMatchesPattern` with the rule of the server for all patterns
and subjects; `MapInv` says that every subscription of the server has its callback in the map, `TrafficInv` that
whatever arrives for a subscription or was handed to a callback matches it. `CountInv` counts: the calls a callback has
had for a message and the deliveries of that message still waiting for it are together at most the patterns in the map
that match; a delivery turns one into the other, and a subscription that is added later only adds to the bound.

Every invariant and every action property that a run checks has its theorem. Only model-checked are the liveness
properties (`CrankEnds`, `OverrideTakesEffect`, `ComesToStop`, `EverythingSent`, the fairness of `TimerService`,
`CancelReturns`, `StartEnds`, `ServedIsAnswered`, `MainNeverStuck`): fairness and
`ENABLED` are out of the prover's reach. Induction over data is, too; the properties that compare what was sent with
what was asked are therefore stated by counting places, not by a recursion over the messages.

## Where the code and its documents disagree

Checked by a run that finds the violation:

- **IO control outside of the extended session** (`diag_session`). The session is checked in one transport's thread and
  changed in the other's before the control.
- **`DoIpTransport::shutdown()` need not return** (`diag_shutdown`). It closes the listening descriptor and joins the
  accept thread, which on Linux is not woken from `accept()` by that (`DoIpTransport.cpp:97-101`);
  `TransportTest.cpp:27-28` expects it to return without any tester.
- **The VIN may be another answer's payload** (`mpu_vin`). The command line takes any response for the one it waits for.
- **The software-only door lock sends somebody's event** (`boot_stub`). Its handlers capture `cfg` by reference
  (`app/src/main.cpp:309`, `:321`), a variable of a block that ends before the first request can arrive, and take the
  service and event numbers from there.

Shown by the models, with the steps, without a run of their own:

- **The bolt moves at 5 km/h.** `.specs/prd.md:136` wants `Vehicle.Speed` to be zero; `checkSafetyConstraints()`
  compares with 5 (`DoorLockController.cpp:57`). `BodyService` permits the code's limit, and so does every property
  about the bolt: with `WalkingSpeed == 0` `KeepsPromise` fails after boot, Run, a tick to 5 km/h, `Unlock`.
- **A light releases the lock.** On the Zephyr board the lock's pin is the third lamp's (`app/src/main.cpp:187` and
  `libs/body/lighting`, pins 0 to 2, on one adapter). `Lock`, then `SetLightState(2, off)` or a change to Off, and the
  pin is low while the lock is, and is reported, Locked; the other way round `Lock` lights the lamp.
- **The gateway takes over `SetLightState`.** With a CAN interface, `CanGateway::start` (`CanGateway.cpp:19`) registers
  for method 0x1000/0x0001 after the lighting controller; the request is answered 0 and sets no light
  (`GatewayLightRequest`). In the other direction a frame 0x300 is published as `LockStateChanged`, whatever the lock
  is (`CanDoorStatus`).
- **The VIN cannot be read over CAN.** Its answer is longer than a single frame and `DoCanTransport` drops it
  (`DoCanTransport.cpp:13`), while `docs/decisions/005-diagnostics-transport.md:42` says "Same UDS services reachable
  over both Ethernet and CAN-FD".
- **A late subscriber may keep an old state.** `CloudGatewayClient.h:42-43` has `publishCurrentState()` so that "late-joining
  subscribers (e.g. companion app) get the latest values". It reads, a reader thread publishes a newer value, it
  publishes: the app shows the older one until the signal changes again (`CloudAgrees` without `overtaken` fails).
- **A subscriber keeps a wrong speed.** A mode change between the tick's event and its note of what was sent
  (`SpeedSimulator.cpp:138`) leaves "last sent" at the old speed, and the subscribers with it, on POSIX.
- **The service ends by itself.** Without a terminal the command line reads end of input at once (`cli.cpp:102`), and
  `main()` ends with it: `Mpu` with `Terminal = FALSE`.

Seen while modelling:

- The POSIX MCU registers no `GetVin` (only `app/src/main.cpp:237-250` does): an MPU connected to it stays UNKNOWN.
- The VIN is announced once, at boot (`app/src/main.cpp:377`): to clients that asked for something during the start.
- The broker hands out its last command to a restarted MPU, which sends it to the ECU again.
- A command to a subject with any VIN is obeyed.
- Error is published to the broker as locked (`SomeIpKuksaBridge.cpp:66-70`).
- Where no component has the lights' hardware nobody answers for them, unlike the lock, the mode and the speed.

## Not modelled

GPIO, ADC and button adapters (pins, samples that may fail and presses are inputs), sending on CAN (a driver call that
may fail), the bytes of frames and messages, the shutdown functions nothing calls (`CanGateway::stop`,
`DoCanTransport::shutdown`, those of the `*System` wrappers), `SystemdLifecycleAdapter`'s notifications, the other data
types of the bridge, `platforms/posix-mpu/main.cpp` (the same parts in another order, with stubs), the configuration
loader and generators (sequential, not used at run time), OpenBSW and opensomeip (outside of the repository; the
lifecycle manager is modelled from its use). Two data races are not modelled because their outcome has no state here:
`server_endpoint_` (`SomeIpSystem.cpp:126`), assigned by the discovery thread while others send, and the NATS
connection, destroyed while a reader thread may be about to publish on it (`NatsCloudTransportAdapter.cpp:103`; the
history `touched` records it).

External parts that are modelled from their use: UDP (loses, keeps the order of what it does not lose), the Kuksa
databroker (last value, then newer ones, may skip), NATS (at most once; subjects matched as its documents say),
testers, the user.

## Plan

Done: everything above. Next, in this order:

1. Proofs: `BodyThreads` on Zephyr as an implementation of the mode and speed steps of `BodyEcu`, and the body ECU's
   lock as what `SignalBridge` assumes of it.
2. The remaining mappings of the bridge, and the stub builds.
