--------------------------- MODULE BodyEcuProofs ---------------------------
(* Theorems about BodyEcu, for every number of lights, every pin assignment,
   every maximum speed and every wiring of the optional inputs.             *)
EXTENDS BodyEcu, TLAPS

(* Rounding to the 5 km/h step never leaves the range of speeds. *)
LEMMA QuantiseType ==
    ASSUME NEW v \in 0..MaxSpeed
    PROVE  Quantise(v) \in Speeds
<1>1. MaxSpeed \in Nat /\ MaxSpeed % 5 = 0 BY SignalsAssumption
<1>2. DEFINE q == (v + 2) \div 5
<1>3. q \in Nat BY <1>1
<1>4. (q * 5) % 5 = 0 BY <1>3
<1>5. QED BY <1>1, <1>3, <1>4 DEF Quantise, AtMost, Speeds

(* The initial values have their types. *)
LEMMA InitTypeOK == Init => TypeOK
<1>0. 0 \in Speeds /\ 0 \in 0..MaxSpeed BY SignalsAssumption DEF Speeds
<1>1. SignalsInit => SignalsTypeOK
  BY <1>0 DEF SignalsInit, SignalsTypeOK, Absent, Low, High, OK, NOK
<1>2. ModeInit => ModeTypeOK BY DEF ModeInit, ModeTypeOK, Modes
<1>3. DoorInit => DoorTypeOK
  BY DEF DoorInit, DoorTypeOK, LockStates, Targets, Absent, OK, NOK
<1>4. LightInit => LightTypeOK BY DEF LightInit, LightTypeOK, Dark, Low, High
<1>5. SpeedInit => SpeedTypeOK
  BY <1>0 DEF SpeedInit, SpeedTypeOK, Modes, Absent
<1>6. Init => boot \in 0..6 BY DEF Init
<1>7. Init => cranking \in BOOLEAN /\ crankTimer \in BOOLEAN BY Zenon DEF Init
<1>8. QED BY <1>1, <1>2, <1>3, <1>4, <1>5, <1>6, <1>7, Zenon DEF Init, TypeOK

(* What each helper of the handlers does to the types. *)
LEMMA MoveLockType ==
    ASSUME DoorTypeOK, SignalsTypeOK, NEW want \in Targets, MoveLock(want)
    PROVE  /\ lockState' \in LockStates
           /\ doorEvent' \in {NoEvent} \cup [old : LockStates, new : LockStates]
           /\ busIsLocked' \in {"absent", "locked", "unlocked"}
           /\ gpio' \in [Pins -> {Low, High}]
  BY DEF DoorTypeOK, SignalsTypeOK, MoveLock, PublishStateChanged, LockStates,
         Targets, Level, Low, High

LEMMA LightsType ==
    ASSUME LightTypeOK, SignalsTypeOK
    PROVE  /\ AllLightsOff => LightTypeOK' /\ gpio' \in [Pins -> {Low, High}]
           /\ \A id, level : level \in {Low, High} /\ SetLightState(id, level)
                => LightTypeOK' /\ gpio' \in [Pins -> {Low, High}]
<1>1. /\ lights \in [Lights -> {Low, High}] /\ gpio \in [Pins -> {Low, High}]
      /\ lightEvent \in {<<>>} \cup [Lights -> {Low, High}]
  BY DEF LightTypeOK, SignalsTypeOK
<1>2. ASSUME lights' \in [Lights -> {Low, High}], PublishIfChanged PROVE LightTypeOK'
  BY <1>1, <1>2 DEF LightTypeOK, PublishIfChanged
<1>3. ASSUME AllLightsOff PROVE LightTypeOK' /\ gpio' \in [Pins -> {Low, High}]
  <2>1. lights' \in [Lights -> {Low, High}] BY <1>3 DEF AllLightsOff, Dark
  <2>2. gpio' \in [Pins -> {Low, High}] BY <1>1, <1>3 DEF AllLightsOff
  <2>3. QED BY <1>2, <1>3, <2>1, <2>2 DEF AllLightsOff
<1>4. ASSUME NEW id, NEW level \in {Low, High}, SetLightState(id, level)
      PROVE  LightTypeOK' /\ gpio' \in [Pins -> {Low, High}]
  <2>1. CASE id \in Lights
    <3>1. lights' = [lights EXCEPT ![id] = level] /\ gpio' = [gpio EXCEPT ![id] = level]
      BY <1>4, <2>1 DEF SetLightState
    <3>2. lights' \in [Lights -> {Low, High}] BY <1>1, <3>1
    <3>3. gpio' \in [Pins -> {Low, High}] BY <1>1, <3>1
    <3>4. QED BY <1>2, <1>4, <2>1, <3>2, <3>3 DEF SetLightState
  <2>2. CASE id \notin Lights
    BY <1>1, <1>4, <2>2 DEF SetLightState, LightTypeOK
  <2>3. QED BY <2>1, <2>2
<1>5. QED BY <1>3, <1>4

LEMMA SpeedOnModeType ==
    ASSUME SpeedTypeOK, SignalsTypeOK, NEW new \in Modes, SpeedOnMode(new)
    PROVE  SpeedTypeOK' /\ busSpeed' \in Speeds \cup {Absent}
<1>0. 0 \in Speeds BY SignalsAssumption DEF Speeds
<1>1. ticking' \in BOOLEAN BY Zenon DEF SpeedOnMode, SpeedTypeOK
<1>2. QED
  BY <1>0, <1>1
  DEF SpeedTypeOK, SignalsTypeOK, SpeedOnMode, Report, SendIf

LEMMA EnterType ==
    ASSUME TypeOK, NEW new \in Modes, Enter(new),
           reply' \in {Absent, OK, NOK}, UNCHANGED busIsOpen
    PROVE  SignalsTypeOK' /\ ModeTypeOK' /\ DoorTypeOK' /\ LightTypeOK' /\ SpeedTypeOK'
<1>. USE DEF TypeOK
<1>1. ModeTypeOK' BY DEF Enter, StoreMode, ModeTypeOK
<1>2. SpeedTypeOK' /\ busSpeed' \in Speeds \cup {Absent}
  BY SpeedOnModeType DEF Enter
<1>3. CASE new = "Off"
  <2>1. AllLightsOff /\ UNCHANGED doorVars BY <1>3 DEF Enter
  <2>2. LightTypeOK' /\ gpio' \in [Pins -> {Low, High}] BY <2>1, LightsType
  <2>3. DoorTypeOK' BY <2>1 DEF DoorTypeOK, doorVars
  <2>4. QED BY <1>1, <1>2, <2>2, <2>3 DEF SignalsTypeOK
<1>4. CASE new = "Run"
  <2>1. MoveLock("Locked") /\ UNCHANGED <<busResponse, lights, lightEvent>>
    BY <1>4 DEF Enter, AutoLock, lightVars
  <2>2. DoorTypeOK' /\ gpio' \in [Pins -> {Low, High}]
    BY <2>1, MoveLockType DEF DoorTypeOK, Targets
  <2>3. LightTypeOK' BY <2>1 DEF LightTypeOK
  <2>4. QED BY <1>1, <1>2, <2>2, <2>3 DEF SignalsTypeOK
<1>5. CASE new \notin {"Off", "Run"}
  <2>1. UNCHANGED <<gpio, doorVars, lightVars>> BY <1>5 DEF Enter
  <2>2. DoorTypeOK' /\ LightTypeOK'
    BY <2>1 DEF DoorTypeOK, LightTypeOK, doorVars, lightVars
  <2>3. QED BY <1>1, <1>2, <2>1, <2>2 DEF SignalsTypeOK
<1>6. QED BY <1>3, <1>4, <1>5

LEMMA SetModeType ==
    ASSUME TypeOK, NEW new \in Modes \cup {"unknown"}, SetMode(new),
           reply' \in {Absent, OK, NOK}, UNCHANGED busIsOpen
    PROVE  SignalsTypeOK' /\ ModeTypeOK' /\ DoorTypeOK' /\ LightTypeOK' /\ SpeedTypeOK'
<1>1. CASE new # mode /\ IsValidTransition(mode, new)
  <2>1. new \in Modes BY <1>1 DEF IsValidTransition, Modes
  <2>2. Enter(new) BY <1>1 DEF SetMode
  <2>3. QED BY <2>1, <2>2, EnterType
<1>2. CASE ~(new # mode /\ IsValidTransition(mode, new))
  <2>1. UNCHANGED <<bodyVars, busResponse>> BY <1>2 DEF SetMode
  <2>2. QED
    BY <2>1 DEF bodyVars, TypeOK, SignalsTypeOK, ModeTypeOK, DoorTypeOK,
                LightTypeOK, SpeedTypeOK
<1>3. QED BY <1>1, <1>2

(* Steps that leave a component alone leave its type alone. *)
LEMMA FrameTypes ==
    /\ ModeTypeOK /\ UNCHANGED modeVars => ModeTypeOK'
    /\ DoorTypeOK /\ UNCHANGED doorVars => DoorTypeOK'
    /\ LightTypeOK /\ UNCHANGED lightVars => LightTypeOK'
    /\ SpeedTypeOK /\ UNCHANGED speedVars => SpeedTypeOK'
    /\ SignalsTypeOK /\ UNCHANGED <<busSpeed, busIsOpen, gpio, reply>> => SignalsTypeOK'
<1>1. ModeTypeOK /\ UNCHANGED modeVars => ModeTypeOK' BY DEF ModeTypeOK, modeVars
<1>2. DoorTypeOK /\ UNCHANGED doorVars => DoorTypeOK' BY DEF DoorTypeOK, doorVars
<1>3. LightTypeOK /\ UNCHANGED lightVars => LightTypeOK' BY DEF LightTypeOK, lightVars
<1>4. SpeedTypeOK /\ UNCHANGED speedVars => SpeedTypeOK' BY DEF SpeedTypeOK, speedVars
<1>5. SignalsTypeOK /\ UNCHANGED <<busSpeed, busIsOpen, gpio, reply>> => SignalsTypeOK'
  BY DEF SignalsTypeOK
<1>6. QED BY <1>1, <1>2, <1>3, <1>4, <1>5

(* The five components' types. *)
PartsTypeOK ==
    SignalsTypeOK /\ ModeTypeOK /\ DoorTypeOK /\ LightTypeOK /\ SpeedTypeOK

LEMMA BodyFrame ==
    ASSUME PartsTypeOK, UNCHANGED <<bodyVars, busIsOpen, busResponse, reply>>
    PROVE  PartsTypeOK'
  BY FrameTypes
  DEF PartsTypeOK, bodyVars, modeVars, doorVars, lightVars, speedVars

LEMMA BootType ==
    ASSUME TypeOK, InitQuietly \/ IgnitionInit \/ SpeedSimInit \/ StartGateway
    PROVE  PartsTypeOK'
<1>1. CASE InitQuietly \/ StartGateway
  BY <1>1, BodyFrame DEF InitQuietly, StartGateway, PartsTypeOK, TypeOK
<1>2. CASE IgnitionInit
  <2>1. CASE mode = "Off"
    BY <1>2, <2>1, SetModeType DEF IgnitionInit, PartsTypeOK, TypeOK, Modes, SignalsTypeOK
  <2>2. CASE mode # "Off"
    BY <1>2, <2>2, BodyFrame DEF IgnitionInit, PartsTypeOK, TypeOK
  <2>3. QED BY <2>1, <2>2
<1>3. CASE SpeedSimInit
  <2>1. UNCHANGED <<modeVars, doorVars, lightVars, busSpeed, busIsOpen, gpio, reply>>
    BY <1>3 DEF SpeedSimInit, modeVars
  <2>2. ticking' \in BOOLEAN BY <1>3 DEF SpeedSimInit
  <2>3. SpeedTypeOK'
    BY <1>3, <2>2 DEF SpeedSimInit, SpeedTypeOK, TypeOK
  <2>4. QED BY <2>1, <2>3, FrameTypes DEF PartsTypeOK, TypeOK
<1>4. QED BY <1>1, <1>2, <1>3

LEMMA IgnitionType ==
    ASSUME TypeOK, IgnitionButton \/ CrankTimer
    PROVE  PartsTypeOK'
<1>1. CASE StartCrank
  BY <1>1, EnterType DEF StartCrank, PartsTypeOK, TypeOK, SignalsTypeOK, Modes
<1>2. CASE CrankWithoutTimer
  <2>1. ModeTypeOK' BY <1>2 DEF CrankWithoutTimer, StoreMode, ModeTypeOK, Modes
  <2>2. SpeedTypeOK' /\ busSpeed' \in Speeds \cup {Absent}
    BY <1>2, SpeedOnModeType DEF CrankWithoutTimer, Modes, TypeOK
  <2>3. DoorTypeOK' /\ LightTypeOK'
    BY <1>2, FrameTypes DEF CrankWithoutTimer, TypeOK
  <2>4. QED BY <1>2, <2>1, <2>2, <2>3
    DEF CrankWithoutTimer, PartsTypeOK, TypeOK, SignalsTypeOK
<1>3. CASE SwitchOff
  BY <1>3, EnterType DEF SwitchOff, PartsTypeOK, TypeOK, SignalsTypeOK, Modes
<1>4. CASE CrankTimer
  BY <1>4, SetModeType DEF CrankTimer, PartsTypeOK, TypeOK, SignalsTypeOK, Modes
<1>5. QED BY <1>1, <1>2, <1>3, <1>4 DEF IgnitionButton

LEMMA DoorType ==
    ASSUME TypeOK,
           \/ \E want \in Targets : LockRequest(want) \/ CommandSignal(want)
           \/ DoorButtonPress
           \/ DoorFault
    PROVE  PartsTypeOK'
<1>1. ASSUME NEW want \in Targets, LockRequest(want) \/ CommandSignal(want)
      PROVE  PartsTypeOK'
  <2>1. MoveLock(want) /\ UNCHANGED <<modeVars, lightVars, speedVars, busSpeed, busIsOpen>>
    BY <1>1 DEF LockRequest, CommandSignal, HandleLock, OnCommandSignal
  <2>2. busResponse' \in {Absent, OK, NOK} /\ reply' \in {Absent, OK, NOK}
    BY <1>1 DEF LockRequest, CommandSignal, HandleLock, OnCommandSignal, Code,
                TypeOK, SignalsTypeOK, DoorTypeOK
  <2>3. QED
    BY <2>1, <2>2, MoveLockType, FrameTypes DEF PartsTypeOK, TypeOK, DoorTypeOK, SignalsTypeOK
<1>2. CASE DoorButtonPress
  <2>1. PICK want \in Targets : MoveLock(want)
    BY <1>2 DEF DoorButtonPress, DoorButton, Targets
  <2>2. QED
    BY <1>2, <2>1, MoveLockType, FrameTypes
    DEF DoorButtonPress, DoorButton, PartsTypeOK, TypeOK, DoorTypeOK, SignalsTypeOK
<1>3. CASE DoorFault
  BY <1>3, FrameTypes
  DEF DoorFault, SetError, PublishStateChanged, PartsTypeOK, TypeOK, DoorTypeOK,
      SignalsTypeOK, LockStates
<1>4. QED BY <1>1, <1>2, <1>3

LEMMA SpeedType ==
    ASSUME TypeOK,
           \/ \E v \in SpeedRequests : SpeedRequest(v)
           \/ \E sample \in AdcSamples : SpeedTick(sample)
    PROVE  PartsTypeOK'
<1>1. ASSUME NEW v \in SpeedRequests, SpeedRequest(v) PROVE PartsTypeOK'
  <2>1. override' \in (0..MaxSpeed) \cup {Absent}
    BY <1>1, SignalsAssumption, BodyAssumption DEF SpeedRequest, HandleSetSpeed, AtMost
  <2>2. ticking' = ticking BY <1>1 DEF SpeedRequest, HandleSetSpeed
  <2>3. SpeedTypeOK'
    BY <1>1, <2>1, <2>2 DEF SpeedRequest, HandleSetSpeed, TypeOK, SpeedTypeOK
  <2>4. QED
    BY <1>1, <2>3, FrameTypes
    DEF SpeedRequest, HandleSetSpeed, PartsTypeOK, TypeOK, SignalsTypeOK
<1>2. ASSUME NEW sample \in AdcSamples, SpeedTick(sample) PROVE PartsTypeOK'
  <2>0. 0 \in Speeds BY SignalsAssumption DEF Speeds
  <2>1. ticking' = ticking BY <1>2 DEF SpeedTick, OnTimerTick
  <2>2. SpeedTypeOK' /\ busSpeed' \in Speeds \cup {Absent}
    <3>1. CASE TickOutsideRun
      BY <1>2, <2>0, <2>1, <3>1
      DEF SpeedTick, OnTimerTick, TickOutsideRun, SendIf, TypeOK, SpeedTypeOK, SignalsTypeOK
    <3>2. CASE TickOverride
      <4>1. Quantise(override) \in Speeds
        BY <3>2, QuantiseType DEF TickOverride, TypeOK, SpeedTypeOK
      <4>2. QED
        BY <1>2, <2>1, <3>2, <4>1
        DEF SpeedTick, OnTimerTick, TickOverride, Report, SendIf, TypeOK, SpeedTypeOK
    <3>3. CASE TickAdc(sample)
      BY <1>2, <2>1, <3>3
      DEF SpeedTick, OnTimerTick, TickAdc, Between, Report, SendIf, TypeOK,
          SpeedTypeOK, SignalsTypeOK
    <3>4. QED BY <1>2, <3>1, <3>2, <3>3 DEF SpeedTick, OnTimerTick
  <2>3. QED
    BY <1>2, <2>2, FrameTypes DEF SpeedTick, PartsTypeOK, TypeOK, SignalsTypeOK
<1>3. QED BY <1>1, <1>2

LEMMA RequestType ==
    ASSUME TypeOK,
           \/ \E new \in Modes \cup {"unknown"} : SetModeRequest(new)
           \/ \E id \in 0..kLightCount, level \in {Low, High} : LightRequest(id, level)
           \/ \E position \in {"open", "closed"} : DoorSensor(position)
           \/ GatewayLightRequest \/ ShortSpeedRequest
           \/ \E event \in CanFrames : CanDoorStatus(event)
    PROVE  PartsTypeOK'
<1>1. ASSUME NEW new \in Modes \cup {"unknown"}, SetModeRequest(new)
      PROVE  PartsTypeOK'
  BY <1>1, SetModeType DEF SetModeRequest, PartsTypeOK
<1>2. ASSUME NEW id \in 0..kLightCount, NEW level \in {Low, High}, LightRequest(id, level)
      PROVE  PartsTypeOK'
  <2>1. LightTypeOK' /\ gpio' \in [Pins -> {Low, High}]
    BY <1>2, LightsType DEF LightRequest, HandleSetLightState, TypeOK
  <2>2. QED
    BY <1>2, <2>1, FrameTypes
    DEF LightRequest, HandleSetLightState, PartsTypeOK, TypeOK, SignalsTypeOK
<1>3. ASSUME NEW position \in {"open", "closed"}, DoorSensor(position)
      PROVE  PartsTypeOK'
  BY <1>3, FrameTypes
  DEF DoorSensor, bodyVars, modeVars, doorVars, lightVars, speedVars, PartsTypeOK,
      TypeOK, SignalsTypeOK
<1>4. CASE GatewayLightRequest \/ ShortSpeedRequest
  <2>1. reply' \in {Absent, OK, NOK}
    BY <1>4 DEF GatewayLightRequest, ShortSpeedRequest, HandleShortSetSpeed
  <2>2. QED
    BY <1>4, <2>1, FrameTypes
    DEF GatewayLightRequest, ShortSpeedRequest, HandleShortSetSpeed, bodyVars, modeVars,
        doorVars, lightVars, speedVars, PartsTypeOK, TypeOK, SignalsTypeOK
<1>5. ASSUME NEW event \in CanFrames, CanDoorStatus(event)
      PROVE  PartsTypeOK'
  BY <1>5, FrameTypes, BodyAssumption
  DEF CanDoorStatus, PartsTypeOK, TypeOK, DoorTypeOK
<1>6. QED BY <1>1, <1>2, <1>3, <1>4, <1>5

(* What a step does to the boot counter and to the ignition's two flags. *)
LEMMA FlagSteps ==
    ASSUME [Next]_vars
    PROVE  /\ \/ boot' = boot
              \/ boot \in 0..2 /\ boot' = boot + 1
              \/ boot' = 4
              \/ boot' = 5
              \/ boot' = 6
           /\ \/ UNCHANGED <<cranking, crankTimer>>
              \/ cranking' = TRUE /\ crankTimer' = TRUE
              \/ cranking' = FALSE /\ crankTimer' = FALSE
  BY Zenon
  DEF Next, vars, InitQuietly, IgnitionInit, SpeedSimInit, StartGateway,
      GatewayLightRequest, CanDoorStatus,
      IgnitionButton, StartCrank, CrankWithoutTimer, SwitchOff, CrankTimer,
      SetModeRequest, LockRequest, LightRequest, SpeedRequest, SpeedTick,
      ShortSpeedRequest, DoorButtonPress, CommandSignal, DoorSensor, DoorFault

LEMMA FlagsType ==
    ASSUME TypeOK, [Next]_vars
    PROVE  boot' \in 0..6 /\ cranking' \in BOOLEAN /\ crankTimer' \in BOOLEAN
<1>1. boot \in 0..6 BY DEF TypeOK
<1>2. \/ boot' = boot
      \/ boot \in 0..2 /\ boot' = boot + 1
      \/ boot' = 4
      \/ boot' = 5
      \/ boot' = 6
  BY FlagSteps, Zenon
<1>3. boot' \in 0..6 BY <1>1, <1>2
<1>4. cranking' \in BOOLEAN /\ crankTimer' \in BOOLEAN BY FlagSteps, Zenon DEF TypeOK
<1>5. QED BY <1>3, <1>4

(* Every step of every handler keeps every variable in its type. *)
LEMMA NextTypeOK == TypeOK /\ [Next]_vars => TypeOK'
<1> SUFFICES ASSUME TypeOK, [Next]_vars PROVE TypeOK'
  OBVIOUS
<1>1. CASE UNCHANGED vars
  BY <1>1, BodyFrame DEF vars, TypeOK, PartsTypeOK
<1>2. CASE Next
  <2>1. PartsTypeOK'
    BY <1>2, BootType, IgnitionType, DoorType, SpeedType, RequestType DEF Next
  <2>2. QED BY <2>1, FlagsType DEF TypeOK, PartsTypeOK
<1>3. QED BY <1>1, <1>2

(* Type correctness. *)
THEOREM TypeCorrect == Spec => []TypeOK
  BY InitTypeOK, NextTypeOK, PTL DEF Spec

-----------------------------------------------------------------------------
(* A step leaves the mode alone, or enters a mode with every observer, or is
   the failed crank that ends where it started.                             *)
LEMMA ModeSteps ==
    ASSUME TypeOK, [Next]_vars
    PROVE  \/ UNCHANGED modeVars /\ (UNCHANGED <<spdMode, speed, busSpeed, lastSent, speedEvent>>
                                     \/ \E sample \in AdcSamples : OnTimerTick(sample))
           \/ \E new \in Modes : Enter(new)
           \/ mode = "Accessory" /\ StoreMode("Accessory") /\ SpeedOnMode("Accessory")
                /\ UNCHANGED <<doorVars, lightVars, gpio>>
<1>1. ASSUME NEW new \in Modes \cup {"unknown"}, SetMode(new)
      PROVE  UNCHANGED bodyVars \/ \E m \in Modes : Enter(m)
  BY <1>1 DEF SetMode, IsValidTransition, Modes
<1>2. UNCHANGED bodyVars =>
        UNCHANGED modeVars /\ UNCHANGED <<spdMode, speed, busSpeed, lastSent, speedEvent>>
  BY DEF bodyVars, modeVars
<1>3. CASE \/ UNCHANGED vars \/ InitQuietly \/ StartGateway
           \/ \E p \in {"open", "closed"} : DoorSensor(p)
           \/ GatewayLightRequest
  BY <1>2, <1>3, Zenon DEF vars, InitQuietly, StartGateway, DoorSensor, GatewayLightRequest
<1>4. CASE IgnitionInit
  BY <1>1, <1>2, <1>4 DEF IgnitionInit, Modes
<1>5. CASE CrankTimer \/ \E new \in Modes \cup {"unknown"} : SetModeRequest(new)
  BY <1>1, <1>2, <1>5 DEF CrankTimer, SetModeRequest, Modes
<1>6. CASE IgnitionButton
  BY <1>6 DEF IgnitionButton, StartCrank, SwitchOff, CrankWithoutTimer, Modes
<1>7. CASE \E sample \in AdcSamples : SpeedTick(sample)
  BY <1>7 DEF SpeedTick
<1>8. CASE \/ SpeedSimInit
           \/ \E want \in Targets : LockRequest(want) \/ CommandSignal(want)
           \/ \E id \in 0..kLightCount, level \in {Low, High} : LightRequest(id, level)
           \/ (\E v \in SpeedRequests : SpeedRequest(v)) \/ ShortSpeedRequest
           \/ DoorButtonPress
           \/ DoorFault
           \/ \E event \in CanFrames : CanDoorStatus(event)
  BY <1>8
  DEF SpeedSimInit, CanDoorStatus, LockRequest, CommandSignal, LightRequest, SpeedRequest,
      HandleSetSpeed, ShortSpeedRequest, HandleShortSetSpeed, DoorButtonPress, DoorFault,
      modeVars, speedVars
<1>9. QED BY <1>3, <1>4, <1>5, <1>6, <1>7, <1>8 DEF Next

(* The inductive invariant about the speed. *)
SpeedInv == MotionOnlyInRun /\ SentIsCurrent

LEMMA SpeedInvStep == TypeOK /\ SpeedInv /\ [Next]_vars => SpeedInv'
<1> SUFFICES ASSUME TypeOK, SpeedInv, [Next]_vars PROVE SpeedInv'
  OBVIOUS
<1>. USE DEF SpeedInv, MotionOnlyInRun, SentIsCurrent
<1>0. speed \in Int /\ busSpeed \in Int /\ 0 \in Int
  BY SignalsAssumption DEF TypeOK, SpeedTypeOK, SignalsTypeOK, Speeds, Absent
<1>1. ASSUME NEW new \in Modes, mode' = new, SpeedOnMode(new) PROVE SpeedInv'
  BY <1>0, <1>1 DEF SpeedOnMode, Report, SendIf, Absent
<1>2. ASSUME UNCHANGED modeVars, NEW sample \in AdcSamples, OnTimerTick(sample)
      PROVE  SpeedInv'
  <2>1. UNCHANGED <<mode, spdMode>> BY <1>2 DEF OnTimerTick, modeVars
  <2>2. CASE TickOutsideRun BY <1>0, <2>1, <2>2 DEF TickOutsideRun, SendIf, Absent
  <2>3. CASE TickOverride
    <3>1. Quantise(override) \in Speeds
      BY <2>3, QuantiseType DEF TickOverride, TypeOK, SpeedTypeOK
    <3>2. QED BY <2>1, <2>3, <3>1, SignalsAssumption
              DEF TickOverride, Report, SendIf, Absent, Speeds
  <2>4. CASE TickAdc(sample)
    BY <2>1, <2>4, SignalsAssumption DEF TickAdc, Report, SendIf, Absent, Between, Speeds
  <2>5. QED BY <1>2, <2>2, <2>3, <2>4 DEF OnTimerTick
<1>3. CASE UNCHANGED modeVars /\ UNCHANGED <<spdMode, speed, busSpeed, lastSent, speedEvent>>
  BY <1>3 DEF modeVars
<1>4. QED BY <1>1, <1>2, <1>3, ModeSteps DEF Enter, StoreMode, Modes

(* The vehicle moves only in Run, and the simulator, its events and the bus
   agree on the speed.                                                      *)
THEOREM MotionOnlyInRunAlways == Spec => []MotionOnlyInRun
<1>1. Init => SpeedInv
  BY DEF Init, SpeedInit, ModeInit, SignalsInit, SpeedInv, MotionOnlyInRun, SentIsCurrent, Absent
<1>2. QED
  BY <1>1, SpeedInvStep, TypeCorrect, PTL DEF Spec, SpeedInv

-----------------------------------------------------------------------------
(* Who moves what: a step moves the bolt as lock() and unlock() do, reports a
   fault of the lock, sets one light or clears them all, or touches neither
   controller.  An event of the lock that is not its own comes from the gateway. *)
LEMMA ControllerSteps ==
    ASSUME [Next]_vars
    PROVE  \/ (\E want \in Targets : MoveLock(want)) /\ UNCHANGED lightVars
           \/ SetError /\ UNCHANGED <<gpio, lightVars>>
           \/ /\ UNCHANGED <<lockState, busIsLocked>>
              /\ UNCHANGED doorEvent \/ GatewayUp
              /\ \/ UNCHANGED <<gpio, lightVars>>
                 \/ AllLightsOff
                 \/ \E id \in 0..kLightCount, level \in {Low, High} : SetLightState(id, level)
<1>. DEFINE Move  == (\E want \in Targets : MoveLock(want)) /\ UNCHANGED lightVars
            Quiet == UNCHANGED <<lockState, busIsLocked, doorEvent, gpio, lightVars>>
            Off   == UNCHANGED <<lockState, busIsLocked, doorEvent>> /\ AllLightsOff
<1>1. ASSUME NEW new, Enter(new) PROVE Move \/ Quiet \/ Off
  BY <1>1 DEF Enter, AutoLock, doorVars, Targets
<1>2. ASSUME NEW new, SetMode(new) PROVE Move \/ Quiet \/ Off
  BY <1>1, <1>2 DEF SetMode, bodyVars, lightVars
<1>3. ASSUME NEW event, CanDoorStatus(event)
      PROVE  GatewayUp /\ UNCHANGED <<lockState, busIsLocked, gpio, lightVars>>
  BY <1>3 DEF CanDoorStatus
<1>4. CASE \/ UNCHANGED vars
           \/ InitQuietly \/ StartGateway
           \/ \E p \in {"open", "closed"} : DoorSensor(p)
           \/ GatewayLightRequest
  BY <1>4, Zenon
  DEF vars, InitQuietly, StartGateway, DoorSensor, GatewayLightRequest, bodyVars, lightVars
<1>5. CASE \/ IgnitionInit \/ CrankTimer
           \/ \E new \in Modes \cup {"unknown"} : SetModeRequest(new)
  BY <1>2, <1>5 DEF IgnitionInit, CrankTimer, SetModeRequest, bodyVars, lightVars
<1>6. CASE IgnitionButton
  BY <1>1, <1>6
  DEF IgnitionButton, StartCrank, SwitchOff, CrankWithoutTimer, doorVars
<1>7. CASE \/ \E sample \in AdcSamples : SpeedTick(sample)
           \/ SpeedSimInit
           \/ (\E v \in SpeedRequests : SpeedRequest(v)) \/ ShortSpeedRequest
  BY <1>7 DEF SpeedTick, SpeedSimInit, SpeedRequest, ShortSpeedRequest, doorVars, lightVars
<1>8. CASE \/ \E want \in Targets : LockRequest(want) \/ CommandSignal(want)
           \/ DoorButtonPress
  BY <1>8
  DEF LockRequest, HandleLock, CommandSignal, OnCommandSignal, DoorButtonPress,
      DoorButton, Targets
<1>9. CASE DoorFault BY <1>9 DEF DoorFault, SetError
<1>10. CASE \E id \in 0..kLightCount, level \in {Low, High} : LightRequest(id, level)
  BY <1>10 DEF LightRequest, HandleSetLightState, doorVars
<1>11. QED
  BY <1>3, <1>4, <1>5, <1>6, <1>7, <1>8, <1>9, <1>10 DEF Next

(* The lock's pin follows the lock, on any pin: where the pin is a lamp's too,
   it shows the lock or that light.  The bus says "locked" exactly in Locked.  *)
THEOREM ActuatorFollowsLockAlways == Spec => []ActuatorFollowsLock
<1>1. Init => ActuatorFollowsLock
  BY DEF Init, DoorInit, SignalsInit, ActuatorFollowsLock, Pins, Level, Low, High
<1>2. TypeOK /\ ActuatorFollowsLock /\ [Next]_vars => ActuatorFollowsLock'
  <2> SUFFICES ASSUME TypeOK, ActuatorFollowsLock, [Next]_vars
               PROVE  ActuatorFollowsLock'
    OBVIOUS
  <2>. USE DEF ActuatorFollowsLock
  <2>1. /\ LockPin \in Pins /\ Lights \subseteq Pins
        /\ gpio \in [Pins -> {Low, High}] /\ lights \in [Lights -> {Low, High}]
    BY DEF Pins, TypeOK, SignalsTypeOK, LightTypeOK
  <2>2. CASE (\E want \in Targets : MoveLock(want)) /\ UNCHANGED lightVars
    BY <2>1, <2>2 DEF MoveLock, PublishStateChanged, Targets, lightVars
  <2>3. CASE SetError /\ UNCHANGED <<gpio, lightVars>>
    BY <2>3 DEF SetError, PublishStateChanged
  <2>4. CASE UNCHANGED <<lockState, busIsLocked>> /\ UNCHANGED <<gpio, lightVars>>
    BY <2>4 DEF lightVars
  <2>5. CASE UNCHANGED <<lockState, busIsLocked>> /\ AllLightsOff
    BY <2>1, <2>5 DEF AllLightsOff, Dark
  <2>6. CASE /\ UNCHANGED <<lockState, busIsLocked>>
             /\ \E id \in 0..kLightCount, level \in {Low, High} : SetLightState(id, level)
    BY <2>1, <2>6 DEF SetLightState
  <2>7. QED BY <2>2, <2>3, <2>4, <2>5, <2>6, ControllerSteps
<1>3. QED BY <1>1, <1>2, TypeCorrect, PTL DEF Spec

(* Every lamp but the one whose pin the lock may have shows the light the
   service reports.                                                           *)
THEOREM LampsShowLightsAlways == Spec => []LampsShowLights
<1>1. Init => LampsShowLights
  BY DEF Init, LightInit, SignalsInit, LampsShowLights, Dark, Pins
<1>2. TypeOK /\ LampsShowLights /\ [Next]_vars => LampsShowLights'
  <2> SUFFICES ASSUME TypeOK, LampsShowLights, [Next]_vars, NEW l \in Lights \ {LockPin}
               PROVE  gpio'[l] = lights'[l]
    BY DEF LampsShowLights
  <2>1. l \in Pins /\ l # LockPin /\ gpio[l] = lights[l]
        /\ gpio \in [Pins -> {Low, High}] /\ lights \in [Lights -> {Low, High}]
    BY DEF Pins, LampsShowLights, TypeOK, SignalsTypeOK, LightTypeOK
  <2>2. CASE (\E want \in Targets : MoveLock(want)) /\ UNCHANGED lightVars
    BY <2>1, <2>2 DEF MoveLock, lightVars
  <2>3. CASE SetError /\ UNCHANGED <<gpio, lightVars>>
    BY <2>1, <2>3 DEF lightVars
  <2>4. CASE UNCHANGED <<gpio, lightVars>>
    BY <2>1, <2>4 DEF lightVars
  <2>5. CASE AllLightsOff
    BY <2>1, <2>5 DEF AllLightsOff, Dark
  <2>6. CASE \E id \in 0..kLightCount, level \in {Low, High} : SetLightState(id, level)
    BY <2>1, <2>6 DEF SetLightState
  <2>7. QED BY <2>2, <2>3, <2>4, <2>5, <2>6, ControllerSteps
<1>3. QED BY <1>1, <1>2, TypeCorrect, PTL DEF Spec

(* The bolt moves only at 5 km/h or less, by the simulator's own speed, and
   with the door not open.                                                  *)
THEOREM InterlockHoldsAlways == Spec => InterlockHolds
<1>1. ASSUME TypeOK, MotionOnlyInRun, [Next]_vars
      PROVE  [lockState' # lockState /\ lockState' # "Error"
                => speed <= 5 /\ busIsOpen # "open"]_vars
  <2>1. SUFFICES ASSUME lockState' # lockState, lockState' # "Error"
                 PROVE  speed <= 5 /\ busIsOpen # "open"
    OBVIOUS
  <2>2. PICK want \in Targets : MoveLock(want)
    BY <1>1, <2>1, ControllerSteps DEF SetError
  <2>3. SafetyConstraints BY <2>1, <2>2 DEF MoveLock, Accepts
  <2>4. QED BY <1>1, <2>3 DEF SafetyConstraints, MotionOnlyInRun
<1>2. QED
  BY <1>1, TypeCorrect, MotionOnlyInRunAlways, PTL DEF Spec, InterlockHolds

(* Every way into Run leaves the door locked, unless the lock has failed or
   the door is open.                                                        *)
THEOREM RunEntersLockedAlways == Spec => RunEntersLocked
<1>1. ASSUME TypeOK, MotionOnlyInRun, [Next]_vars
      PROVE  [mode # "Run" /\ mode' = "Run"
                => \/ lockState' = "Locked"
                   \/ lockState = "Error"
                   \/ busIsOpen = "open"]_vars
  <2>1. SUFFICES ASSUME mode # "Run", mode' = "Run",
                        lockState # "Error", busIsOpen # "open"
                 PROVE  lockState' = "Locked"
    OBVIOUS
  <2>2. Enter("Run") BY <1>1, <2>1, ModeSteps DEF Enter, StoreMode, modeVars
  <2>3. MoveLock("Locked") BY <2>2 DEF Enter, AutoLock
  <2>4. busSpeed \in Int /\ busSpeed <= 0
    BY <1>1, <2>1, SignalsAssumption
    DEF MotionOnlyInRun, TypeOK, SignalsTypeOK, Speeds, Absent
  <2>5. QED BY <2>1, <2>3, <2>4 DEF MoveLock, Accepts, SafetyConstraints
<1>2. QED
  BY <1>1, TypeCorrect, MotionOnlyInRunAlways, PTL DEF Spec, RunEntersLocked

(* While cranking_ makes the button ignored, the timer that ends it is
   pending.                                                                 *)
THEOREM CrankingHasTimerAlways == Spec => []CrankingHasTimer
<1>1. Init => CrankingHasTimer BY Zenon DEF Init, CrankingHasTimer
<1>2. CrankingHasTimer /\ [Next]_vars => CrankingHasTimer'
  BY FlagSteps, Zenon DEF CrankingHasTimer
<1>3. QED BY <1>1, <1>2, PTL DEF Spec

-----------------------------------------------------------------------------
(* BodyEcu implements BodyService. *)

(* The speed the interlock reads is the vehicle's. *)
LEMMA BusSpeedIsSpeed ==
    ASSUME TypeOK, MotionOnlyInRun
    PROVE  SafetyConstraints <=> speed <= 5 /\ busIsOpen # "open"
<1>1. speed \in Int /\ (busSpeed = speed \/ (busSpeed = Absent /\ speed = 0))
  BY DEF TypeOK, SpeedTypeOK, Speeds, MotionOnlyInRun
<1>2. QED BY <1>1 DEF SafetyConstraints, Absent

-----------------------------------------------------------------------------
(* The refinement, one lemma per kind of step. *)

ServiceInv == TypeOK /\ TypeOK' /\ MotionOnlyInRun /\ MotionOnlyInRun'

Others == <<mode, speed, busIsOpen, lights>>

LEMMA MoveLockRefines ==
    ASSUME ServiceInv, NEW want \in Targets, MoveLock(want), UNCHANGED Others
    PROVE  [Service!Next]_Service!serviceVars
<1>1. CASE lockState # want /\ Accepts(want)
  <2>1. Service!MayMove
    BY <1>1, BusSpeedIsSpeed DEF ServiceInv, Accepts, Service!MayMove, Service!WalkingSpeed
  <2>2. Service!Move(want)
    BY <1>1, <2>1 DEF MoveLock, PublishStateChanged, Service!Move, Service!Tell
  <2>3. Service!Bolt
    BY <2>2 DEF Service!Bolt, Targets, Others
  <2>4. QED BY <2>3 DEF Service!Next
<1>2. CASE ~(lockState # want /\ Accepts(want))
  BY <1>2 DEF MoveLock, Service!serviceVars, Others
<1>3. QED BY <1>1, <1>2

LEMMA EnterRefines ==
    ASSUME ServiceInv, NEW new \in Modes, Enter(new), UNCHANGED busIsOpen,
           new # mode, IsValidTransition(mode, new)
    PROVE  [Service!Next]_Service!serviceVars
<1>0. mode' = new /\ SpeedOnMode(new) BY DEF Enter, StoreMode
<1>1. CASE new = "Run"
  <2>1. MoveLock("Locked") /\ UNCHANGED lightVars BY <1>1 DEF Enter, AutoLock
  <2>2. UNCHANGED speed BY <1>0, <1>1 DEF SpeedOnMode
  <2>3. mode \in {"Accessory", "Crank"} BY <1>1 DEF IsValidTransition
  <2>4. CASE lockState # "Locked" /\ Accepts("Locked")
    <3>1. Service!MayMove
      BY <2>4, BusSpeedIsSpeed DEF ServiceInv, Accepts, Service!MayMove, Service!WalkingSpeed
    <3>2. Service!Move("Locked")
      BY <2>1, <2>4, <3>1 DEF MoveLock, PublishStateChanged, Service!Move, Service!Tell
    <3>3. Service!StartDriving
      BY <1>0, <1>1, <2>1, <2>2, <2>3, <2>4, <3>1, <3>2 DEF Service!StartDriving, lightVars
    <3>4. QED BY <3>3 DEF Service!Next
  <2>5. CASE ~(lockState # "Locked" /\ Accepts("Locked"))
    <3>1. ~(lockState # "Locked" /\ Service!MayMove)
      BY <2>5, BusSpeedIsSpeed DEF ServiceInv, Accepts, Service!MayMove, Service!WalkingSpeed
    <3>2. UNCHANGED <<lockState, doorEvent>> BY <2>1, <2>5 DEF MoveLock
    <3>3. Service!StartDriving
      BY <1>0, <1>1, <2>1, <2>2, <2>3, <3>1, <3>2 DEF Service!StartDriving, lightVars
    <3>4. QED BY <3>3 DEF Service!Next
  <2>6. QED BY <2>4, <2>5
<1>2. CASE new # "Run"
  <2>1. speed' = 0 BY <1>0, <1>2 DEF SpeedOnMode, Report
  <2>2. UNCHANGED <<lockState, doorEvent>> BY <1>2 DEF Enter, doorVars
  <2>3. IF mode' = "Off" THEN {l \in Lights : lights'[l] = High} = {} ELSE UNCHANGED lights
    BY <1>0, <1>2 DEF Enter, AllLightsOff, Dark, Low, High, lightVars
  <2>4. Service!StopDriving
    BY <1>0, <1>2, <2>1, <2>2, <2>3 DEF Service!StopDriving, IsValidTransition
  <2>5. QED BY <2>4 DEF Service!Next
<1>3. QED BY <1>1, <1>2

LEMMA SetModeRefines ==
    ASSUME ServiceInv, NEW new \in Modes \cup {"unknown"}, SetMode(new), UNCHANGED busIsOpen
    PROVE  [Service!Next]_Service!serviceVars
<1>1. CASE new # mode /\ IsValidTransition(mode, new)
  <2>1. new \in Modes BY <1>1 DEF IsValidTransition, Modes
  <2>2. QED BY <1>1, <2>1, EnterRefines DEF SetMode
<1>2. CASE ~(new # mode /\ IsValidTransition(mode, new))
  BY <1>2 DEF SetMode, bodyVars, Service!serviceVars
<1>3. QED BY <1>1, <1>2

LEMMA IgnitionRefines ==
    ASSUME ServiceInv, IgnitionInit \/ IgnitionButton \/ CrankTimer
    PROVE  [Service!Next]_Service!serviceVars
<1>1. CASE IgnitionInit
  <2>1. CASE mode = "Off" BY <1>1, <2>1, SetModeRefines DEF IgnitionInit, Modes
  <2>2. CASE mode # "Off" BY <1>1, <2>2 DEF IgnitionInit, bodyVars, Service!serviceVars
  <2>3. QED BY <2>1, <2>2
<1>2. CASE CrankTimer BY <1>2, SetModeRefines DEF CrankTimer, Modes
<1>3. CASE StartCrank
  BY <1>3, EnterRefines DEF StartCrank, Modes, IsValidTransition
<1>4. CASE SwitchOff
  BY <1>4, EnterRefines DEF SwitchOff, Modes, IsValidTransition
<1>5. CASE CrankWithoutTimer
  <2>1. UNCHANGED <<mode, lockState, doorEvent, busIsOpen, lights>>
    BY <1>5 DEF CrankWithoutTimer, StoreMode, doorVars, lightVars
  <2>2. speed = 0 /\ speed' = 0
    BY <1>5, <2>1 DEF CrankWithoutTimer, ServiceInv, MotionOnlyInRun
  <2>3. QED BY <2>1, <2>2 DEF Service!serviceVars
<1>6. QED BY <1>1, <1>2, <1>3, <1>4, <1>5 DEF IgnitionButton

LEMMA TickRefines ==
    ASSUME ServiceInv, NEW sample \in AdcSamples, SpeedTick(sample)
    PROVE  [Service!Next]_Service!serviceVars
<1>1. UNCHANGED <<mode, lockState, doorEvent, busIsOpen, lights>>
  BY DEF SpeedTick, modeVars, doorVars, lightVars
<1>2. CASE mode = "Run"
  <2>1. speed' \in 0..MaxSpeed
    BY DEF ServiceInv, TypeOK, SpeedTypeOK, Speeds
  <2>2. Service!Drive BY <1>1, <1>2, <2>1 DEF Service!Drive
  <2>3. QED BY <2>2 DEF Service!Next
<1>3. CASE mode # "Run"
  <2>1. speed = 0 /\ speed' = 0 BY <1>1, <1>3 DEF ServiceInv, MotionOnlyInRun
  <2>2. QED BY <1>1, <2>1 DEF Service!serviceVars
<1>4. QED BY <1>2, <1>3

LEMMA DoorRefines ==
    ASSUME ServiceInv,
           \/ \E want \in Targets : LockRequest(want) \/ CommandSignal(want)
           \/ DoorButtonPress
           \/ DoorFault
           \/ \E position \in {"open", "closed"} : DoorSensor(position)
    PROVE  [Service!Next]_Service!serviceVars
<1>1. ASSUME NEW want \in Targets, LockRequest(want) \/ CommandSignal(want)
      PROVE  [Service!Next]_Service!serviceVars
  <2>1. MoveLock(want) /\ UNCHANGED Others
    BY <1>1 DEF LockRequest, HandleLock, CommandSignal, OnCommandSignal,
                modeVars, lightVars, speedVars, Others
  <2>2. QED BY <2>1, MoveLockRefines
<1>2. CASE DoorButtonPress
  <2>1. UNCHANGED Others
    BY <1>2 DEF DoorButtonPress, modeVars, lightVars, speedVars, Others
  <2>2. PICK want \in Targets : MoveLock(want)
    BY <1>2 DEF DoorButtonPress, DoorButton, Targets
  <2>3. QED BY <2>1, <2>2, MoveLockRefines
<1>3. CASE DoorFault
  <2>1. Service!Fail
    BY <1>3 DEF DoorFault, SetError, PublishStateChanged, Service!Fail, Service!Tell,
                modeVars, lightVars, speedVars
  <2>2. QED BY <2>1 DEF Service!Next
<1>4. ASSUME NEW position \in {"open", "closed"}, DoorSensor(position)
      PROVE  [Service!Next]_Service!serviceVars
  <2>1. Service!OpenOrClose
    BY <1>4 DEF DoorSensor, bodyVars, Service!OpenOrClose
  <2>2. QED BY <2>1 DEF Service!Next
<1>5. QED BY <1>1, <1>2, <1>3, <1>4

LEMMA QuietRefines ==
    ASSUME \/ InitQuietly \/ SpeedSimInit \/ StartGateway \/ UNCHANGED vars
           \/ GatewayLightRequest \/ ShortSpeedRequest
           \/ \E v \in SpeedRequests : SpeedRequest(v)
    PROVE  [Service!Next]_Service!serviceVars
<1>1. UNCHANGED <<mode, speed, lockState, doorEvent, busIsOpen, lights>>
  BY DEF InitQuietly, SpeedSimInit, StartGateway, vars, GatewayLightRequest, SpeedRequest,
         HandleSetSpeed, ShortSpeedRequest, HandleShortSetSpeed, bodyVars, modeVars,
         doorVars, lightVars, speedVars
<1>2. QED BY <1>1 DEF Service!serviceVars

LEMMA LightRefines ==
    ASSUME NEW id \in 0..kLightCount, NEW level \in {Low, High}, LightRequest(id, level)
    PROVE  [Service!Next]_Service!serviceVars
<1>1. UNCHANGED <<mode, speed, lockState, doorEvent, busIsOpen>>
  BY DEF LightRequest, modeVars, doorVars, speedVars
<1>2. Service!Light BY <1>1 DEF Service!Light
<1>3. QED BY <1>2 DEF Service!Next

LEMMA StepRefines ==
    ASSUME ServiceInv, [Next]_vars
    PROVE  [Service!Next]_Service!serviceVars
<1>1. ASSUME NEW event \in CanFrames, CanDoorStatus(event)
      PROVE  [Service!Next]_Service!serviceVars
  <2>1. Service!Relay
    BY <1>1 DEF CanDoorStatus, Service!Relay, modeVars, lightVars, speedVars
  <2>2. QED BY <2>1 DEF Service!Next
<1>2. ASSUME NEW new \in Modes \cup {"unknown"}, SetModeRequest(new)
      PROVE  [Service!Next]_Service!serviceVars
  BY <1>2, SetModeRefines DEF SetModeRequest
<1>3. QED
  BY <1>1, <1>2, IgnitionRefines, TickRefines, DoorRefines, QuietRefines, LightRefines
  DEF Next

(* The controllers implement BodyService: they start as it starts, and every
   step of theirs is a step of it or none.                                    *)
THEOREM BodyKeepsPromise == Spec => KeepsPromise
<1>1. Init => Service!Init
  BY DEF Init, ModeInit, DoorInit, LightInit, SpeedInit, SignalsInit, Service!Init,
         NoEvent, Dark, Low, High
<1>2. TypeOK /\ TypeOK' /\ MotionOnlyInRun /\ MotionOnlyInRun' /\ [Next]_vars
        => [Service!Next]_Service!serviceVars
  BY StepRefines DEF ServiceInv
<1>3. QED
  BY <1>1, <1>2, TypeCorrect, MotionOnlyInRunAlways, PTL
  DEF Spec, KeepsPromise, Service!Spec


-----------------------------------------------------------------------------
-----------------------------------------------------------------------------
(* The inductive invariant about the events needs that of the speed: what was
   last sent is compared with lastSent, not with the speed.                   *)
EventInv == SubscribersCurrent /\ SpeedInv

LEMMA SpeedEventStep ==
    ASSUME TypeOK, EventInv, [Next]_vars
    PROVE  speedEvent' = speed' \/ (speedEvent' = Absent /\ speed' = 0)
<1>. DEFINE Told == speedEvent' = speed' \/ (speedEvent' = Absent /\ speed' = 0)
<1>0. /\ speedEvent = speed \/ (speedEvent = Absent /\ speed = 0)
      /\ lastSent = speed
  BY DEF EventInv, SubscribersCurrent, SpeedInv, SentIsCurrent
<1>1. ASSUME NEW v, Report(v) PROVE Told
  BY <1>0, <1>1 DEF Report, SendIf
<1>2. ASSUME NEW new, SpeedOnMode(new) PROVE Told
  BY <1>0, <1>1, <1>2 DEF SpeedOnMode
<1>3. ASSUME NEW sample \in AdcSamples, OnTimerTick(sample) PROVE Told
  BY <1>0, <1>1, <1>3 DEF OnTimerTick, TickOutsideRun, TickOverride, TickAdc, SendIf
<1>4. QED BY <1>0, <1>2, <1>3, ModeSteps DEF Enter

(* A started gateway stays. *)
LEMMA GatewayStays == [Next]_vars /\ GatewayUp => GatewayUp'
<1> SUFFICES ASSUME [Next]_vars, GatewayUp PROVE GatewayUp'
  OBVIOUS
<1>1. boot' = boot \/ boot \in 0..2 \/ boot = 3 \/ boot = 4 \/ boot = 5
  BY Zenon
  DEF Next, vars, InitQuietly, IgnitionInit, SpeedSimInit, StartGateway,
      GatewayLightRequest, CanDoorStatus,
      IgnitionButton, StartCrank, CrankWithoutTimer, SwitchOff, CrankTimer,
      SetModeRequest, LockRequest, LightRequest, SpeedRequest, SpeedTick,
      ShortSpeedRequest, DoorButtonPress, CommandSignal, DoorSensor, DoorFault
<1>2. QED BY <1>1 DEF GatewayUp

(* A subscriber that missed nothing knows what every controller holds, but for
   the lock once somebody else sends its event too.                           *)
THEOREM SubscribersCurrentAlways == Spec => []SubscribersCurrent
<1>1. Init => EventInv
  BY DEF Init, SpeedInit, ModeInit, SignalsInit, DoorInit, LightInit, EventInv, SpeedInv,
         SubscribersCurrent, MotionOnlyInRun, SentIsCurrent, Absent
<1>2. ASSUME TypeOK, EventInv, [Next]_vars PROVE EventInv'
  <2>1. SpeedInv' BY <1>2, SpeedInvStep DEF EventInv
  <2>2. modeEvent' = mode' \/ (modeEvent' = "none" /\ mode' = "Off")
    BY <1>2, ModeSteps DEF EventInv, SubscribersCurrent, Enter, StoreMode, modeVars
  <2>3. \/ doorEvent'.new = lockState'
        \/ doorEvent' = NoEvent /\ lockState' = "Unlocked"
        \/ GatewayUp'
    BY <1>2, ControllerSteps, GatewayStays
    DEF EventInv, SubscribersCurrent, MoveLock, SetError, PublishStateChanged
  <2>4. lightEvent' = lights' \/ (lightEvent' = <<>> /\ lights' = Dark)
    BY <1>2, ControllerSteps
    DEF EventInv, SubscribersCurrent, SetLightState, AllLightsOff, PublishIfChanged, lightVars
  <2>5. QED BY <1>2, <2>1, <2>2, <2>3, <2>4, SpeedEventStep DEF EventInv, SubscribersCurrent
<1>3. QED BY <1>1, <1>2, TypeCorrect, PTL DEF Spec, EventInv


-----------------------------------------------------------------------------
(* What single requests may do. *)

(* The ignition button never takes a moving vehicle out of Run: what it reads
   on the bus is the simulator's speed.                                       *)
THEOREM ButtonKeepsMovingInRunAlways == Spec => ButtonKeepsMovingInRun
<1>1. ASSUME TypeOK, MotionOnlyInRun, IgnitionButton, mode = "Run" PROVE speed = 0
  <2>1. busSpeed <= 0
    BY <1>1 DEF IgnitionButton, StartCrank, CrankWithoutTimer, SwitchOff
  <2>2. speed \in Int /\ speed >= 0 /\ (busSpeed = speed \/ speed = 0)
    BY <1>1, SignalsAssumption DEF TypeOK, SpeedTypeOK, Speeds, MotionOnlyInRun
  <2>3. QED BY <2>1, <2>2
<1>2. QED
  BY <1>1, TypeCorrect, MotionOnlyInRunAlways, PTL DEF Spec, ButtonKeepsMovingInRun

(* A requester that gets code 0 got what it asked for, and any other code leaves
   what it asked about as it was.                                             *)
THEOREM AnswersTruthfulAlways == Spec => AnswersTruthful
<1>1. ASSUME NEW want \in Targets, MoveLock(want)
      PROVE  /\ Accepts(want) <=> lockState' = want
             /\ ~Accepts(want) => lockState' = lockState
  BY <1>1 DEF MoveLock, Accepts
<1>2. ASSUME NEW want \in Targets
      PROVE  /\ LockRequest(want) => (reply' = OK <=> lockState' = want)
             /\ LockRequest(want) => (reply' = NOK => lockState' = lockState)
             /\ CommandSignal(want) => (busResponse' = OK <=> lockState' = want)
  BY <1>1 DEF LockRequest, HandleLock, CommandSignal, OnCommandSignal, Code, OK, NOK
<1>3. ASSUME NEW new \in Modes, SetModeRequest(new)
      PROVE  reply' = OK <=> mode' = new
  <2>1. CASE IsValidTransition(mode, new)
    BY <1>3, <2>1 DEF SetModeRequest, SetMode, Enter, StoreMode, bodyVars, modeVars
  <2>2. CASE ~IsValidTransition(mode, new)
    <3>1. new # mode BY <2>2 DEF IsValidTransition
    <3>2. mode' = mode /\ reply' = NOK BY <1>3, <2>2 DEF SetModeRequest, SetMode, bodyVars
    <3>3. QED BY <3>1, <3>2 DEF OK, NOK
  <2>3. QED BY <2>1, <2>2
<1>4. ASSUME TypeOK, NEW id \in 0..kLightCount, NEW level \in {Low, High},
             LightRequest(id, level)
      PROVE  IF reply' = OK THEN lights' = [lights EXCEPT ![id] = level] /\ id \in Lights
                            ELSE UNCHANGED <<lights, gpio>>
  BY <1>4 DEF LightRequest, HandleSetLightState, SetLightState, OK, NOK
<1>5. TypeOK =>
      [/\ \A want \in Targets :
            /\ LockRequest(want) => (reply' = OK <=> lockState' = want)
            /\ LockRequest(want) => (reply' = NOK => lockState' = lockState)
            /\ CommandSignal(want) => (busResponse' = OK <=> lockState' = want)
       /\ \A new \in Modes : SetModeRequest(new) => (reply' = OK <=> mode' = new)
       /\ \A id \in 0..kLightCount, level \in {Low, High} : LightRequest(id, level) =>
            IF reply' = OK THEN lights' = [lights EXCEPT ![id] = level] /\ id \in Lights
                           ELSE UNCHANGED <<lights, gpio>>]_vars
  BY <1>2, <1>3, <1>4
<1>6. QED BY <1>5, TypeCorrect, PTL DEF Spec, AnswersTruthful

=============================================================================
