---------------------------- MODULE McuBootProofs ----------------------------
(* Theorems about the start of the body ECU, on either platform and with any
   hardware.                                                                  *)
EXTENDS McuBoot, TLAPS

Begun == main \notin {"stubs", "transition"}
All == Startup(Components, 3)

(* A call of that name is not, or not any more, to be made. *)
Done(name, op) ==
    Begun /\ \A call \in todo : ~(call.component.name = name /\ call.op = op)

(* The calls that have been made are the first ones in the order. *)
OrderInv ==
    /\ ~Begun => todo = {}
    /\ Begun => \A c, d \in All : c \notin todo /\ Precedes(d, c) => d \notin todo

(* What the search for the hardware can have found. *)
HardwareInv == IF Zephyr THEN hw.can ELSE hw.real /\ hw.gpio /\ hw.adc

(* Who answers, from what has been called. *)
Answers(m, there, name, standIn) ==
    methods[m] = IF there THEN IF Done(name, "init") THEN name ELSE None
                 ELSE IF main = "stubs" THEN None ELSE standIn

MethodsInv ==
    /\ Answers("lock", HasDoor, "door_lock", "software")
    /\ Answers("speed", HasSpeed, "speed_sim", "software")
    /\ Answers("mode", TRUE, "vehicle_mode", None)
    /\ ~HasLights => methods["lights"] = None
    /\ HasLights /\ Done("lighting", "init") => methods["lights"] # None
    /\ methods["vin"] = IF Zephyr THEN "main" ELSE None

(* The transition is over when Zephyr starts to receive; until then, on either
   platform, the callbacks are those of the components called.  Where it is not
   over by then, DoCAN's callback is missing only if the filter came before its
   call, and the gateway's is not there without it.                           *)
CanInv ==
    /\ Zephyr /\ ~async =>
          /\ main \in {"stubs", "transition", "receive"} => receiving = "no"
          /\ main \in {"vin", "running"} => todo = {}
    /\ ~(Zephyr /\ async) =>
          /\ "docan" \in rxCallbacks <=> hw.can /\ Done("docan", "init")
          /\ "gateway" \in rxCallbacks <=> hw.can /\ Done("can_gateway", "run")
    /\ Zephyr /\ receiving # "yes" /\ Done("docan", "init") => "docan" \in rxCallbacks
    /\ "gateway" \in rxCallbacks =>
          hw.can /\ Done("can_gateway", "run") /\ "docan" \in rxCallbacks
    /\ diagnosed <=> Done("diagnostics", "init")

BootInv == TypeOK /\ OrderInv /\ HardwareInv /\ MethodsInv /\ CanInv

-----------------------------------------------------------------------------
(* The components and their calls. *)

LEMMA ComponentFacts ==
    /\ \A c \in Components : c.place \in 1..10 /\ c.level \in 1..3
    /\ \A a, b \in Components : a.name = b.name => a = b
    /\ \A c \in Components :
          /\ c.name = "lighting" => HasLights
          /\ c.name = "door_lock" => HasDoor
          /\ c.name = "speed_sim" => HasSpeed
          /\ c.name \in {"docan", "can_gateway"} => Zephyr \/ hw.can
<1> DEFINE IsOne(c) ==
        \/ c = Added("someip", 1, 1)
        \/ c = Added("lighting", 2, 2) /\ HasLights
        \/ c = Added("door_lock", 3, 2) /\ HasDoor
        \/ c = Added("vehicle_mode", 4, 2)
        \/ c = Added("ignition", 5, 2)
        \/ c = Added("speed_sim", 6, 2) /\ HasSpeed
        \/ c = Added("can_gateway", 7, 3) /\ (Zephyr \/ hw.can)
        \/ Zephyr /\ c \in {Added("docan", 8, 3), Added("diagnostics", 9, 3),
                            Added("doip", 10, 3)}
        \/ ~Zephyr /\ c \in {Added("diagnostics", 8, 3), Added("doip", 9, 3)}
        \/ ~Zephyr /\ hw.can /\ c = Added("docan", 10, 3)
<1>1. \A c \in Components : IsOne(c)
  <2>1. \A c : c \in Level2 => IsOne(c) BY DEF Level2, If
  <2>2. \A c : c \in If(TRUE, "someip", 1, 1) => IsOne(c) BY DEF If
  <2>3. CASE Zephyr BY <2>1, <2>2, <2>3 DEF Components
  <2>4. CASE ~Zephyr BY <2>1, <2>2, <2>4 DEF Components, If
  <2>5. QED BY <2>3, <2>4
<1>2. \A c \in Components : c.place \in 1..10 /\ c.level \in 1..3
  BY <1>1 DEF Added
<1>3. \A a, b \in Components : a.name = b.name => a = b
  BY <1>1 DEF Added
<1>4. \A c \in Components :
          /\ c.name = "lighting" => HasLights
          /\ c.name = "door_lock" => HasDoor
          /\ c.name = "speed_sim" => HasSpeed
          /\ c.name \in {"docan", "can_gateway"} => Zephyr \/ hw.can
  BY <1>1 DEF Added
<1>5. QED BY <1>2, <1>3, <1>4

(* The components the properties are about. *)
LEMMA ComponentsThere ==
    /\ HasLights => Added("lighting", 2, 2) \in Components
    /\ HasDoor => Added("door_lock", 3, 2) \in Components
    /\ Added("vehicle_mode", 4, 2) \in Components
    /\ HasSpeed => Added("speed_sim", 6, 2) \in Components
    /\ Zephyr => {Added("can_gateway", 7, 3), Added("docan", 8, 3),
                  Added("diagnostics", 9, 3)} \subseteq Components
    /\ ~Zephyr => Added("diagnostics", 8, 3) \in Components
    /\ ~Zephyr /\ hw.can => {Added("can_gateway", 7, 3), Added("docan", 10, 3)}
                               \subseteq Components
<1>1. /\ HasLights => Added("lighting", 2, 2) \in Level2
      /\ HasDoor => Added("door_lock", 3, 2) \in Level2
      /\ Added("vehicle_mode", 4, 2) \in Level2
      /\ HasSpeed => Added("speed_sim", 6, 2) \in Level2
  BY DEF Level2, If
<1>2. Level2 \subseteq Components BY DEF Components
<1>3. CASE Zephyr
  <2>1. {Added("can_gateway", 7, 3), Added("docan", 8, 3),
         Added("diagnostics", 9, 3), Added("doip", 10, 3)} \subseteq Components
    BY <1>3 DEF Components
  <2>2. QED BY <1>1, <1>2, <1>3, <2>1
<1>4. CASE ~Zephyr
  <2>1. Added("diagnostics", 8, 3) \in Components BY <1>4 DEF Components
  <2>2. hw.can => Added("can_gateway", 7, 3) \in Components
                  /\ Added("docan", 10, 3) \in Components
    BY <1>4 DEF Components, If
  <2>3. QED BY <1>1, <1>2, <1>4, <2>1, <2>2
<1>5. QED BY <1>3, <1>4

LEMMA CallFacts ==
    /\ \A call \in All : /\ call.component \in Components /\ call.op \in {"init", "run"}
                         /\ call.component.place \in 1..10 /\ call.component.level \in 1..3
    /\ \A c, d \in All : c.component.name = d.component.name /\ c.op = d.op => c = d
    /\ \A c \in Components, op \in {"init", "run"} :
          /\ Call(c, op) \in All
          /\ Call(c, op).component = c /\ Call(c, op).op = op
<1>1. \A call \in All : \E c \in Components, op \in {"init", "run"} : call = Call(c, op)
  BY DEF All, Startup
<1>2. \A c \in Components, op \in {"init", "run"} :
          /\ Call(c, op) \in All /\ Call(c, op).component = c /\ Call(c, op).op = op
  <2>1. \A c, op : Call(c, op).component = c /\ Call(c, op).op = op BY DEF Call
  <2>2. \A c \in Components : c \in {d \in Components : d.level <= 3}
    BY ComponentFacts
  <2>3. \A c \in Components, op \in {"init", "run"} : Call(c, op) \in All
    BY <2>2 DEF All, Startup
  <2>4. QED BY <2>1, <2>3
<1>3. \A call \in All : call.component \in Components /\ call.op \in {"init", "run"}
                        /\ call = Call(call.component, call.op)
  BY <1>1, <1>2
<1>4. \A c, d \in All : c.component.name = d.component.name /\ c.op = d.op => c = d
  <2>1. SUFFICES ASSUME NEW c \in All, NEW d \in All,
                        c.component.name = d.component.name, c.op = d.op
                 PROVE  c = d
    OBVIOUS
  <2>2. c.component = d.component BY <1>3, <2>1, ComponentFacts
  <2>3. QED BY <1>3, <2>1, <2>2
<1>5. QED BY <1>2, <1>3, <1>4, ComponentFacts

LEMMA SameBoard ==
    ASSUME UNCHANGED boardVars
    PROVE  /\ Components' = Components /\ All' = All /\ Zephyr' = Zephyr
           /\ HasDoor' = HasDoor /\ HasLights' = HasLights /\ HasSpeed' = HasSpeed
  BY DEF boardVars, Components, All, Startup, Level2, If, Zephyr,
         HasDoor, HasLights, HasSpeed, HasIgnition

LEMMA PrecedesAsymmetric ==
    \A c, d \in All : Precedes(c, d) => ~Precedes(d, c) /\ c # d
  BY CallFacts DEF Precedes

(* One call is made. *)
LEMMA NextCall ==
    ASSUME TypeOK, OrderInv, NEW name, NEW op, Next1(name, op)
    PROVE  /\ Begun /\ Begun' /\ todo' \subseteq All' /\ OrderInv'
           /\ \E call \in All : call.component.name = name /\ call.op = op
           /\ ~Done(name, op) /\ Done(name, op)'
           /\ \A n, o : <<n, o>> # <<name, op>> => (Done(n, o)' <=> Done(n, o))
<1>1. PICK call \in todo : /\ call.component.name = name /\ call.op = op
                           /\ MayCall(call, todo, stuck) /\ todo' = todo \ {call}
  BY DEF Next1
<1>2. UNCHANGED <<boardVars, main>> BY DEF Next1
<1>3. todo \subseteq All /\ Begun BY <1>1 DEF TypeOK, All, OrderInv
<1>4. All' = All /\ Begun' = Begun BY <1>2, SameBoard DEF Begun
<1>5. OrderInv'
  <2>1. SUFFICES ASSUME NEW c \in All, NEW d \in All, c \notin todo', Precedes(d, c)
                 PROVE  d \notin todo'
    BY <1>3, <1>4 DEF OrderInv
  <2>2. CASE c = call
    BY <1>1, <1>3, <2>1, <2>2, PrecedesAsymmetric DEF MayCall
  <2>3. CASE c # call
    BY <1>1, <1>3, <2>1, <2>3 DEF OrderInv
  <2>4. QED BY <2>2, <2>3
<1>6. ~Done(name, op) BY <1>1 DEF Done
<1>7. Done(name, op)'
  <2>1. ASSUME NEW c \in todo', c.component.name = name, c.op = op PROVE FALSE
    BY <1>1, <1>3, <2>1, CallFacts
  <2>2. QED BY <1>3, <1>4, <2>1 DEF Done
<1>8. \A n, o : <<n, o>> # <<name, op>> => (Done(n, o)' <=> Done(n, o))
  BY <1>1, <1>3, <1>4 DEF Done
<1>9. QED BY <1>1, <1>3, <1>4, <1>5, <1>6, <1>7, <1>8

(* What has been called for the services and for the CAN bus. *)
ServiceCalls == {<<"door_lock", "init">>, <<"speed_sim", "init">>,
                 <<"vehicle_mode", "init">>, <<"lighting", "init">>}
CanCalls == {<<"docan", "init">>, <<"can_gateway", "run">>, <<"diagnostics", "init">>}

LEMMA MethodsKept ==
    ASSUME MethodsInv, UNCHANGED <<boardVars, main, methods>>,
           \A n, o : <<n, o>> \in ServiceCalls => (Done(n, o)' <=> Done(n, o))
    PROVE  MethodsInv'
<1>1. /\ Done("door_lock", "init")' <=> Done("door_lock", "init")
      /\ Done("speed_sim", "init")' <=> Done("speed_sim", "init")
      /\ Done("vehicle_mode", "init")' <=> Done("vehicle_mode", "init")
      /\ Done("lighting", "init")' <=> Done("lighting", "init")
  BY DEF ServiceCalls
<1>2. QED BY <1>1, SameBoard DEF MethodsInv, Answers

LEMMA CanKept ==
    ASSUME CanInv, UNCHANGED <<boardVars, main, canVars, diagnosed>>, todo' \subseteq todo,
           \A n, o : <<n, o>> \in CanCalls => (Done(n, o)' <=> Done(n, o))
    PROVE  CanInv'
<1>1. /\ Done("docan", "init")' <=> Done("docan", "init")
      /\ Done("can_gateway", "run")' <=> Done("can_gateway", "run")
      /\ Done("diagnostics", "init")' <=> Done("diagnostics", "init")
  BY DEF CanCalls
<1>2. QED BY <1>1, SameBoard DEF CanInv, canVars, boardVars

LEMMA HardwareKept == HardwareInv /\ UNCHANGED boardVars => HardwareInv'
  BY DEF HardwareInv, boardVars, Zephyr

-----------------------------------------------------------------------------
(* The calls. *)

LEMMA CallLeaves ==
    ASSUME NEW name, NEW op, Next1(name, op)
    PROVE  UNCHANGED <<boardVars, main, lockVars>> /\ todo' \subseteq todo
  BY DEF Next1

LEMMA RegistersStep ==
    ASSUME BootInv, NEW name, NEW m \in Methods, Registers(name, "init", m),
           <<name, m>> \in {<<"lighting", "lights">>, <<"door_lock", "lock">>,
                            <<"vehicle_mode", "mode">>, <<"speed_sim", "speed">>}
    PROVE  BootInv'
<1> USE DEF BootInv
<1>1. /\ Next1(name, "init") /\ methods' = [methods EXCEPT ![m] = name]
      /\ events' = events \cup {m}
      /\ UNCHANGED <<stuck, offered, transport, canVars, diagnosed>>
  BY DEF Registers
<1>2. /\ Begun /\ Begun' /\ todo' \subseteq All' /\ OrderInv'
      /\ \E call \in All : call.component.name = name
      /\ Done(name, "init")'
      /\ \A n, o : <<n, o>> # <<name, "init">> => (Done(n, o)' <=> Done(n, o))
  BY <1>1, NextCall, Zenon
<1>3. UNCHANGED <<boardVars, main, lockVars>> /\ todo' \subseteq todo
  BY <1>1, CallLeaves
<1>4. methods'[m] = name /\ \A q \in Methods \ {m} : methods'[q] = methods[q]
  BY <1>1 DEF TypeOK
<1>5. TypeOK'
  <2> DEFINE Owners == {None, "lighting", "door_lock", "software",
                        "vehicle_mode", "speed_sim", "can_gateway", "main"}
  <2>1. name \in Owners /\ m \in {"lock", "lights", "mode", "speed", "vin"}
    OBVIOUS
  <2>2. methods' \in [Methods -> Owners]
    <3>1. methods \in [Methods -> Owners] BY DEF TypeOK
    <3>2. methods' = [methods EXCEPT ![m] = name] BY <1>1
    <3> HIDE DEF Owners
    <3>3. QED BY <2>1, <3>1, <3>2
  <2>3. events' \subseteq {"lock", "lights", "mode", "speed", "vin"}
    <3>1. events \subseteq {"lock", "lights", "mode", "speed", "vin"} BY DEF TypeOK
    <3>2. events' = events \cup {m} BY <1>1
    <3>3. QED BY <2>1, <3>1, <3>2
  <2>4. todo' \subseteq Startup(Components, 3)'
    BY <1>2 DEF All
  <2>5. /\ UNCHANGED <<platform, hw, async, main, swState>>
        /\ UNCHANGED <<stuck, offered, transport, rxCallbacks, receiving, diagnosed>>
    BY <1>1, <1>3 DEF boardVars, canVars, lockVars
  <2>6. QED BY <2>2, <2>3, <2>4, <2>5 DEF TypeOK
<1>6. /\ name = "lighting" => HasLights
      /\ name = "door_lock" => HasDoor
      /\ name = "speed_sim" => HasSpeed
  BY <1>2, CallFacts, ComponentFacts
<1>7. MethodsInv'
  <2>1. /\ HasDoor' = HasDoor /\ HasLights' = HasLights /\ HasSpeed' = HasSpeed
        /\ main # "stubs" /\ main' = main
    BY <1>2, <1>3, SameBoard DEF Begun
  <2>2. Answers("lock", HasDoor, "door_lock", "software")'
    BY <1>2, <1>4, <1>6, <2>1 DEF MethodsInv, Answers, Methods
  <2>3. Answers("speed", HasSpeed, "speed_sim", "software")'
    BY <1>2, <1>4, <1>6, <2>1 DEF MethodsInv, Answers, Methods
  <2>4. Answers("mode", TRUE, "vehicle_mode", None)'
    BY <1>2, <1>4, <2>1 DEF MethodsInv, Answers, Methods
  <2>5. /\ ~HasLights' => methods'["lights"] = None
        /\ HasLights' /\ Done("lighting", "init")' => methods'["lights"] # None
    BY <1>2, <1>4, <1>6, <2>1 DEF MethodsInv, Methods, None
  <2>6. methods'["vin"] = methods["vin"] /\ Zephyr' = Zephyr
    BY <1>3, <1>4, SameBoard DEF Methods
  <2>7. QED BY <2>2, <2>3, <2>4, <2>5, <2>6 DEF MethodsInv
<1>8. CanInv' BY <1>1, <1>2, <1>3, CanKept DEF CanCalls
<1>9. QED BY <1>2, <1>3, <1>5, <1>7, <1>8, HardwareKept

LEMMA ServiceStep == BootInv /\ Service => BootInv'
  BY RegistersStep DEF Service, Methods

(* A call that neither registers methods nor has to do with the CAN bus. *)
LEMMA OtherCall ==
    ASSUME BootInv, NEW name, NEW op, Next1(name, op),
           <<name, op>> \notin ServiceCalls \cup CanCalls,
           UNCHANGED <<methods, canVars, diagnosed>>
    PROVE  /\ OrderInv' /\ HardwareInv' /\ MethodsInv' /\ CanInv'
           /\ todo' \subseteq All' /\ UNCHANGED <<boardVars, main, lockVars>>
<1> USE DEF BootInv
<1>1. /\ OrderInv' /\ todo' \subseteq All'
      /\ \A n, o : <<n, o>> # <<name, op>> => (Done(n, o)' <=> Done(n, o))
  BY NextCall, Zenon
<1>2. UNCHANGED <<boardVars, main, lockVars>> /\ todo' \subseteq todo BY CallLeaves
<1>3. MethodsInv' BY <1>1, <1>2, MethodsKept
<1>4. CanInv' BY <1>1, <1>2, CanKept
<1>5. QED BY <1>1, <1>2, <1>3, <1>4, HardwareKept

LEMMA QuietStep == BootInv /\ Quiet => BootInv'
<1> SUFFICES ASSUME BootInv, Quiet PROVE BootInv'
  OBVIOUS
<1>1. PICK name \in {"ignition", "can_gateway", "someip", "lighting", "door_lock",
                     "vehicle_mode", "speed_sim", "diagnostics"},
           op \in {"init", "run"} :
        Next1(name, op) /\ <<name, op>> \notin ServiceCalls \cup CanCalls
  BY DEF Quiet, ServiceCalls, CanCalls
<1>2. UNCHANGED <<stuck, someipVars, canVars, diagnosed>> BY DEF Quiet
<1>3. /\ OrderInv' /\ HardwareInv' /\ MethodsInv' /\ CanInv'
      /\ todo' \subseteq All' /\ UNCHANGED <<boardVars, main, lockVars>>
  BY <1>1, <1>2, OtherCall DEF someipVars
<1>4. TypeOK'
  BY <1>2, <1>3 DEF BootInv, TypeOK, All, boardVars, someipVars, canVars, lockVars
<1>5. QED BY <1>3, <1>4 DEF BootInv

LEMMA RunSomeIpStep == BootInv /\ RunSomeIp => BootInv'
<1> SUFFICES ASSUME BootInv, RunSomeIp PROVE BootInv'
  OBVIOUS
<1>1. /\ Next1("someip", "run") /\ UNCHANGED <<methods, events, canVars, diagnosed>>
      /\ transport' \in {"up", "failed"}
      /\ stuck' \subseteq stuck \cup {<<1, "run">>}
      /\ offered' \subseteq offered \cup {"lock"} \cup events
  BY DEF RunSomeIp, Unreported
<1>2. /\ OrderInv' /\ HardwareInv' /\ MethodsInv' /\ CanInv'
      /\ todo' \subseteq All' /\ UNCHANGED <<boardVars, main, lockVars>>
  BY <1>1, OtherCall DEF ServiceCalls, CanCalls
<1>3. TypeOK'
  BY <1>1, <1>2 DEF BootInv, TypeOK, All, boardVars, canVars, lockVars
<1>4. QED BY <1>2, <1>3 DEF BootInv

LEMMA InitDoIpStep == BootInv /\ InitDoIp => BootInv'
<1> SUFFICES ASSUME BootInv, InitDoIp PROVE BootInv'
  OBVIOUS
<1>1. /\ Next1("doip", "init") /\ UNCHANGED <<someipVars, canVars, diagnosed>>
      /\ stuck' \subseteq stuck \cup {<<3, "init">>}
  BY DEF InitDoIp, Unreported
<1>2. /\ OrderInv' /\ HardwareInv' /\ MethodsInv' /\ CanInv'
      /\ todo' \subseteq All' /\ UNCHANGED <<boardVars, main, lockVars>>
  BY <1>1, OtherCall DEF ServiceCalls, CanCalls, someipVars
<1>3. TypeOK'
  BY <1>1, <1>2 DEF BootInv, TypeOK, All, boardVars, someipVars, canVars, lockVars
<1>4. QED BY <1>2, <1>3 DEF BootInv

LEMMA RunTransportStep == BootInv /\ RunTransport => BootInv'
<1> SUFFICES ASSUME BootInv, RunTransport PROVE BootInv'
  OBVIOUS
<1>1. PICK name \in {"doip", "docan"} : Next1(name, "run") BY DEF RunTransport
<1>2. /\ UNCHANGED <<someipVars, canVars, diagnosed>>
      /\ stuck' \subseteq stuck \cup {<<3, "run">>}
  BY DEF RunTransport, Unreported
<1>3. /\ OrderInv' /\ HardwareInv' /\ MethodsInv' /\ CanInv'
      /\ todo' \subseteq All' /\ UNCHANGED <<boardVars, main, lockVars>>
  BY <1>1, <1>2, OtherCall DEF ServiceCalls, CanCalls, someipVars
<1>4. TypeOK'
  BY <1>2, <1>3 DEF BootInv, TypeOK, All, boardVars, someipVars, canVars, lockVars
<1>5. QED BY <1>3, <1>4 DEF BootInv

(* The gateway is run after DoCAN and diagnostics have been initialised, on
   either platform.                                                           *)
LEMMA InitsBeforeGateway ==
    ASSUME NEW left \in SUBSET All, HardwareInv, hw.can,
           \A c, d \in All : c \notin left /\ Precedes(d, c) => d \notin left,
           \A call \in left : ~(call.component.name = "can_gateway" /\ call.op = "run")
    PROVE  \A call \in left : ~(/\ call.component.name \in {"docan", "diagnostics"}
                                /\ call.op = "init")
<1>2. PICK gateway, docan, diag \in Components :
          /\ gateway.name = "can_gateway" /\ docan.name = "docan"
          /\ diag.name = "diagnostics"
          /\ gateway.level = 3 /\ docan.level = 3 /\ diag.level = 3
  <2>1. CASE Zephyr
    <3>1. /\ Added("can_gateway", 7, 3) \in Components
          /\ Added("docan", 8, 3) \in Components
          /\ Added("diagnostics", 9, 3) \in Components
      BY <2>1, ComponentsThere
    <3>2. QED BY <3>1 DEF Added
  <2>2. CASE ~Zephyr
    <3>1. /\ Added("can_gateway", 7, 3) \in Components
          /\ Added("docan", 10, 3) \in Components
          /\ Added("diagnostics", 8, 3) \in Components
      BY <2>2, ComponentsThere
    <3>2. QED BY <3>1 DEF Added
  <2>3. QED BY <2>1, <2>2
<1>3. Call(gateway, "run") \notin left
  BY <1>2, CallFacts
<1>4. ASSUME NEW c \in {docan, diag} PROVE Call(c, "init") \notin left
  <2>1. c \in Components /\ c.level = 3 BY <1>2, <1>4
  <2>2. Precedes(Call(c, "init"), Call(gateway, "run"))
    BY <1>2, <2>1, CallFacts DEF Precedes
  <2>3. QED BY <1>2, <1>3, <2>1, <2>2, CallFacts
<1>5. ASSUME NEW call \in left, NEW c \in {docan, diag},
             call.component.name = c.name, call.op = "init"
      PROVE  FALSE
  <2>1. /\ Call(c, "init") \in All /\ Call(c, "init").component = c
        /\ Call(c, "init").op = "init"
    BY <1>2, CallFacts
  <2>2. call = Call(c, "init") BY <1>5, <2>1, CallFacts
  <2>3. QED BY <1>4, <2>2
<1>6. QED BY <1>2, <1>5

(* A component of the CAN bus adds its callback, in time. *)
LEMMA AddsCallback ==
    ASSUME BootInv, NEW name, NEW op, NEW callback, Next1(name, op), AddRxCallback(callback),
           UNCHANGED diagnosed,
           <<name, op, callback>> \in {<<"docan", "init", "docan">>,
                                       <<"can_gateway", "run", "gateway">>}
    PROVE  /\ CanInv' /\ OrderInv' /\ HardwareInv' /\ todo' \subseteq All'
           /\ UNCHANGED <<boardVars, main, lockVars>>
           /\ rxCallbacks' \subseteq Callbacks /\ receiving' \in {"no", "yes", "failed"}
           /\ Begun /\ \A n, o : <<n, o>> # <<name, op>> => (Done(n, o)' <=> Done(n, o))
<1> USE DEF BootInv
<1>1. /\ Begun /\ Begun' /\ todo' \subseteq All' /\ OrderInv'
      /\ \E call \in All : call.component.name = name
      /\ Done(name, op)'
      /\ \A n, o : <<n, o>> # <<name, op>> => (Done(n, o)' <=> Done(n, o))
  BY NextCall, Zenon
<1>2. UNCHANGED <<boardVars, main, lockVars>> /\ todo' \subseteq todo
  BY CallLeaves
<1>3. todo # {} BY DEF Next1
<1>4. hw.can BY <1>1, CallFacts, ComponentFacts DEF HardwareInv
<1>5. Zephyr' = Zephyr /\ async' = async /\ hw' = hw /\ main' = main
  BY <1>2, SameBoard DEF boardVars
<1>6. /\ rxCallbacks' \subseteq Callbacks /\ receiving' \in {"no", "yes", "failed"}
      /\ ~(Zephyr /\ async) => rxCallbacks' = rxCallbacks \cup {callback}
      /\ Zephyr => receiving' = receiving
      /\ rxCallbacks' \in {rxCallbacks, rxCallbacks \cup {callback}}
      /\ Zephyr /\ receiving # "yes" => callback \in rxCallbacks'
  <2>1. CASE Zephyr
    <3>1. ~async => receiving = "no"
      BY <1>1, <1>3, <2>1 DEF CanInv, TypeOK, Begun
    <3>2. QED BY <2>1, <3>1 DEF AddRxCallback, TypeOK, Callbacks
  <2>2. CASE ~Zephyr BY <2>2 DEF AddRxCallback, TypeOK, Callbacks
  <2>3. QED BY <2>1, <2>2
<1>7. CanInv'
  <2>1. Zephyr' /\ ~async' =>
          /\ main' \in {"stubs", "transition", "receive"} => receiving' = "no"
          /\ main' \in {"vin", "running"} => todo' = {}
    BY <1>2, <1>5, <1>6 DEF CanInv
  <2>2. ASSUME ~(Zephyr /\ async)
        PROVE  /\ "docan" \in rxCallbacks' <=> Done("docan", "init")'
               /\ "gateway" \in rxCallbacks' <=> Done("can_gateway", "run")'
    BY <1>1, <1>4, <1>6, <2>2 DEF CanInv
  <2>3. diagnosed' <=> Done("diagnostics", "init")' BY <1>1 DEF CanInv
  <2>4. Zephyr' /\ receiving' # "yes" /\ Done("docan", "init")' => "docan" \in rxCallbacks'
    BY <1>1, <1>5, <1>6 DEF CanInv
  <2>5. ASSUME "gateway" \in rxCallbacks'
        PROVE  Done("can_gateway", "run")' /\ "docan" \in rxCallbacks'
    <3>1. CASE "gateway" \in rxCallbacks
      BY <1>1, <1>6, <3>1 DEF CanInv
    <3>2. CASE "gateway" \notin rxCallbacks
      <4>1. callback = "gateway" /\ name = "can_gateway" /\ op = "run"
        BY <1>6, <2>5, <3>2
      <4>2. /\ todo' \subseteq All
            /\ \A c, d \in All : c \notin todo' /\ Precedes(d, c) => d \notin todo'
        BY <1>1, <1>2, SameBoard DEF OrderInv
      <4>3. \A call \in todo' : ~(call.component.name = "can_gateway" /\ call.op = "run")
        BY <1>1, <4>1 DEF Done
      <4>4. Done("docan", "init")'
        BY <1>1, <1>4, <4>2, <4>3, InitsBeforeGateway DEF Done
      <4>5. Done("docan", "init") BY <1>1, <4>1, <4>4
      <4>6. "docan" \in rxCallbacks
        <5>1. CASE Zephyr
          <6>1. receiving # "yes" BY <2>5, <3>2, <5>1 DEF AddRxCallback
          <6>2. QED BY <4>5, <5>1, <6>1 DEF CanInv
        <5>2. CASE ~Zephyr BY <1>4, <4>5, <5>2 DEF CanInv
        <5>3. QED BY <5>1, <5>2
      <4>7. QED BY <1>1, <1>6, <4>1, <4>6
    <3>3. QED BY <3>1, <3>2
  <2>6. QED BY <1>4, <1>5, <2>1, <2>2, <2>3, <2>4, <2>5 DEF CanInv
<1>8. QED BY <1>1, <1>2, <1>6, <1>7, HardwareKept

LEMMA InitDoCanStep == BootInv /\ InitDoCan => BootInv'
<1> SUFFICES ASSUME BootInv, InitDoCan PROVE BootInv'
  OBVIOUS
<1>1. Next1("docan", "init") /\ AddRxCallback("docan")
      /\ UNCHANGED <<stuck, someipVars, diagnosed>>
  BY DEF InitDoCan
<1>2. /\ CanInv' /\ OrderInv' /\ HardwareInv' /\ todo' \subseteq All'
      /\ UNCHANGED <<boardVars, main, lockVars>>
      /\ rxCallbacks' \subseteq Callbacks /\ receiving' \in {"no", "yes", "failed"}
      /\ \A n, o : <<n, o>> # <<"docan", "init">> => (Done(n, o)' <=> Done(n, o))
  BY <1>1, AddsCallback
<1>3. TypeOK'
  BY <1>1, <1>2 DEF BootInv, TypeOK, All, boardVars, someipVars, lockVars
<1>4. MethodsInv'
  BY <1>1, <1>2, MethodsKept DEF BootInv, ServiceCalls, someipVars
<1>5. QED BY <1>2, <1>3, <1>4 DEF BootInv

(* The gateway's light handler replaces the lighting's, where both are. *)
LEMMA RunGatewayStep == BootInv /\ RunGateway => BootInv'
<1> SUFFICES ASSUME BootInv, RunGateway PROVE BootInv'
  OBVIOUS
<1>1. /\ Next1("can_gateway", "run") /\ AddRxCallback("gateway")
      /\ events' = events \cup {"lock"}
      /\ UNCHANGED <<stuck, offered, transport, diagnosed>>
      /\ methods' = IF Zephyr THEN methods
                    ELSE [methods EXCEPT !["lights"] = "can_gateway"]
  BY DEF RunGateway
<1>2. /\ CanInv' /\ OrderInv' /\ HardwareInv' /\ todo' \subseteq All'
      /\ UNCHANGED <<boardVars, main, lockVars>>
      /\ rxCallbacks' \subseteq Callbacks /\ receiving' \in {"no", "yes", "failed"}
      /\ \A n, o : <<n, o>> # <<"can_gateway", "run">> => (Done(n, o)' <=> Done(n, o))
  BY <1>1, AddsCallback
<1>3. TypeOK'
  BY <1>1, <1>2 DEF BootInv, TypeOK, All, boardVars, lockVars, Methods
<1>4. MethodsInv'
  <2>1. CASE Zephyr
    BY <1>1, <1>2, <2>1, MethodsKept DEF BootInv, ServiceCalls
  <2>2. CASE ~Zephyr
    <3>1. HasLights /\ HasLights' = HasLights /\ HasDoor' = HasDoor /\ HasSpeed' = HasSpeed
          /\ main' = main /\ Zephyr' = Zephyr
      BY <1>2, <2>2, SameBoard DEF BootInv, HardwareInv, HasLights
    <3>2. methods'["lights"] = "can_gateway"
          /\ \A m \in Methods \ {"lights"} : methods'[m] = methods[m]
      BY <1>1, <2>2 DEF BootInv, TypeOK, Methods
    <3>3. /\ Done("door_lock", "init")' <=> Done("door_lock", "init")
          /\ Done("speed_sim", "init")' <=> Done("speed_sim", "init")
          /\ Done("vehicle_mode", "init")' <=> Done("vehicle_mode", "init")
      BY <1>2
    <3>4. QED BY <3>1, <3>2, <3>3 DEF BootInv, MethodsInv, Answers, Methods, None
  <2>3. QED BY <2>1, <2>2
<1>5. QED BY <1>2, <1>3, <1>4 DEF BootInv

LEMMA InitDiagnosticsStep == BootInv /\ InitDiagnostics => BootInv'
<1> SUFFICES ASSUME BootInv, InitDiagnostics PROVE BootInv'
  OBVIOUS
<1> USE DEF BootInv
<1>1. /\ Next1("diagnostics", "init") /\ diagnosed' = TRUE
      /\ UNCHANGED <<stuck, someipVars, canVars>>
  BY DEF InitDiagnostics
<1>2. /\ Begun /\ Begun' /\ todo' \subseteq All' /\ OrderInv'
      /\ Done("diagnostics", "init")'
      /\ \A n, o : <<n, o>> # <<"diagnostics", "init">> => (Done(n, o)' <=> Done(n, o))
  BY <1>1, NextCall, Zenon
<1>3. UNCHANGED <<boardVars, main, lockVars>> /\ todo' \subseteq todo
  BY <1>1, CallLeaves
<1>4. TypeOK'
  BY <1>1, <1>2, <1>3 DEF TypeOK, All, boardVars, someipVars, canVars, lockVars
<1>5. MethodsInv' BY <1>1, <1>2, <1>3, MethodsKept DEF ServiceCalls, someipVars
<1>6. CanInv'
  <2>1. /\ Done("docan", "init")' <=> Done("docan", "init")
        /\ Done("can_gateway", "run")' <=> Done("can_gateway", "run")
    BY <1>2
  <2>2. QED BY <1>1, <1>2, <1>3, <2>1, SameBoard DEF CanInv, canVars, boardVars
<1>7. QED BY <1>2, <1>3, <1>4, <1>5, <1>6, HardwareKept

-----------------------------------------------------------------------------
(* main(), requests, and the receiver. *)

LEMMA RegisterStubsStep == BootInv /\ RegisterStubs => BootInv'
<1> SUFFICES ASSUME BootInv, RegisterStubs PROVE BootInv'
  OBVIOUS
<1> USE DEF BootInv
<1> DEFINE missing == (IF Zephyr /\ ~HasDoor THEN {"lock"} ELSE {})
                        \cup (IF Zephyr /\ ~HasSpeed THEN {"speed"} ELSE {})
<1>1. /\ main = "stubs" /\ main' = "transition"
      /\ methods' = [m \in Methods |-> IF m \in missing THEN "software" ELSE methods[m]]
      /\ events' = events \cup missing
      /\ UNCHANGED <<boardVars, todo, stuck, offered, transport, canVars, diagnosed, lockVars>>
  BY DEF RegisterStubs
<1>2. missing \subseteq {"lock", "speed"} OBVIOUS
<1>3. /\ "lock" \in missing <=> ~HasDoor
      /\ "speed" \in missing <=> ~HasSpeed
  BY DEF HardwareInv, HasDoor, HasSpeed
<1> HIDE DEF missing
<1>4. TypeOK'
  BY <1>1, <1>2, SameBoard DEF TypeOK, boardVars, canVars, lockVars, Methods
<1>5. ~Begun /\ ~Begun' BY <1>1 DEF Begun
<1>6. OrderInv' BY <1>1, <1>5 DEF OrderInv
<1>7. MethodsInv'
  <2>1. \A n, o : ~Done(n, o) /\ ~Done(n, o)' BY <1>5 DEF Done
  <2>2. methods["lock"] = None /\ methods["speed"] = None /\ methods["mode"] = None
    BY <1>1, <2>1 DEF MethodsInv, Answers
  <2>3. /\ methods'["lock"] = (IF ~HasDoor THEN "software" ELSE None)
        /\ methods'["speed"] = (IF ~HasSpeed THEN "software" ELSE None)
        /\ methods'["mode"] = None /\ methods'["lights"] = methods["lights"]
        /\ methods'["vin"] = methods["vin"]
    BY <1>1, <1>2, <1>3, <2>2 DEF Methods
  <2>4. QED BY <1>1, <2>1, <2>3, SameBoard DEF MethodsInv, Answers
<1>8. CanInv'
  <2>1. \A n, o : ~Done(n, o) /\ ~Done(n, o)' BY <1>5 DEF Done
  <2>2. QED BY <1>1, <2>1, SameBoard DEF CanInv, canVars, boardVars
<1>9. QED BY <1>1, <1>4, <1>6, <1>7, <1>8, HardwareKept

LEMMA TransitionStep == BootInv /\ Transition => BootInv'
<1> SUFFICES ASSUME BootInv, Transition PROVE BootInv'
  OBVIOUS
<1> USE DEF BootInv
<1>1. /\ main = "transition" /\ main' = "receive" /\ todo' = All
      /\ UNCHANGED <<boardVars, stuck, someipVars, canVars, diagnosed, lockVars>>
  BY DEF Transition, All
<1>2. All' = All /\ ~Begun /\ Begun' BY <1>1, SameBoard DEF Begun
<1>3. TypeOK'
  BY <1>1, <1>2 DEF TypeOK, All, boardVars, someipVars, canVars, lockVars
<1>4. OrderInv' BY <1>1, <1>2 DEF OrderInv
<1>5. \A n, o : ~Done(n, o) BY <1>2 DEF Done
<1>6. ASSUME NEW c \in Components, NEW op \in {"init", "run"}
      PROVE  ~Done(c.name, op)'
  BY <1>1, <1>6, CallFacts DEF Done
<1>7. MethodsInv'
  <2>1. /\ HasLights => ~Done("lighting", "init")'
        /\ HasDoor => ~Done("door_lock", "init")'
        /\ HasSpeed => ~Done("speed_sim", "init")'
        /\ ~Done("vehicle_mode", "init")'
    <3>1. HasLights => ~Done("lighting", "init")' BY <1>6, ComponentsThere DEF Added
    <3>2. HasDoor => ~Done("door_lock", "init")' BY <1>6, ComponentsThere DEF Added
    <3>3. HasSpeed => ~Done("speed_sim", "init")' BY <1>6, ComponentsThere DEF Added
    <3>4. ~Done("vehicle_mode", "init")' BY <1>6, ComponentsThere DEF Added
    <3>5. QED BY <3>1, <3>2, <3>3, <3>4
  <2>2. UNCHANGED methods BY <1>1 DEF someipVars
  <2>3. QED BY <1>1, <1>5, <2>1, <2>2, SameBoard DEF MethodsInv, Answers
<1>8. CanInv'
  <2>1. hw.can => ~Done("docan", "init")' /\ ~Done("can_gateway", "run")'
    <3>1. CASE Zephyr BY <1>6, <3>1, ComponentsThere DEF Added
    <3>2. CASE ~Zephyr BY <1>6, <3>2, ComponentsThere DEF Added
    <3>3. QED BY <3>1, <3>2
  <2>2. ~Done("diagnostics", "init")'
    <3>1. CASE Zephyr BY <1>6, <3>1, ComponentsThere DEF Added
    <3>2. CASE ~Zephyr BY <1>6, <3>2, ComponentsThere DEF Added
    <3>3. QED BY <3>1, <3>2
  <2>3. QED BY <1>1, <1>5, <2>1, <2>2, SameBoard DEF CanInv, HardwareInv, canVars, boardVars
<1>9. QED BY <1>1, <1>3, <1>4, <1>7, <1>8, HardwareKept

(* Steps that make no call and leave main() where it is in the start. *)
LEMMA NoCall ==
    ASSUME BootInv, UNCHANGED <<boardVars, todo, stuck, someipVars, rxCallbacks, diagnosed>>,
           Begun' <=> Begun, main = "stubs" <=> main' = "stubs"
    PROVE  /\ OrderInv' /\ HardwareInv' /\ MethodsInv'
           /\ \A n, o : Done(n, o)' <=> Done(n, o)
<1> USE DEF BootInv
<1>1. \A n, o : Done(n, o)' <=> Done(n, o) BY DEF Done
<1>2. OrderInv' BY SameBoard DEF OrderInv
<1>3. MethodsInv'
  <2>1. /\ HasDoor' = HasDoor /\ HasLights' = HasLights /\ HasSpeed' = HasSpeed
        /\ UNCHANGED methods /\ Zephyr' = Zephyr
    BY SameBoard DEF someipVars
  <2>2. QED BY <1>1, <2>1 DEF MethodsInv, Answers
<1>4. QED BY <1>1, <1>2, <1>3, HardwareKept

LEMMA StartReceivingStep == BootInv /\ StartReceiving => BootInv'
<1> SUFFICES ASSUME BootInv, StartReceiving PROVE BootInv'
  OBVIOUS
<1>1. /\ main = "receive" /\ main' = "vin" /\ (async \/ todo = {})
      /\ UNCHANGED <<boardVars, todo, stuck, someipVars, rxCallbacks, diagnosed, lockVars>>
      /\ receiving' \in {receiving, "yes", "failed"}
      /\ Zephyr /\ receiving' # "yes" => receiving # "yes"
  BY DEF StartReceiving, Returned
<1>2. Begun /\ Begun' BY <1>1 DEF Begun
<1>3. /\ OrderInv' /\ HardwareInv' /\ MethodsInv'
      /\ \A n, o : Done(n, o)' <=> Done(n, o)
  BY <1>1, <1>2, NoCall
<1>4. TypeOK'
  BY <1>1, SameBoard DEF BootInv, TypeOK, All, boardVars, someipVars, lockVars
<1>5. CanInv'
  BY <1>1, <1>3, SameBoard DEF BootInv, CanInv, boardVars
<1>6. QED BY <1>3, <1>4, <1>5 DEF BootInv

LEMMA AnnounceVinStep == BootInv /\ AnnounceVin => BootInv'
<1> SUFFICES ASSUME BootInv, AnnounceVin PROVE BootInv'
  OBVIOUS
<1>1. /\ main = "vin" /\ main' = "running"
      /\ UNCHANGED <<boardVars, todo, stuck, someipVars, canVars, diagnosed, lockVars>>
  BY DEF AnnounceVin
<1>2. Begun /\ Begun' BY <1>1 DEF Begun
<1>3. /\ OrderInv' /\ HardwareInv' /\ MethodsInv'
      /\ \A n, o : Done(n, o)' <=> Done(n, o)
  BY <1>1, <1>2, NoCall DEF canVars
<1>4. TypeOK'
  BY <1>1, SameBoard DEF BootInv, TypeOK, All, boardVars, someipVars, canVars, lockVars
<1>5. CanInv'
  BY <1>1, <1>3, SameBoard DEF BootInv, CanInv, boardVars, canVars
<1>6. QED BY <1>3, <1>4, <1>5 DEF BootInv

LEMMA RequestStep ==
    ASSUME BootInv, UNCHANGED <<boardVars, main, todo, stuck, someipVars, canVars, diagnosed>>,
           swState' \in {"Locked", "Unlocked"}
    PROVE  BootInv'
<1>1. /\ OrderInv' /\ HardwareInv' /\ MethodsInv'
      /\ \A n, o : Done(n, o)' <=> Done(n, o)
  BY NoCall DEF Begun, canVars
<1>2. TypeOK'
  BY SameBoard DEF BootInv, TypeOK, All, boardVars, someipVars, canVars
<1>3. CanInv'
  BY <1>1, SameBoard DEF BootInv, CanInv, boardVars, canVars
<1>4. QED BY <1>1, <1>2, <1>3 DEF BootInv

LEMMA RxFailsStep == BootInv /\ RxFails => BootInv'
<1> SUFFICES ASSUME BootInv, RxFails PROVE BootInv'
  OBVIOUS
<1>1. /\ ~Zephyr /\ receiving' = "failed"
      /\ UNCHANGED <<boardVars, main, todo, stuck, someipVars, rxCallbacks,
                     diagnosed, lockVars>>
  BY DEF RxFails
<1>2. /\ OrderInv' /\ HardwareInv' /\ MethodsInv'
      /\ \A n, o : Done(n, o)' <=> Done(n, o)
  BY <1>1, NoCall DEF Begun
<1>3. TypeOK'
  BY <1>1, SameBoard DEF BootInv, TypeOK, All, boardVars, someipVars, lockVars
<1>4. CanInv'
  BY <1>1, <1>2, SameBoard DEF BootInv, CanInv, boardVars
<1>5. QED BY <1>2, <1>3, <1>4 DEF BootInv

-----------------------------------------------------------------------------
(* The invariant, and what follows from it. *)

LEMMA BootInit == Init => BootInv
<1> SUFFICES ASSUME Init PROVE BootInv
  OBVIOUS
<1> USE DEF Init
<1>1. TypeOK BY DEF TypeOK, Methods, None
<1>2. ~Begun /\ \A n, o : ~Done(n, o) BY DEF Begun, Done
<1>3. HardwareInv BY DEF HardwareInv, MayFind
<1>4. OrderInv BY <1>2 DEF OrderInv
<1>5. MethodsInv BY <1>2 DEF MethodsInv, Answers, Methods
<1>6. CanInv BY <1>2 DEF CanInv
<1>7. QED BY <1>1, <1>3, <1>4, <1>5, <1>6 DEF BootInv

LEMMA BootNext == BootInv /\ [Next]_vars => BootInv'
<1> SUFFICES ASSUME BootInv, [Next]_vars PROVE BootInv'
  OBVIOUS
<1>1. CASE Main
  BY <1>1, RegisterStubsStep, TransitionStep, StartReceivingStep, AnnounceVinStep DEF Main
<1>2. CASE LifecycleStep
  BY <1>2, ServiceStep, QuietStep, RunSomeIpStep, RunGatewayStep, InitDoCanStep,
     InitDiagnosticsStep, InitDoIpStep, RunTransportStep DEF LifecycleStep
<1>3. CASE \E m \in Methods : Request(m)
  BY <1>3, RequestStep DEF Request, BootInv, TypeOK
<1>4. CASE \E want \in {"Locked", "Unlocked"} : LockRequest(want)
  BY <1>4, RequestStep DEF LockRequest, BootInv, TypeOK
<1>5. CASE RxFails BY <1>5, RxFailsStep
<1>6. CASE UNCHANGED vars
  BY <1>6, RequestStep DEF vars, boardVars, someipVars, canVars, BootInv, TypeOK
<1>7. QED BY <1>1, <1>2, <1>3, <1>4, <1>5, <1>6 DEF Next

LEMMA BootCorrect == Spec => []BootInv
<1>1. QED BY BootInit, BootNext, PTL DEF Spec

(* Whatever the order in which the calls are made: once all are, every method
   has a handler, the component's or what stands in for it (RegisterStubs).   *)
THEOREM EveryHardwareServesAlways == Spec => []EveryHardwareServes
<1>1. BootInv => EveryHardwareServes
  <2> SUFFICES ASSUME BootInv, Started PROVE EveryHardwareServes
    BY DEF EveryHardwareServes
  <2>1. \A n, o : Done(n, o) BY DEF Started, Done, Begun
  <2>2. MethodsInv /\ main # "stubs" BY DEF BootInv, Started
  <2>3. QED BY <2>1, <2>2 DEF EveryHardwareServes, MethodsInv, Answers, None
<1>2. QED BY <1>1, BootCorrect, PTL

(* The gateway adds its callback in the stage after the one in which DoCAN adds
   its own and diagnostics sets the handler (CanGatewaySystem::run(),
   DoCanTransport::init(), DiagnosticsSystem::init()).                        *)
THEOREM DiagnosisHearsFirstAlways == Spec => []DiagnosisHearsFirst
<1>1. BootInv => DiagnosisHearsFirst
  <2> SUFFICES ASSUME BootInv, "gateway" \in rxCallbacks
               PROVE  rxCallbacks = Callbacks /\ diagnosed
    BY DEF DiagnosisHearsFirst
  <2>1. hw.can /\ Done("can_gateway", "run") /\ "docan" \in rxCallbacks
    BY DEF BootInv, CanInv
  <2>2. /\ todo \in SUBSET All
        /\ \A c, d \in All : c \notin todo /\ Precedes(d, c) => d \notin todo
    BY <2>1 DEF BootInv, TypeOK, OrderInv, All, Done
  <2>3. Done("diagnostics", "init")
    BY <2>1, <2>2, InitsBeforeGateway DEF BootInv, Done
  <2>4. QED BY <2>1, <2>3 DEF BootInv, CanInv, TypeOK, Callbacks
<1>2. QED BY <1>1, BootCorrect, PTL

(* Diagnostics come before DoCAN among POSIX's components, and on Zephyr nothing
   is received before all calls have been made: a frame for the diagnosis finds
   its handler (Components, StartReceiving).                                  *)
THEOREM HandlerBeforeFramesAlways == Spec => []HandlerBeforeFrames
<1>1. BootInv => HandlerBeforeFrames
  <2> SUFFICES ASSUME BootInv, receiving = "yes", "docan" \in rxCallbacks,
                      ~(Zephyr /\ async)
               PROVE  Done("diagnostics", "init")
    BY DEF HandlerBeforeFrames, BootInv, CanInv
  <2>1. hw.can /\ Done("docan", "init") /\ Begun BY DEF BootInv, CanInv, Done
  <2>2. CASE Zephyr
    <3>1. main \in {"vin", "running"} /\ todo = {}
      BY <2>2 DEF BootInv, CanInv, TypeOK
    <3>2. QED BY <2>1, <3>1 DEF Done
  <2>3. CASE ~Zephyr
    <3> DEFINE docan == Call(Added("docan", 10, 3), "init")
               diag == Call(Added("diagnostics", 8, 3), "init")
    <3>1. docan \in All /\ diag \in All BY <2>1, <2>3, ComponentsThere, CallFacts
    <3>2. Precedes(diag, docan) BY DEF Precedes, Call, Added
    <3>3. docan \notin todo BY <2>1 DEF Done, Call, Added
    <3>4. diag \notin todo
      BY <2>1, <3>1, <3>2, <3>3 DEF BootInv, OrderInv
    <3>5. diag.component.name = "diagnostics" /\ diag.op = "init" BY DEF Call, Added
    <3>6. \A c \in todo : c \in All BY DEF BootInv, TypeOK, All
    <3> HIDE DEF docan, diag
    <3>7. \A c \in todo : ~(c.component.name = "diagnostics" /\ c.op = "init")
      BY <3>1, <3>4, <3>5, <3>6, CallFacts
    <3>8. QED BY <2>1, <3>7 DEF Done
  <2>4. QED BY <2>2, <2>3
<1>2. QED BY <1>1, BootCorrect, PTL

(* Main, lifecycle manager, registrations and adapters keep their types. *)
THEOREM BootTypeCorrect == Spec => []TypeOK
<1>1. BootInv => TypeOK BY DEF BootInv
<1>2. QED BY <1>1, BootCorrect, PTL

=============================================================================
