-------------------------- MODULE BodyThreadsProofs --------------------------
(* Theorems about BodyThreads, for either build and any maximum speed.         *)
EXTENDS BodyThreads, TLAPS

Places == {"idle", "setMode", "store", "autoLock", "autoActuate", "notify", "zero", "sample",
           "compare", "send", "remember", "publish", "lock", "actuate", "accepted", "refused"}

Args == VM!Modes \cup {"Locked", "Unlocked", "none", "stop", "drive"}

Frames == [pc : Places, arg : Args, val : Speeds]

(* What a thread at one of these places was asked for. *)
ArgOf(f) ==
    /\ f.pc \in {"setMode", "store", "notify"} => f.arg \in VM!Modes
    /\ f.pc \in {"lock", "actuate"} => f.arg \in {"Locked", "Unlocked"}

AtTyped == at \in [Threads -> Frames] /\ \A t \in Threads : ArgOf(at[t])

TypeInv == TypeOK /\ AtTyped

-----------------------------------------------------------------------------
(* What the two ways to go on do. *)

LEMMA IdleType == Idle \in Frames /\ ArgOf(Idle)
  BY ThreadsAssumption DEF Idle, Frames, Places, Args, ArgOf, Speeds

LEMMA ZeroIsASpeed == 0 \in Speeds
  BY ThreadsAssumption DEF Speeds

(* Thread t goes on at pc with an argument and a speed in its hands. *)
GoesOn(t, pc, arg, v) ==
    /\ at'[t].pc = pc /\ at'[t].arg = arg /\ at'[t].val = v
    /\ \A u \in Threads \ {t} : at'[u] = at[u]

LEMMA GotoType ==
    ASSUME AtTyped, UNCHANGED platform,
           NEW t \in Threads, NEW pc \in Places, NEW arg \in Args,
           pc \in {"setMode", "store", "notify"} => arg \in VM!Modes,
           pc \in {"lock", "actuate"} => arg \in {"Locked", "Unlocked"},
           Goto(t, pc, arg)
    PROVE  AtTyped' /\ GoesOn(t, pc, arg, at[t].val)
<1>1. at \in [Threads -> Frames] BY DEF AtTyped
<1>2. Threads' = Threads BY DEF Threads
<1>3. at' \in [Threads -> Frames] /\ GoesOn(t, pc, arg, at[t].val)
  BY <1>1 DEF Goto, Frames, GoesOn
<1>4. \A u \in Threads : ArgOf(at'[u])
  BY <1>3 DEF GoesOn, ArgOf, AtTyped
<1>5. QED BY <1>2, <1>3, <1>4 DEF AtTyped

LEMMA GotoWithType ==
    ASSUME AtTyped, UNCHANGED platform, NEW t \in Threads,
           NEW pc \in Places \ {"setMode", "store", "notify", "lock", "actuate"},
           NEW v \in Speeds,
           GotoWith(t, pc, v)
    PROVE  AtTyped' /\ GoesOn(t, pc, at[t].arg, v)
<1>1. at \in [Threads -> Frames] BY DEF AtTyped
<1>2. Threads' = Threads BY DEF Threads
<1>3. at' \in [Threads -> Frames] /\ GoesOn(t, pc, at[t].arg, v)
  BY <1>1 DEF GotoWith, Frames, GoesOn
<1>4. \A u \in Threads : ArgOf(at'[u])
  BY <1>3 DEF GoesOn, ArgOf, AtTyped
<1>5. QED BY <1>2, <1>3, <1>4 DEF AtTyped

LEMMA RestsType ==
    ASSUME AtTyped, UNCHANGED platform, NEW t \in Threads, at' = [at EXCEPT ![t] = Idle]
    PROVE  AtTyped' /\ GoesOn(t, "idle", "none", 0)
<1>1. at \in [Threads -> Frames] BY DEF AtTyped
<1>2. Threads' = Threads BY DEF Threads
<1>3. at' \in [Threads -> Frames] /\ at'[t] = Idle /\ \A u \in Threads \ {t} : at'[u] = at[u]
  BY <1>1, IdleType
<1>4. GoesOn(t, "idle", "none", 0) BY <1>3 DEF GoesOn, Idle
<1>5. \A u \in Threads : ArgOf(at'[u]) BY <1>3, IdleType DEF AtTyped
<1>6. QED BY <1>2, <1>3, <1>4, <1>5 DEF AtTyped

-----------------------------------------------------------------------------
(* The types, and where each step leads. *)

Moves(t, pc, arg, v) == TypeInv' /\ GoesOn(t, pc, arg, v)

LEMMA CheckMoves ==
    ASSUME TypeInv, UNCHANGED platform, NEW t \in Threads, Check(t)
    PROVE  \E pc \in {"store", "accepted", "refused"} :
              Moves(t, pc, at[t].arg, at[t].val) /\ (pc = "store" => at[t].arg # mode)
<1> DEFINE new == at[t].arg
<1>1. new \in VM!Modes /\ new \in Args
  BY DEF TypeInv, AtTyped, ArgOf, Check, On, Args
<1>2. PICK pc \in {"store", "accepted", "refused"} :
          Goto(t, pc, new) /\ (pc = "store" => new # mode)
  BY Zenon DEF Check
<1>3. AtTyped' /\ GoesOn(t, pc, new, at[t].val)
  BY <1>1, <1>2, GotoType DEF Places, TypeInv
<1>4. TypeOK' BY DEF Check, TypeInv, TypeOK, simVars
<1>5. QED BY <1>2, <1>3, <1>4 DEF Moves, TypeInv

LEMMA StoreMoves ==
    ASSUME TypeInv, UNCHANGED platform, NEW t \in Threads, Store(t)
    PROVE  Moves(t, IF at[t].arg = "Run" THEN "autoLock" ELSE "notify", at[t].arg, at[t].val)
<1>1. at[t].arg \in VM!Modes /\ at[t].arg \in Args
  BY DEF TypeInv, AtTyped, ArgOf, Store, On, Args
<1>2. AtTyped' /\ GoesOn(t, IF at[t].arg = "Run" THEN "autoLock" ELSE "notify", at[t].arg,
                         at[t].val)
  BY <1>1, GotoType DEF Places, TypeInv, Store
<1>3. TypeOK' BY <1>1 DEF Store, TypeInv, TypeOK, simVars
<1>4. QED BY <1>2, <1>3 DEF Moves, TypeInv

LEMMA AutoLockMoves ==
    ASSUME TypeInv, UNCHANGED platform, NEW t \in Threads, AutoLock(t)
    PROVE  Moves(t, IF lockState # "Locked" /\ busSpeed <= 5 THEN "autoActuate" ELSE "notify",
                 "Run", at[t].val)
<1>1. "Run" \in VM!Modes /\ "Run" \in Args BY DEF VM!Modes, Args
<1>2. AtTyped' /\ GoesOn(t, IF lockState # "Locked" /\ busSpeed <= 5
                            THEN "autoActuate" ELSE "notify", "Run", at[t].val)
  BY <1>1, GotoType DEF Places, TypeInv, AutoLock
<1>3. TypeOK' BY DEF AutoLock, TypeInv, TypeOK, simVars
<1>4. QED BY <1>2, <1>3 DEF Moves, TypeInv

LEMMA AutoActuateMoves ==
    ASSUME TypeInv, UNCHANGED platform, NEW t \in Threads, AutoActuate(t)
    PROVE  Moves(t, "notify", "Run", at[t].val)
<1>1. "Run" \in VM!Modes /\ "Run" \in Args BY DEF VM!Modes, Args
<1>2. AtTyped' /\ GoesOn(t, "notify", "Run", at[t].val)
  BY <1>1, GotoType DEF Places, TypeInv, AutoActuate
<1>3. TypeOK' BY DEF AutoActuate, TypeInv, TypeOK, simVars
<1>4. QED BY <1>2, <1>3 DEF Moves, TypeInv

LEMMA NotifyMoves ==
    ASSUME TypeInv, UNCHANGED platform, NEW t \in Threads, Notify(t)
    PROVE  Moves(t, IF at[t].arg = "Run" THEN "accepted" ELSE "zero", at[t].arg, at[t].val)
<1>1. at[t].arg \in VM!Modes /\ at[t].arg \in Args
  BY DEF TypeInv, AtTyped, ArgOf, Notify, On, Args
<1>2. AtTyped' /\ GoesOn(t, IF at[t].arg = "Run" THEN "accepted" ELSE "zero", at[t].arg,
                         at[t].val)
  BY <1>1, GotoType DEF Places, TypeInv, Notify
<1>3. TypeOK' BY <1>1 DEF Notify, TypeInv, TypeOK
<1>4. QED BY <1>2, <1>3 DEF Moves, TypeInv

LEMMA TickMoves ==
    ASSUME TypeInv, UNCHANGED platform, "tick" \in Threads, Tick
    PROVE  \/ /\ spdMode # "Run" /\ speed # 0
              /\ Moves("tick", "zero", "stop", at["tick"].val)
           \/ /\ spdMode # "Run" /\ speed = 0
              /\ Moves("tick", "publish", "stop", at["tick"].val)
           \/ /\ spdMode = "Run"
              /\ Moves("tick", "sample", "drive", at["tick"].val)
<1>1. TypeOK' BY DEF Tick, TypeInv, TypeOK, simVars
<1>2. "stop" \in Args /\ "drive" \in Args BY DEF Args
<1>3. AtTyped BY DEF TypeInv
<1>4. CASE spdMode # "Run" /\ speed # 0
  BY <1>1, <1>2, <1>3, <1>4, GotoType DEF Tick, Places, Moves, TypeInv
<1>5. CASE spdMode # "Run" /\ speed = 0
  BY <1>1, <1>2, <1>3, <1>5, GotoType DEF Tick, Places, Moves, TypeInv
<1>6. CASE spdMode = "Run"
  BY <1>1, <1>2, <1>3, <1>6, GotoType DEF Tick, Places, Moves, TypeInv
<1>7. QED BY <1>4, <1>5, <1>6

LEMMA SampleMoves ==
    ASSUME TypeInv, UNCHANGED platform, "tick" \in Threads,
           NEW v \in Speeds, Sample(v)
    PROVE  Moves("tick", "compare", at["tick"].arg, v)
<1>1. TypeOK' BY DEF Sample, TypeInv, TypeOK
<1>2. AtTyped' /\ GoesOn("tick", "compare", at["tick"].arg, v)
  BY GotoWithType DEF Sample, Places, TypeInv
<1>3. QED BY <1>1, <1>2 DEF Moves, TypeInv

LEMMA SampleFailsMoves ==
    ASSUME TypeInv, UNCHANGED platform, "tick" \in Threads, SampleFails
    PROVE  Moves("tick", "idle", "none", 0)
<1>1. TypeOK' BY DEF SampleFails, TypeInv, TypeOK, simVars
<1>2. AtTyped' /\ GoesOn("tick", "idle", "none", 0) BY RestsType DEF SampleFails, TypeInv
<1>3. QED BY <1>1, <1>2 DEF Moves, TypeInv

LEMMA ZeroMoves ==
    ASSUME TypeInv, UNCHANGED platform, NEW t \in Threads, Zero(t)
    PROVE  Moves(t, IF t = "tick" THEN "send" ELSE "compare", at[t].arg, 0)
<1>1. TypeOK' BY ZeroIsASpeed DEF Zero, TypeInv, TypeOK
<1>2. AtTyped' /\ GoesOn(t, IF t = "tick" THEN "send" ELSE "compare", at[t].arg, 0)
  BY GotoWithType, ZeroIsASpeed DEF Zero, Places, TypeInv
<1>3. QED BY <1>1, <1>2 DEF Moves, TypeInv

(* What a thread sees, sends and remembers is a speed. *)
LEMMA SeenType ==
    ASSUME TypeInv, NEW t \in Threads
    PROVE  Seen(t) \subseteq Speeds /\ Payload(t) \subseteq Speeds /\ Sent(t) \in Speeds
<1>1. speed \in Speeds /\ at[t].val \in Speeds BY DEF TypeInv, TypeOK, AtTyped, Frames
<1>2. QED BY <1>1, ZeroIsASpeed DEF Seen, Payload, Sent

LEMMA CompareMoves ==
    ASSUME TypeInv, UNCHANGED platform, NEW t \in Threads, Compare(t)
    PROVE  \E v \in Seen(t) :
              Moves(t, IF v # lastSent THEN "send" ELSE "publish", at[t].arg, v)
<1>1. TypeOK' BY DEF Compare, TypeInv, TypeOK, simVars
<1>2. PICK v \in Seen(t) : GotoWith(t, IF v # lastSent THEN "send" ELSE "publish", v)
  BY DEF Compare
<1>3. v \in Speeds BY SeenType
<1>4. AtTyped' /\ GoesOn(t, IF v # lastSent THEN "send" ELSE "publish", at[t].arg, v)
  BY <1>2, <1>3, GotoWithType DEF Places, TypeInv
<1>5. QED BY <1>1, <1>4 DEF Moves, TypeInv

LEMMA SendMoves ==
    ASSUME TypeInv, UNCHANGED platform, NEW t \in Threads, Send(t)
    PROVE  Moves(t, "remember", at[t].arg, speedEvent')
<1>1. speedEvent' \in Speeds BY SeenType DEF Send
<1>2. TypeOK' BY <1>1 DEF Send, TypeInv, TypeOK
<1>3. AtTyped' /\ GoesOn(t, "remember", at[t].arg, speedEvent')
  BY <1>1, GotoWithType DEF Send, Places, TypeInv
<1>4. QED BY <1>2, <1>3 DEF Moves, TypeInv

LEMMA RememberMoves ==
    ASSUME TypeInv, UNCHANGED platform, NEW t \in Threads, Remember(t)
    PROVE  Moves(t, "publish", at[t].arg, Sent(t))
<1>1. Sent(t) \in Speeds BY SeenType
<1>2. TypeOK' BY <1>1 DEF Remember, TypeInv, TypeOK
<1>3. AtTyped' /\ GoesOn(t, "publish", at[t].arg, Sent(t))
  BY <1>1, GotoWithType DEF Remember, Places, TypeInv
<1>4. QED BY <1>2, <1>3 DEF Moves, TypeInv

LEMMA PublishMoves ==
    ASSUME TypeInv, UNCHANGED platform, NEW t \in Threads, Publish(t)
    PROVE  IF t = "tick" THEN Moves(t, "idle", "none", 0)
                         ELSE Moves(t, "accepted", at[t].arg, 0)
<1>1. TypeOK' BY SeenType DEF Publish, TypeInv, TypeOK, simVars
<1>2. CASE t = "tick"
  <2>1. AtTyped' /\ GoesOn(t, "idle", "none", 0)
    BY <1>2, RestsType DEF Publish, TypeInv
  <2>2. QED BY <1>1, <1>2, <2>1 DEF Moves, TypeInv
<1>3. CASE t # "tick"
  <2> DEFINE f == [Idle EXCEPT !.pc = "accepted", !.arg = at[t].arg]
  <2>1. at \in [Threads -> Frames] /\ Threads' = Threads BY DEF TypeInv, AtTyped, Threads
  <2>2. f.pc = "accepted" /\ f.arg = at[t].arg /\ f.val = 0 BY DEF Idle
  <2>3. f \in Frames /\ ArgOf(f)
    <3>1. at[t].arg \in Args BY <2>1 DEF Frames
    <3>2. f \in Frames BY <3>1, IdleType DEF Frames, Places
    <3>3. QED BY <2>2, <3>2 DEF ArgOf
  <2>4. at' = [at EXCEPT ![t] = f] BY <1>3 DEF Publish
  <2>5. AtTyped'
    <3>1. at' \in [Threads -> Frames] BY <2>1, <2>3, <2>4
    <3>2. \A u \in Threads : at'[u] = f \/ at'[u] = at[u] BY <2>1, <2>4
    <3>3. \A u \in Threads : ArgOf(at'[u]) BY <2>3, <3>2, Zenon DEF TypeInv, AtTyped
    <3>4. QED BY <2>1, <3>1, <3>3, Zenon DEF AtTyped
  <2>6. GoesOn(t, "accepted", at[t].arg, 0) BY <2>1, <2>2, <2>4 DEF GoesOn
  <2>7. QED BY <1>1, <1>3, <2>5, <2>6 DEF Moves, TypeInv
<1>4. QED BY <1>2, <1>3

LEMMA RequestMoves ==
    ASSUME TypeInv, UNCHANGED platform, "rx" \in Threads, NEW arg,
           NEW pc \in {"setMode", "lock"},
           pc = "setMode" => arg \in VM!Modes, pc = "lock" => arg \in {"Locked", "Unlocked"},
           Request(pc, arg)
    PROVE  Moves("rx", pc, arg, at["rx"].val)
<1>1. TypeOK' BY DEF Request, TypeInv, TypeOK, simVars
<1>2. arg \in Args BY DEF Args
<1>3. AtTyped' /\ GoesOn("rx", pc, arg, at["rx"].val)
  BY <1>2, GotoType DEF Request, Places, TypeInv
<1>4. QED BY <1>1, <1>3 DEF Moves, TypeInv

LEMMA LockChecksMoves ==
    ASSUME TypeInv, UNCHANGED platform, "rx" \in Threads, LockChecks
    PROVE  /\ \E pc \in {"actuate", "accepted", "refused"} :
                 /\ Moves("rx", pc, at["rx"].arg, at["rx"].val)
                 /\ pc = "actuate" => busSpeed <= 5
<1>1. TypeOK' BY DEF LockChecks, TypeInv, TypeOK, simVars
<1>2. at["rx"].arg \in {"Locked", "Unlocked"} /\ at["rx"].arg \in Args
  BY DEF TypeInv, AtTyped, ArgOf, LockChecks, On, Args
<1>3. PICK pc \in {"actuate", "accepted", "refused"} :
          Goto("rx", pc, at["rx"].arg) /\ (pc = "actuate" => busSpeed <= 5)
  BY DEF LockChecks
<1>4. AtTyped' /\ GoesOn("rx", pc, at["rx"].arg, at["rx"].val)
  BY <1>2, <1>3, GotoType DEF Places, TypeInv
<1>5. QED BY <1>1, <1>3, <1>4 DEF Moves, TypeInv

LEMMA LockActsMoves ==
    ASSUME TypeInv, UNCHANGED platform, "rx" \in Threads, LockActs
    PROVE  Moves("rx", "accepted", at["rx"].arg, at["rx"].val)
<1>1. at["rx"].arg \in {"Locked", "Unlocked"} /\ at["rx"].arg \in Args
  BY DEF TypeInv, AtTyped, ArgOf, LockActs, On, Args
<1>2. TypeOK' BY <1>1 DEF LockActs, TypeInv, TypeOK, simVars
<1>3. AtTyped' /\ GoesOn("rx", "accepted", at["rx"].arg, at["rx"].val)
  BY <1>1, GotoType DEF LockActs, Places, TypeInv
<1>4. QED BY <1>2, <1>3 DEF Moves, TypeInv

LEMMA DoneMoves ==
    ASSUME TypeInv, UNCHANGED platform,
           \/ "rx" \in Threads /\ RequestDone
           \/ "button" \in Threads /\ ButtonDone
           \/ "crank" \in Threads /\ CrankDone
    PROVE  \E t \in {"rx", "button", "crank"} \cap Threads :
              /\ On(t, "accepted") \/ On(t, "refused")
              /\ Moves(t, "idle", "none", 0)
              /\ UNCHANGED <<mode, lockState, simVars, busSpeed>>
<1>1. PICK t \in {"rx", "button", "crank"} \cap Threads :
          /\ On(t, "accepted") \/ On(t, "refused")
          /\ at' = [at EXCEPT ![t] = Idle]
  BY DEF RequestDone, ButtonDone, CrankDone
<1>2. UNCHANGED <<mode, lockState, simVars, busSpeed>>
  BY DEF RequestDone, ButtonDone, CrankDone
<1>3. cranking' \in BOOLEAN /\ crankTimer' \in BOOLEAN
  BY DEF RequestDone, ButtonDone, CrankDone, TypeInv, TypeOK
<1>4. TypeOK' BY <1>2, <1>3 DEF TypeInv, TypeOK, simVars
<1>5. AtTyped' /\ GoesOn(t, "idle", "none", 0) BY <1>1, RestsType DEF TypeInv
<1>6. QED BY <1>1, <1>2, <1>4, <1>5 DEF Moves, TypeInv

LEMMA ModeRequestMoves ==
    ASSUME TypeInv, UNCHANGED platform,
           \/ "button" \in Threads /\ ButtonPress
           \/ "crank" \in Threads /\ CrankTimer
    PROVE  \E t \in {"button", "crank"} \cap Threads, new \in VM!Modes :
              /\ On(t, "idle")
              /\ Moves(t, "setMode", new, at[t].val)
              /\ UNCHANGED <<mode, lockState, simVars, busSpeed>>
<1>1. {"Run", "Crank", "Accessory"} \subseteq VM!Modes BY DEF VM!Modes
<1>2. PICK t \in {"button", "crank"} \cap Threads, new \in VM!Modes :
          On(t, "idle") /\ Goto(t, "setMode", new)
  BY <1>1 DEF ButtonPress, CrankTimer
<1>3. UNCHANGED <<mode, lockState, simVars, busSpeed>> BY DEF ButtonPress, CrankTimer
<1>4. cranking' \in BOOLEAN /\ crankTimer' \in BOOLEAN
  BY DEF ButtonPress, CrankTimer, TypeInv, TypeOK
<1>5. TypeOK' BY <1>3, <1>4 DEF TypeInv, TypeOK, simVars
<1>6. new \in Args BY DEF Args
<1>7. AtTyped' /\ GoesOn(t, "setMode", new, at[t].val)
  BY <1>2, <1>6, GotoType DEF Places, TypeInv
<1>8. QED BY <1>2, <1>3, <1>5, <1>7 DEF Moves, TypeInv

-----------------------------------------------------------------------------
(* Where handlers run through. *)

(* The speed, on the bus and with the subscribers. *)
SpeedKnown ==
    /\ speedEvent = speed /\ lastSent = speed
    /\ busSpeed = speed

Standing == spdMode # "Run" => speed = 0

Rested == spdMode = mode /\ SpeedKnown /\ Standing

(* How far the handler in thread t has got, and what is not as it will be yet. *)
StateOf(t) ==
    LET f == at[t]
        In(pcs) == f.pc \in pcs
        moving == f.arg = "drive" IN
    /\ In({"idle", "setMode", "lock", "actuate", "sample", "store", "accepted", "refused"})
            => Rested
    /\ In({"actuate"}) => busSpeed <= 5
    /\ In({"sample"}) => mode = "Run" /\ moving
    /\ In({"store"}) => f.arg # mode
    /\ In({"autoLock", "autoActuate"}) =>
            f.arg = "Run" /\ mode = "Run" /\ spdMode # "Run" /\ SpeedKnown /\ Standing
    /\ In({"notify"}) =>
            /\ f.arg = mode /\ SpeedKnown /\ Standing
            /\ mode = "Run" => spdMode # "Run" /\ lockState = "Locked"
    /\ In({"setMode", "store", "autoLock", "autoActuate", "notify", "zero"}) => t # "tick"
    /\ In({"zero"}) => ~moving /\ spdMode = mode /\ mode # "Run" /\ SpeedKnown
    /\ In({"compare", "send", "remember", "publish"}) =>
            spdMode = mode /\ Standing /\ (moving \/ speed = 0)
    /\ In({"compare"}) => speedEvent = lastSent
    /\ In({"compare", "send", "remember"}) => f.val = speed
    /\ In({"remember"}) => speedEvent = speed
    /\ In({"publish"}) => /\ speedEvent = speed /\ lastSent = speed
                          /\ moving => f.val = speed

OthersIdle(t) == \A u \in Threads \ {t} : at[u] = Idle

CoopInv == Cooperative => \E t \in Threads : OthersIdle(t) /\ StateOf(t)

(* What the two action properties say of a step. *)
SafeStep ==
    /\ lockState' # lockState => speed <= 5
    /\ spdMode # "Run" /\ spdMode' = "Run" => lockState = "Locked"

(* Whose turn it is. *)
LEMMA TurnOf ==
    ASSUME TypeInv, CoopInv, Cooperative, NEW t \in Threads, NEW pc, On(t, pc)
    PROVE  OthersIdle(t) /\ StateOf(t)
<1>1. OthersIdle(t) BY DEF On, MayRun, OthersIdle
<1>2. PICK u \in Threads : OthersIdle(u) /\ StateOf(u) BY DEF CoopInv
<1>3. CASE u = t BY <1>1, <1>2, <1>3
<1>4. CASE u # t
  <2>1. at[t] = Idle /\ at[u] = Idle BY <1>1, <1>2, <1>4 DEF OthersIdle
  <2>2. Rested BY <1>2, <2>1 DEF StateOf, Idle
  <2>3. StateOf(t) BY <2>1, <2>2 DEF StateOf, Idle
  <2>4. QED BY <1>1, <2>3
<1>5. QED BY <1>3, <1>4

LEMMA StillAlone ==
    ASSUME UNCHANGED platform, NEW t \in Threads, OthersIdle(t),
           NEW pc, NEW arg, NEW v, GoesOn(t, pc, arg, v), StateOf(t)'
    PROVE  CoopInv'
<1>1. Threads' = Threads BY DEF Threads
<1>2. OthersIdle(t)' BY <1>1 DEF OthersIdle, GoesOn, Idle
<1>3. QED BY <1>1, <1>2 DEF CoopInv

(* The steps, each with what it leaves true. *)

LEMMA CheckCoop ==
    ASSUME TypeInv, CoopInv, Cooperative, UNCHANGED platform, NEW t \in Threads, Check(t)
    PROVE  CoopInv' /\ SafeStep
<1>1. OthersIdle(t) /\ StateOf(t) BY TurnOf DEF Check
<1>2. PICK pc \in {"store", "accepted", "refused"} :
          Moves(t, pc, at[t].arg, at[t].val) /\ (pc = "store" => at[t].arg # mode)
  BY CheckMoves
<1>3. StateOf(t)'
  BY <1>1, <1>2 DEF Check, StateOf, Moves, GoesOn, On, Rested, SpeedKnown, Standing, simVars
<1>4. SafeStep
  BY <1>1, <1>2 DEF Check, StateOf, Moves, GoesOn, On, Rested, SpeedKnown, Standing, simVars,
         SafeStep
<1>5. QED BY <1>1, <1>2, <1>3, <1>4, StillAlone, Zenon DEF Moves

LEMMA StoreCoop ==
    ASSUME TypeInv, CoopInv, Cooperative, UNCHANGED platform, NEW t \in Threads, Store(t)
    PROVE  CoopInv' /\ SafeStep
<1>1. OthersIdle(t) /\ StateOf(t) BY TurnOf DEF Store
<1>2. Moves(t, IF at[t].arg = "Run" THEN "autoLock" ELSE "notify", at[t].arg, at[t].val)
  BY StoreMoves
<1>3. StateOf(t)'
  BY <1>1, <1>2 DEF Store, StateOf, Moves, GoesOn, On, Rested, SpeedKnown, Standing, simVars
<1>4. SafeStep
  BY <1>1, <1>2 DEF Store, StateOf, Moves, GoesOn, On, Rested, SpeedKnown, Standing, simVars,
         SafeStep
<1>5. QED BY <1>1, <1>2, <1>3, <1>4, StillAlone, Zenon DEF Moves

LEMMA AutoLockCoop ==
    ASSUME TypeInv, CoopInv, Cooperative, UNCHANGED platform, NEW t \in Threads, AutoLock(t)
    PROVE  CoopInv' /\ SafeStep
<1>1. OthersIdle(t) /\ StateOf(t) BY TurnOf DEF AutoLock
<1>2. Moves(t, IF lockState # "Locked" /\ busSpeed <= 5 THEN "autoActuate" ELSE "notify",
           "Run", at[t].val)
  BY AutoLockMoves
<1>3. StateOf(t)'
  BY <1>1, <1>2 DEF AutoLock, StateOf, Moves, GoesOn, On, Rested, SpeedKnown, Standing, simVars
<1>4. SafeStep
  BY <1>1, <1>2 DEF AutoLock, StateOf, Moves, GoesOn, On, Rested, SpeedKnown, Standing,
         simVars, SafeStep
<1>5. QED BY <1>1, <1>2, <1>3, <1>4, StillAlone, Zenon DEF Moves

LEMMA AutoActuateCoop ==
    ASSUME TypeInv, CoopInv, Cooperative, UNCHANGED platform, NEW t \in Threads, AutoActuate(t)
    PROVE  CoopInv' /\ SafeStep
<1>1. OthersIdle(t) /\ StateOf(t) BY TurnOf DEF AutoActuate
<1>2. Moves(t, "notify", "Run", at[t].val) BY AutoActuateMoves
<1>3. StateOf(t)'
  BY <1>1, <1>2 DEF AutoActuate, StateOf, Moves, GoesOn, On, Rested, SpeedKnown, Standing, simVars
<1>4. SafeStep
  BY <1>1, <1>2 DEF AutoActuate, StateOf, Moves, GoesOn, On, Rested, SpeedKnown, Standing,
         simVars, SafeStep
<1>5. QED BY <1>1, <1>2, <1>3, <1>4, StillAlone, Zenon DEF Moves

LEMMA NotifyCoop ==
    ASSUME TypeInv, CoopInv, Cooperative, UNCHANGED platform, NEW t \in Threads, Notify(t)
    PROVE  CoopInv' /\ SafeStep
<1>1. OthersIdle(t) /\ StateOf(t) BY TurnOf DEF Notify
<1>2. Moves(t, IF at[t].arg = "Run" THEN "accepted" ELSE "zero", at[t].arg, at[t].val)
  BY NotifyMoves
<1>. mode # "drive" BY DEF TypeInv, TypeOK, VM!Modes
<1>3. StateOf(t)'
  BY <1>1, <1>2 DEF Notify, StateOf, Moves, GoesOn, On, Rested, SpeedKnown, Standing, simVars
<1>4. SafeStep
  BY <1>1, <1>2 DEF Notify, StateOf, Moves, GoesOn, On, Rested, SpeedKnown, Standing, simVars,
         SafeStep
<1>5. QED BY <1>1, <1>2, <1>3, <1>4, StillAlone, Zenon DEF Moves

LEMMA ZeroCoop ==
    ASSUME TypeInv, CoopInv, Cooperative, UNCHANGED platform, NEW t \in Threads, Zero(t)
    PROVE  CoopInv' /\ SafeStep
<1>1. OthersIdle(t) /\ StateOf(t) BY TurnOf DEF Zero
<1>2. Moves(t, IF t = "tick" THEN "send" ELSE "compare", at[t].arg, 0) BY ZeroMoves
<1>3. StateOf(t)'
  BY <1>1, <1>2 DEF Zero, StateOf, Moves, GoesOn, On, Rested, SpeedKnown, Standing, simVars
<1>4. SafeStep
  BY <1>1, <1>2 DEF Zero, StateOf, Moves, GoesOn, On, Rested, SpeedKnown, Standing, simVars,
         SafeStep
<1>5. QED BY <1>1, <1>2, <1>3, <1>4, StillAlone, Zenon DEF Moves

LEMMA CompareCoop ==
    ASSUME TypeInv, CoopInv, Cooperative, UNCHANGED platform, NEW t \in Threads, Compare(t)
    PROVE  CoopInv' /\ SafeStep
<1>1. OthersIdle(t) /\ StateOf(t) BY TurnOf DEF Compare
<1>2. PICK v \in Seen(t) :
         Moves(t, IF v # lastSent THEN "send" ELSE "publish", at[t].arg, v)
  BY CompareMoves
<1>3. StateOf(t)'
  BY <1>1, <1>2 DEF Compare, StateOf, Moves, GoesOn, On, Rested, SpeedKnown, Standing,
         simVars, Seen
<1>4. SafeStep
  BY <1>1, <1>2 DEF Compare, StateOf, Moves, GoesOn, On, Rested, SpeedKnown, Standing,
         simVars, Seen, SafeStep
<1>5. QED BY <1>1, <1>2, <1>3, <1>4, StillAlone, Zenon DEF Moves

LEMMA SendCoop ==
    ASSUME TypeInv, CoopInv, Cooperative, UNCHANGED platform, NEW t \in Threads, Send(t)
    PROVE  CoopInv' /\ SafeStep
<1>1. OthersIdle(t) /\ StateOf(t) BY TurnOf DEF Send
<1>2. Moves(t, "remember", at[t].arg, speedEvent') BY SendMoves
<1>3. StateOf(t)'
  BY <1>1, <1>2 DEF Send, StateOf, Moves, GoesOn, On, Rested, SpeedKnown, Standing, simVars,
         Seen, Payload, Driving
<1>4. SafeStep
  BY <1>1, <1>2 DEF Send, StateOf, Moves, GoesOn, On, Rested, SpeedKnown, Standing, simVars,
         Seen, Payload, Driving, SafeStep
<1>5. QED BY <1>1, <1>2, <1>3, <1>4, StillAlone, Zenon DEF Moves

LEMMA RememberCoop ==
    ASSUME TypeInv, CoopInv, Cooperative, UNCHANGED platform, NEW t \in Threads, Remember(t)
    PROVE  CoopInv' /\ SafeStep
<1>1. OthersIdle(t) /\ StateOf(t) BY TurnOf DEF Remember
<1>2. Moves(t, "publish", at[t].arg, Sent(t)) BY RememberMoves
<1>3. StateOf(t)'
  BY <1>1, <1>2 DEF Remember, StateOf, Moves, GoesOn, On, Rested, SpeedKnown, Standing,
         simVars, Sent, Driving
<1>4. SafeStep
  BY <1>1, <1>2 DEF Remember, StateOf, Moves, GoesOn, On, Rested, SpeedKnown, Standing,
         simVars, Sent, Driving, SafeStep
<1>5. QED BY <1>1, <1>2, <1>3, <1>4, StillAlone, Zenon DEF Moves

LEMMA TickCoop ==
    ASSUME TypeInv, CoopInv, Cooperative, UNCHANGED platform, "tick" \in Threads, Tick
    PROVE  CoopInv' /\ SafeStep
<1>1. OthersIdle("tick") /\ StateOf("tick") BY TurnOf DEF Tick
<1>2. Rested BY <1>1 DEF StateOf, Tick, On
<1>3. CASE spdMode # "Run" /\ speed = 0 /\ Moves("tick", "publish", "stop", at["tick"].val)
  <2>1. StateOf("tick")'
    BY <1>2, <1>3 DEF Tick, StateOf, Moves, GoesOn, On, Rested, SpeedKnown, Standing, simVars
  <2>2. QED BY <1>1, <1>3, <2>1, StillAlone DEF Moves, Tick, SafeStep, simVars
<1>4. CASE spdMode = "Run" /\ Moves("tick", "sample", "drive", at["tick"].val)
  <2>1. StateOf("tick")'
    BY <1>2, <1>4 DEF Tick, StateOf, Moves, GoesOn, On, Rested, SpeedKnown, Standing, simVars
  <2>2. QED BY <1>1, <1>4, <2>1, StillAlone DEF Moves, Tick, SafeStep, simVars
<1>5. QED BY <1>2, <1>3, <1>4, TickMoves DEF Rested, Standing

LEMMA SampleCoop ==
    ASSUME TypeInv, CoopInv, Cooperative, UNCHANGED platform, "tick" \in Threads,
           NEW v \in Speeds, Sample(v)
    PROVE  CoopInv' /\ SafeStep
<1>1. OthersIdle("tick") /\ StateOf("tick") BY TurnOf DEF Sample
<1>2. Moves("tick", "compare", at["tick"].arg, v) BY SampleMoves
<1>3. StateOf("tick")'
  BY <1>1, <1>2 DEF Sample, StateOf, Moves, GoesOn, On, Rested, SpeedKnown, Standing, simVars
<1>4. SafeStep
  BY <1>1, <1>2 DEF Sample, StateOf, Moves, GoesOn, On, Rested, SpeedKnown, Standing, simVars,
         SafeStep
<1>5. QED BY <1>1, <1>2, <1>3, <1>4, StillAlone, Zenon DEF Moves

LEMMA SampleFailsCoop ==
    ASSUME TypeInv, CoopInv, Cooperative, UNCHANGED platform, "tick" \in Threads, SampleFails
    PROVE  CoopInv' /\ SafeStep
<1>1. OthersIdle("tick") /\ StateOf("tick") BY TurnOf DEF SampleFails
<1>2. Moves("tick", "idle", "none", 0) BY SampleFailsMoves
<1>3. StateOf("tick")'
  BY <1>1, <1>2 DEF SampleFails, StateOf, Moves, GoesOn, On, Rested, SpeedKnown, Standing, simVars
<1>4. SafeStep
  BY <1>1, <1>2 DEF SampleFails, StateOf, Moves, GoesOn, On, Rested, SpeedKnown, Standing,
         simVars, SafeStep
<1>5. QED BY <1>1, <1>2, <1>3, <1>4, StillAlone, Zenon DEF Moves

LEMMA LockChecksCoop ==
    ASSUME TypeInv, CoopInv, Cooperative, UNCHANGED platform, "rx" \in Threads, LockChecks
    PROVE  CoopInv' /\ SafeStep
<1>1. OthersIdle("rx") /\ StateOf("rx") BY TurnOf DEF LockChecks
<1>2. PICK pc \in {"actuate", "accepted", "refused"} :
           /\ Moves("rx", pc, at["rx"].arg, at["rx"].val)
           /\ pc = "actuate" => busSpeed <= 5
  BY LockChecksMoves
<1>3. StateOf("rx")'
  BY <1>1, <1>2 DEF LockChecks, StateOf, Moves, GoesOn, On, Rested, SpeedKnown, Standing, simVars
<1>4. SafeStep
  BY <1>1, <1>2 DEF LockChecks, StateOf, Moves, GoesOn, On, Rested, SpeedKnown, Standing,
         simVars, SafeStep
<1>5. QED BY <1>1, <1>2, <1>3, <1>4, StillAlone, Zenon DEF Moves

LEMMA LockActsCoop ==
    ASSUME TypeInv, CoopInv, Cooperative, UNCHANGED platform, "rx" \in Threads, LockActs
    PROVE  CoopInv' /\ SafeStep
<1>1. OthersIdle("rx") /\ StateOf("rx") BY TurnOf DEF LockActs
<1>2. Moves("rx", "accepted", at["rx"].arg, at["rx"].val) BY LockActsMoves
<1>3. StateOf("rx")'
  BY <1>1, <1>2 DEF LockActs, StateOf, Moves, GoesOn, On, Rested, SpeedKnown, Standing, simVars
<1>4. SafeStep
  BY <1>1, <1>2 DEF LockActs, StateOf, Moves, GoesOn, On, Rested, SpeedKnown, Standing,
         simVars, SafeStep
<1>5. QED BY <1>1, <1>2, <1>3, <1>4, StillAlone, Zenon DEF Moves

LEMMA PublishCoop ==
    ASSUME TypeInv, CoopInv, Cooperative, UNCHANGED platform, NEW t \in Threads, Publish(t)
    PROVE  CoopInv' /\ SafeStep
<1>1. OthersIdle(t) /\ StateOf(t) BY TurnOf DEF Publish
<1>2. PICK pc \in {"idle", "accepted"}, arg \in {"none", at[t].arg} : Moves(t, pc, arg, 0)
  BY PublishMoves
<1>3. busSpeed' = speed
  BY <1>1 DEF Publish, StateOf, On, Standing, Payload, Driving, Seen
<1>4. StateOf(t)'
  BY <1>1, <1>2, <1>3
  DEF Publish, StateOf, Moves, GoesOn, On, Rested, SpeedKnown, Standing, simVars
<1>5. SafeStep BY DEF Publish, SafeStep, simVars
<1>6. QED BY <1>1, <1>2, <1>4, <1>5, StillAlone, Zenon DEF Moves

LEMMA RequestCoop ==
    ASSUME TypeInv, CoopInv, Cooperative, UNCHANGED platform, "rx" \in Threads,
           \/ \E new \in VM!Modes : Request("setMode", new)
           \/ \E want \in {"Locked", "Unlocked"} : Request("lock", want)
    PROVE  CoopInv' /\ SafeStep
<1>1. PICK pc \in {"setMode", "lock"}, arg \in VM!Modes \cup {"Locked", "Unlocked"} :
          /\ Request(pc, arg)
          /\ pc = "setMode" => arg \in VM!Modes
          /\ pc = "lock" => arg \in {"Locked", "Unlocked"}
  OBVIOUS
<1>2. OthersIdle("rx") /\ StateOf("rx") BY <1>1, TurnOf DEF Request
<1>3. Moves("rx", pc, arg, at["rx"].val) BY <1>1, RequestMoves
<1>4. StateOf("rx")'
  BY <1>1, <1>2, <1>3
  DEF Request, StateOf, Moves, GoesOn, On, Rested, SpeedKnown, Standing, simVars
<1>5. SafeStep BY <1>1 DEF Request, SafeStep, simVars
<1>6. QED BY <1>2, <1>3, <1>4, <1>5, StillAlone DEF Moves

LEMMA DoneCoop ==
    ASSUME TypeInv, CoopInv, Cooperative, UNCHANGED platform,
           \/ "rx" \in Threads /\ RequestDone
           \/ "button" \in Threads /\ (ButtonDone \/ ButtonPress)
           \/ "crank" \in Threads /\ (CrankDone \/ CrankTimer)
    PROVE  CoopInv' /\ SafeStep
<1>1. PICK t \in {"rx", "button", "crank"} \cap Threads, pc \in {"idle", "setMode"},
           arg \in Args, v \in Speeds :
          /\ \E from \in {"accepted", "refused", "idle"} : On(t, from)
          /\ Moves(t, pc, arg, v)
          /\ UNCHANGED <<mode, lockState, simVars, busSpeed>>
  <2>1. "none" \in Args /\ VM!Modes \subseteq Args BY DEF Args
  <2>2. \A t \in Threads : at[t].val \in Speeds BY DEF TypeInv, AtTyped, Frames
  <2>3. QED BY <2>1, <2>2, ZeroIsASpeed, DoneMoves, ModeRequestMoves
<1>2. OthersIdle(t) /\ StateOf(t) BY <1>1, TurnOf
<1>3. StateOf(t)'
  BY <1>1, <1>2 DEF StateOf, Moves, GoesOn, On, Rested, SpeedKnown, Standing, simVars
<1>4. SafeStep BY <1>1 DEF SafeStep, simVars
<1>5. QED BY <1>1, <1>2, <1>3, <1>4, StillAlone DEF Moves

-----------------------------------------------------------------------------
(* All of it. *)

LEMMA ThreadsInit == Init => TypeInv /\ CoopInv
<1> SUFFICES ASSUME Init PROVE TypeInv /\ CoopInv
  OBVIOUS
<1>1. TypeOK BY ZeroIsASpeed DEF Init, TypeOK, VM!Modes
<1>2. AtTyped BY IdleType DEF Init, AtTyped
<1>3. "rx" \in Threads /\ \A t \in Threads : at[t] = Idle BY DEF Init, Threads
<1>4. Rested BY DEF Init, Rested, SpeedKnown, Standing
<1>5. OthersIdle("rx") /\ StateOf("rx") BY <1>3, <1>4 DEF OthersIdle, StateOf, Idle
<1>6. QED BY <1>1, <1>2, <1>3, <1>5 DEF TypeInv, CoopInv

LEMMA StepMoves ==
    ASSUME TypeInv, Next
    PROVE  TypeInv'
<1>0. UNCHANGED platform BY DEF Next
<1>1. ASSUME NEW t \in Threads, SetModeStep(t) PROVE TypeInv'
  BY <1>0, <1>1, CheckMoves, StoreMoves, AutoLockMoves, AutoActuateMoves, NotifyMoves, ZeroMoves,
     CompareMoves, SendMoves, RememberMoves, PublishMoves, Zenon DEF SetModeStep, Moves
<1>2. CASE TickStep
  <2>1. "tick" \in Threads BY <1>2 DEF TickStep, Tick, Sample, SampleFails, Zero, Compare, Send,
      Remember, Publish, On
  <2>2. QED BY <1>0, <1>2, <2>1, TickMoves, SampleMoves, SampleFailsMoves, ZeroMoves,
     CompareMoves, SendMoves, RememberMoves, PublishMoves, Zenon DEF TickStep, Moves
<1>3. "rx" \in Threads BY DEF Threads
<1>4. CASE LockChecks \/ LockActs \/ RequestDone
  BY <1>0, <1>3, <1>4, LockChecksMoves, LockActsMoves, DoneMoves DEF Moves
<1>5. ASSUME \/ \E new \in VM!Modes : Request("setMode", new)
             \/ \E want \in {"Locked", "Unlocked"} : Request("lock", want)
      PROVE  TypeInv'
  BY <1>0, <1>3, <1>5, RequestMoves DEF Moves
<1>6. CASE ButtonPress \/ ButtonDone
  <2>1. "button" \in Threads BY <1>6 DEF ButtonPress, ButtonDone, On
  <2>2. QED BY <1>0, <1>6, <2>1, DoneMoves, ModeRequestMoves DEF Moves
<1>7. CASE CrankTimer \/ CrankDone
  <2>1. "crank" \in Threads BY <1>7 DEF CrankTimer, CrankDone, On
  <2>2. QED BY <1>0, <1>7, <2>1, DoneMoves, ModeRequestMoves DEF Moves
<1>8. ASSUME NEW t, SetModeStep(t) PROVE t \in Threads
  BY <1>8 DEF SetModeStep, Check, Store, AutoLock, AutoActuate, Notify, Zero, Compare, Send,
     Remember, Publish, On
<1>9. QED BY <1>1, <1>2, <1>3, <1>4, <1>5, <1>6, <1>7, <1>8, Zenon DEF Next, Step, RxStep

LEMMA StepCoop ==
    ASSUME TypeInv, CoopInv, Cooperative, Next
    PROVE  CoopInv' /\ SafeStep
<1>0. UNCHANGED platform BY DEF Next
<1>1. ASSUME NEW t \in Threads, SetModeStep(t) PROVE CoopInv' /\ SafeStep
  BY <1>0, <1>1, CheckCoop, StoreCoop, AutoLockCoop, AutoActuateCoop, NotifyCoop, ZeroCoop,
     CompareCoop, SendCoop, RememberCoop, PublishCoop, Zenon DEF SetModeStep
<1>2. CASE TickStep
  <2>1. "tick" \in Threads BY DEF Threads
  <2>2. QED BY <1>0, <1>2, <2>1, TickCoop, SampleCoop, SampleFailsCoop, ZeroCoop, CompareCoop,
     SendCoop, RememberCoop, PublishCoop, Zenon DEF TickStep
<1>3. {"rx", "button", "crank"} \subseteq Threads BY DEF Threads, Cooperative
<1>4. CASE LockChecks \/ LockActs
  BY <1>0, <1>3, <1>4, LockChecksCoop, LockActsCoop
<1>5. CASE RequestDone \/ ButtonPress \/ ButtonDone \/ CrankTimer \/ CrankDone
  BY <1>0, <1>3, <1>5, DoneCoop
<1>6. ASSUME \/ \E new \in VM!Modes : Request("setMode", new)
             \/ \E want \in {"Locked", "Unlocked"} : Request("lock", want)
      PROVE  CoopInv' /\ SafeStep
  BY <1>0, <1>3, <1>6, RequestCoop
<1>7. QED BY <1>1, <1>2, <1>3, <1>4, <1>5, <1>6, Zenon DEF Next, Step, RxStep

LEMMA ThreadsStep ==
    ASSUME TypeInv, CoopInv, [Next]_vars
    PROVE  /\ TypeInv' /\ CoopInv'
           /\ Cooperative => SafeStep
<1>1. CASE Next
  <2>1. Cooperative' = Cooperative BY <1>1 DEF Next, Cooperative
  <2>2. QED BY <1>1, <2>1, StepMoves, StepCoop DEF CoopInv
<1>2. CASE UNCHANGED vars
  <2>1. UNCHANGED <<platform, mode, lockState, spdMode, speed, lastSent, speedEvent, busSpeed,
                    cranking, crankTimer, at>>
    BY <1>2 DEF vars, simVars
  <2>2. TypeInv' BY <2>1 DEF TypeInv, TypeOK, AtTyped, Threads
  <2>3. CoopInv'
    BY SMTT(30), <2>1 DEF CoopInv, Cooperative, Threads, OthersIdle, StateOf, Rested, SpeedKnown, Standing
  <2>4. QED BY <2>1, <2>2, <2>3 DEF SafeStep
<1>3. QED BY <1>1, <1>2

(* The types, in either build. *)
THEOREM ThreadsTypeCorrect == Spec => []TypeOK
<1>1. TypeInv /\ CoopInv /\ [Next]_vars => (TypeInv /\ CoopInv)' BY ThreadsStep
<1>2. TypeInv => TypeOK BY DEF TypeInv
<1>3. QED BY <1>1, <1>2, ThreadsInit, PTL DEF Spec

(* On the board, whenever no handler is under way, the simulator has the mode,
   the vehicle stands outside Run, and the bus and the subscribers know its
   speed.                                                                     *)
THEOREM QuietAgreesAlways == Spec => []QuietAgrees
<1>1. TypeInv /\ CoopInv /\ [Next]_vars => (TypeInv /\ CoopInv)' BY ThreadsStep
<1>2. CoopInv => QuietAgrees
  <2> SUFFICES ASSUME CoopInv, Cooperative, \A t \in Threads : at[t] = Idle
               PROVE  /\ spdMode = mode
                      /\ mode # "Run" => speed = 0
                      /\ busSpeed = speed
                      /\ speedEvent = speed /\ lastSent = speed
    BY DEF QuietAgrees
  <2>1. PICK t \in Threads : StateOf(t) BY DEF CoopInv
  <2>2. Rested BY <2>1 DEF StateOf, Idle
  <2>3. QED BY <2>2 DEF Rested, SpeedKnown, Standing
<1>3. QED BY <1>1, <1>2, ThreadsInit, PTL DEF Spec

(* On the board the bolt moves at no more than 5 km/h: nothing changes the
   speed between the check of the bus and the act.                            *)
THEOREM MovesSlowAlways == Spec => MovesSlow
<1>1. TypeInv /\ CoopInv /\ [Next]_vars => (TypeInv /\ CoopInv)' BY ThreadsStep
<1>2. TypeInv /\ CoopInv /\ [Next]_vars => [Cooperative => speed <= 5]_lockState
  BY ThreadsStep DEF SafeStep
<1>3. QED BY <1>1, <1>2, ThreadsInit, PTL DEF Spec, MovesSlow

(* On the board the door was locked before the simulator hears of Run. *)
THEOREM RunEntersLockedOnBoard == Spec => RunEntersLocked
<1>1. TypeInv /\ CoopInv /\ [Next]_vars => (TypeInv /\ CoopInv)' BY ThreadsStep
<1>2. TypeInv /\ CoopInv /\ [Next]_vars
        => [Cooperative /\ spdMode # "Run" /\ spdMode' = "Run" => lockState = "Locked"]_vars
  BY ThreadsStep DEF SafeStep
<1>3. QED BY <1>1, <1>2, ThreadsInit, PTL DEF Spec, RunEntersLocked

=============================================================================
