----------------------------- MODULE TimerProofs -----------------------------
(* Theorems about both timer services, for any timers and any number of slots. *)
EXTENDS TimerPlatforms, FiniteSetTheorems, WellFoundedInduction, TLAPS

Live == {"periodic", "oneShot"}

-----------------------------------------------------------------------------
(* The service with slots. *)

SlotTypes ==
    /\ kind \in [Timers -> Live \cup {"none", "refused"}]
    /\ id \in [Timers -> Zephyr!Slots \cup {-1}]
    /\ \A t \in Timers : kind[t] \in Live => id[t] \in Zephyr!Slots
    /\ active \in [Zephyr!Slots -> BOOLEAN]
    /\ periodic \in [Zephyr!Slots -> BOOLEAN]
    /\ ticking \in [Zephyr!Slots -> BOOLEAN]
    /\ callback \in [Zephyr!Slots -> Timers \cup {"none"}]
    /\ queued \subseteq Zephyr!Slots
    /\ work \in Zephyr!Slots \cup {-1}
    /\ \A t \in ended : t \in Timers /\ kind[t] \in Live

(* A timer that can still fire has an active slot of its own, and an active
   slot is that of a timer that can still fire.                               *)
Owned ==
    /\ \A t \in Timers : kind[t] \in Live /\ t \notin ended =>
          active[id[t]] /\ callback[id[t]] = t
    /\ \A i \in Zephyr!Slots : active[i] =>
          /\ callback[i] \in Timers /\ callback[i] \notin ended
          /\ kind[callback[i]] \in Live /\ id[callback[i]] = i
          /\ periodic[i] = (kind[callback[i]] = "periodic")

(* Only an active slot's kernel timer ticks; a work item that waits is an
   active slot's, or finds no callback; a one-shot does only one thing at a
   time: tick, wait, run.                                                     *)
Served ==
    /\ \A i \in Zephyr!Slots : ticking[i] => active[i]
    /\ \A i \in Zephyr!Slots : i \in queued => active[i] \/ callback[i] = "none"
    /\ \A i \in Zephyr!Slots : ~periodic[i] =>
          /\ i \in queued \/ work = i => ~ticking[i]
          /\ i \in queued => work # i

(* The callback that runs is that of the slot's timer, which may have been
   cancelled meanwhile, but whose slot nobody else was given.                 *)
Serving ==
    /\ work = -1 => served = "none"
    /\ work # -1 =>
          /\ served \in Timers /\ kind[served] \in Live /\ id[served] = work
          /\ periodic[work] = (kind[served] = "periodic")
          /\ served \in ended <=> ~active[work]

SlotInv == SlotTypes /\ Owned /\ Served /\ Serving

LEMMA SlotInit == Zephyr!Init => SlotInv
  BY TimersAssumption
  DEF Zephyr!Init, SlotInv, SlotTypes, Owned, Served, Serving, Zephyr!Slots, Live

LEMMA FirstFree ==
    ASSUME NEW S, S \subseteq Zephyr!Slots, S # {}
    PROVE  Zephyr!First(S) \in S
<1>1. \E i \in S : \A j \in S : i <= j
  <2>1. S \subseteq Nat BY TimersAssumption DEF Zephyr!Slots
  <2>2. PICK i \in S : \A j \in S : <<j, i>> \notin OpToRel(<, Nat)
    BY <2>1, NatLessThanWellFounded, WFMin, Zenon
  <2>3. \A j \in S : ~(j < i)
    <3>1. \A j \in S : j < i => <<j, i>> \in OpToRel(<, Nat)
      BY <2>1 DEF OpToRel
    <3>2. QED BY <2>2, <3>1, Zenon
  <2>4. QED BY <2>1, <2>3
<1>2. QED BY <1>1 DEF Zephyr!First

(* A timer starts in a slot that was free.                                    *)
LEMMA StartTakes ==
    ASSUME NEW t \in Timers, NEW k \in Live, Zephyr!Start(t, k)
    PROVE  \E i \in Zephyr!Slots :
          /\ ~active[i]
          /\ kind' = [kind EXCEPT ![t] = k]
          /\ id' = [id EXCEPT ![t] = i]
          /\ active' = [active EXCEPT ![i] = TRUE]
          /\ periodic' = [periodic EXCEPT ![i] = k = "periodic"]
          /\ callback' = [callback EXCEPT ![i] = t]
          /\ ticking' = [ticking EXCEPT ![i] = TRUE]
          /\ sound' = (sound /\ i \notin queued /\ work # i)
<1>1. Zephyr!First(Zephyr!Free) \in Zephyr!Free
  BY FirstFree DEF Zephyr!Start, Zephyr!Free
<1>2. Zephyr!First(Zephyr!Free) \in Zephyr!Slots /\ ~active[Zephyr!First(Zephyr!Free)]
  BY <1>1 DEF Zephyr!Free
<1>3. QED BY <1>2 DEF Zephyr!Start

(* The owner of an active slot whose callback runs is the timer it is of.     *)
LEMMA ServedOwns ==
    ASSUME SlotInv, work # -1, active[work]
    PROVE  callback[work] = served
<1>1. served \in Timers /\ kind[served] \in Live /\ id[served] = work /\ served \notin ended
  BY DEF SlotInv, Serving
<1>2. QED BY <1>1 DEF SlotInv, Owned

LEMMA SlotStep ==
    ASSUME SlotInv, Zephyr!Next, sound'
    PROVE  SlotInv'
<1>0. SlotTypes /\ Owned /\ Served /\ Serving /\ -1 \notin Zephyr!Slots
  BY TimersAssumption DEF SlotInv, Zephyr!Slots
<1>1. ASSUME NEW t \in Timers, NEW k \in Live, Zephyr!Start(t, k) PROVE SlotInv'
  <2>1. PICK i \in Zephyr!Slots :
          /\ ~active[i]
          /\ kind' = [kind EXCEPT ![t] = k]
          /\ id' = [id EXCEPT ![t] = i]
          /\ active' = [active EXCEPT ![i] = TRUE]
          /\ periodic' = [periodic EXCEPT ![i] = k = "periodic"]
          /\ callback' = [callback EXCEPT ![i] = t]
          /\ ticking' = [ticking EXCEPT ![i] = TRUE]
          /\ sound' = (sound /\ i \notin queued /\ work # i)
    BY <1>1, FirstFree DEF Zephyr!Start, Zephyr!Free
  <2>2. kind[t] = "none" /\ UNCHANGED <<queued, work, served, ended>> BY <1>1 DEF Zephyr!Start
  <2>3. i \notin queued /\ work # i BY <2>1
  <2>4. SlotTypes' BY <1>0, <2>1, <2>2 DEF SlotTypes, Live
  <2>5. t \notin ended BY <1>0, <2>2 DEF SlotTypes, Live
  <2>6. Owned' BY <1>0, <2>1, <2>2, <2>5 DEF SlotTypes, Owned, Live
  <2>7. Served' BY <1>0, <2>1, <2>2, <2>3 DEF SlotTypes, Served
  <2>8. Serving'
    <3>1. CASE work = -1 BY <1>0, <2>2, <3>1 DEF Serving
    <3>2. CASE work # -1
      <4>1. served \in Timers /\ served # t BY <1>0, <2>2, <3>2 DEF Serving, Live
      <4>2. kind'[served] = kind[served] /\ id'[served] = id[served]
        BY <1>0, <2>1, <4>1 DEF SlotTypes
      <4>3. periodic'[work] = periodic[work] /\ active'[work] = active[work]
        BY <1>0, <2>1, <2>3, <3>2 DEF SlotTypes
      <4>4. QED BY <1>0, <2>2, <3>2, <4>1, <4>2, <4>3 DEF Serving
    <3>3. QED BY <3>1, <3>2
  <2>9. QED BY <2>4, <2>6, <2>7, <2>8 DEF SlotInv
<1>2. ASSUME NEW t \in Timers, Zephyr!Refuse(t) PROVE SlotInv'
  <2>1. /\ kind[t] = "none" /\ kind' = [kind EXCEPT ![t] = "refused"]
        /\ UNCHANGED <<id, active, periodic, callback, ticking, queued, work, served, ended>>
    BY <1>2 DEF Zephyr!Refuse
  <2>2. SlotTypes' /\ Owned' /\ Served' BY <1>0, <2>1 DEF SlotTypes, Owned, Served, Live
  <2>3. Serving' BY <1>0, <2>1 DEF SlotTypes, Serving, Live
  <2>4. QED BY <2>2, <2>3 DEF SlotInv
<1>3. ASSUME NEW t \in Timers, Zephyr!Cancel(t) PROVE SlotInv'
  <2> DEFINE i == id[t]
             u == callback[i]
  <2>1. /\ i \in Zephyr!Slots /\ active[i]
        /\ ticking' = [ticking EXCEPT ![i] = FALSE]
        /\ active' = [active EXCEPT ![i] = FALSE]
        /\ callback' = [callback EXCEPT ![i] = "none"]
        /\ UNCHANGED <<kind, id, periodic, queued, work, served>>
    BY <1>0, <1>3 DEF Zephyr!Cancel, SlotTypes, Live
  <2>2. u \in Timers /\ u \notin ended /\ kind[u] \in Live /\ id[u] = i
    BY <1>0, <2>1 DEF Owned
  <2>3. ended' = ended \cup {u} BY <1>3, <2>2, TimersAssumption DEF Zephyr!Cancel
  <2>4. SlotTypes' BY <1>0, <2>1, <2>2, <2>3 DEF SlotTypes
  <2>5. Owned' BY <1>0, <2>1, <2>2, <2>3 DEF SlotTypes, Owned
  <2>6. Served' BY <1>0, <2>1 DEF SlotTypes, Served
  <2>7. Serving'
    <3>1. CASE work = -1 BY <1>0, <2>1, <3>1 DEF Serving
    <3>2. CASE work = i
      <4>1. served = u BY <2>1, <3>2, <1>0, ServedOwns
      <4>2. QED BY <1>0, <2>1, <2>3, <3>2, <4>1 DEF Serving, SlotTypes
    <3>3. CASE work # -1 /\ work # i
      <4>1. served # u BY <1>0, <2>2, <3>3 DEF Serving
      <4>2. active'[work] = active[work] BY <1>0, <2>1, <3>3 DEF SlotTypes
      <4>3. QED BY <1>0, <2>1, <2>3, <3>3, <4>1, <4>2 DEF Serving
    <3>4. QED BY <3>1, <3>2, <3>3
  <2>8. QED BY <2>4, <2>5, <2>6, <2>7 DEF SlotInv
<1>4. ASSUME NEW i \in Zephyr!Slots, Zephyr!Expire(i) PROVE SlotInv'
  <2>1. /\ ticking[i] /\ active[i]
        /\ ticking' = [ticking EXCEPT ![i] = periodic[i]]
        /\ queued' = queued \cup {i}
        /\ UNCHANGED <<kind, id, active, periodic, callback, work, served, ended>>
    BY <1>0, <1>4 DEF Zephyr!Expire, Served
  <2>2. SlotTypes' BY <1>0, <2>1 DEF SlotTypes
  <2>3. Owned' /\ Serving' BY <1>0, <2>1 DEF Owned, Serving
  <2>4. Served' BY <1>0, <2>1 DEF SlotTypes, Served
  <2>5. QED BY <2>2, <2>3, <2>4 DEF SlotInv
<1>5. ASSUME NEW i \in Zephyr!Slots, Zephyr!WorkStarts(i) PROVE SlotInv'
  <2>1. /\ work = -1 /\ i \in queued /\ queued' = queued \ {i}
        /\ work' = IF callback[i] # "none" THEN i ELSE -1
        /\ served' = callback[i]
        /\ UNCHANGED <<kind, id, active, periodic, callback, ticking, ended>>
    BY <1>5 DEF Zephyr!WorkStarts
  <2>2. SlotTypes' BY <1>0, <2>1 DEF SlotTypes
  <2>3. Owned' BY <1>0, <2>1 DEF Owned
  <2>4. Served' BY <1>0, <2>1 DEF SlotTypes, Served
  <2>5. Serving'
    <3>1. CASE callback[i] = "none" BY <1>0, <2>1, <3>1 DEF Serving
    <3>2. CASE callback[i] # "none"
      <4>1. active[i] BY <1>0, <2>1, <3>2 DEF Served
      <4>2. QED BY <1>0, <2>1, <3>2, <4>1 DEF Serving, Owned
    <3>3. QED BY <3>1, <3>2
  <2>6. QED BY <2>2, <2>3, <2>4, <2>5 DEF SlotInv
<1>6. CASE Zephyr!WorkEnds
  <2>1. /\ work # -1 /\ work' = -1 /\ served' = "none"
        /\ active' = [active EXCEPT ![work] = @ /\ periodic[work]]
        /\ ended' = IF periodic[work] THEN ended ELSE ended \cup {served}
        /\ UNCHANGED <<kind, id, periodic, callback, ticking, queued>>
    BY <1>6 DEF Zephyr!WorkEnds
  <2>2. /\ work \in Zephyr!Slots /\ served \in Timers /\ kind[served] \in Live
        /\ id[served] = work
    BY <1>0, <2>1 DEF SlotTypes, Serving
  <2>3. SlotTypes' BY <1>0, <2>1, <2>2 DEF SlotTypes
  <2>4. active[work] => callback[work] = served BY <2>1, <1>0, ServedOwns
  <2>5. active'[work] = (active[work] /\ periodic[work])
        /\ \A i \in Zephyr!Slots \ {work} : active'[i] = active[i]
    BY <1>0, <2>1, <2>2 DEF SlotTypes
  <2>6. Owned'
    <3>1. ASSUME NEW t \in Timers, kind[t] \in Live, t \notin ended'
          PROVE  active'[id[t]] /\ callback[id[t]] = t
      <4>1. t \notin ended /\ id[t] \in Zephyr!Slots /\ active[id[t]] /\ callback[id[t]] = t
        BY <1>0, <2>1, <3>1 DEF Owned, SlotTypes
      <4>2. CASE id[t] # work BY <2>5, <4>1, <4>2
      <4>3. CASE id[t] = work
        <5>1. periodic[work] BY <2>1, <2>4, <3>1, <4>1, <4>3
        <5>2. QED BY <2>5, <4>1, <4>3, <5>1
      <4>4. QED BY <4>2, <4>3
    <3>2. ASSUME NEW i \in Zephyr!Slots, active'[i]
          PROVE  /\ callback[i] \in Timers /\ callback[i] \notin ended'
                 /\ kind[callback[i]] \in Live /\ id[callback[i]] = i
                 /\ periodic[i] = (kind[callback[i]] = "periodic")
      <4>1. active[i] BY <2>5, <3>2
      <4>2. callback[i] \notin ended'
        <5>1. CASE i = work BY <1>0, <2>1, <2>5, <3>2, <4>1, <5>1 DEF Owned
        <5>2. CASE i # work BY <1>0, <2>1, <2>2, <4>1, <5>2 DEF Owned
        <5>3. QED BY <5>1, <5>2
      <4>3. QED BY <1>0, <4>1, <4>2 DEF Owned
    <3>3. QED BY <2>1, <3>1, <3>2 DEF Owned
  <2>7. Served'
    <3>1. ASSUME NEW i \in Zephyr!Slots
          PROVE  /\ ticking[i] => active'[i]
                 /\ i \in queued => active'[i] \/ callback[i] = "none"
      <4>1. CASE i # work BY <1>0, <2>5, <4>1 DEF Served
      <4>2. CASE i = work BY <1>0, <2>2, <2>5, <4>2 DEF Served, SlotTypes
      <4>3. QED BY <4>1, <4>2
    <3>2. QED BY <1>0, <2>1, <3>1 DEF Served
  <2>8. Serving' BY <2>1 DEF Serving
  <2>9. QED BY <2>3, <2>6, <2>7, <2>8 DEF SlotInv
<1>7. QED BY <1>1, <1>2, <1>3, <1>4, <1>5, <1>6 DEF Zephyr!Next, Live

(* When no slot is free, as many timers can still fire as there are slots:
   a slot's timer is another one than any other slot's.                       *)
LEMMA FullMeansBusy ==
    ASSUME SlotInv, Zephyr!Free = {}
    PROVE  Cardinality({s \in Timers : Zephyr!Phase(s) = "running"}) = kMaxTimers
<1> DEFINE Busy == {s \in Timers : Zephyr!Phase(s) = "running"}
           owner == [i \in Zephyr!Slots |-> callback[i]]
<1>1. Busy = {s \in Timers : kind[s] \in Live /\ s \notin ended}
  BY DEF Zephyr!Phase, SlotInv, SlotTypes, Live
<1>2. \A i \in Zephyr!Slots : active[i] BY DEF Zephyr!Free
<1>3. \A i \in Zephyr!Slots : callback[i] \in Busy /\ id[callback[i]] = i
  BY <1>1, <1>2 DEF SlotInv, Owned
<1>4. \A s \in Busy : id[s] \in Zephyr!Slots /\ callback[id[s]] = s
  BY <1>1 DEF SlotInv, SlotTypes, Owned
<1>5. owner \in Bijection(Zephyr!Slots, Busy)
  <2>1. owner \in [Zephyr!Slots -> Busy] BY <1>3
  <2>2. \A i, j \in Zephyr!Slots : owner[i] = owner[j] => i = j BY <1>3
  <2>3. \A s \in Busy : \E i \in Zephyr!Slots : owner[i] = s BY <1>4
  <2>4. QED BY <2>1, <2>2, <2>3 DEF Bijection, Injection, IsInjective, Surjection
<1>6. IsFiniteSet(Zephyr!Slots) /\ Cardinality(Zephyr!Slots) = kMaxTimers
  BY TimersAssumption, FS_Interval DEF Zephyr!Slots
<1>7. QED BY <1>5, <1>6, FS_Bijection DEF ExistsBijection

-----------------------------------------------------------------------------
(* The service with threads. *)

Places == {"none", "waiting", "expired", "calling", "locking", "ended"}

(* A thread that runs waits, has expired or calls; one that was told to stop
   and has not ended yet is being waited for by whoever told it; and nobody
   waits for anybody else.                                                    *)
ThreadInv ==
    /\ kind \in [Timers -> Live \cup {"none"}]
    /\ at \in [Timers -> Places]
    /\ running \in [Timers -> BOOLEAN]
    /\ holder.timers \subseteq Timers /\ holder.joins = holder.timers
    /\ holder.op \in {"nobody", "gone"} => holder.timers = {}
    /\ \A t \in Timers :
          /\ kind[t] = "none" <=> at[t] = "none"
          /\ running[t] => at[t] \notin {"none", "ended"} /\ t \notin holder.timers
          /\ ~running[t] => at[t] \in {"none", "ended"} \/ t \in holder.timers
          /\ t \in holder.timers => at[t] # "none"

(* The identifier is the place in slots_, until stopAll() has cleared it. *)
NumberedInv ==
    holder.op # "gone" =>
        /\ slots \in Seq(Timers) /\ next_id = Len(slots)
        /\ \A t \in Timers : kind[t] # "none" =>
              id[t] \in 0..Len(slots) - 1 /\ slots[id[t] + 1] = t

ThreadsInv == id \in [Timers -> Int] /\ ThreadInv /\ NumberedInv

LEMMA ThreadsInit == Thread!Init => ThreadsInv
  BY DEF Thread!Init, ThreadsInv, ThreadInv, NumberedInv, Thread!Nobody, Places, Live

LEMMA NewSlotStep ==
    ASSUME ThreadsInv, NEW t \in Timers, NEW k \in Live, Thread!NewSlot(t, k)
    PROVE  /\ id' \in [Timers -> Int]
           /\ slots' \in Seq(Timers) /\ next_id' = Len(slots')
           /\ \A u \in Timers : kind'[u] # "none" =>
                 id'[u] \in 0..Len(slots') - 1 /\ slots'[id'[u] + 1] = u
           /\ holder.timers = {} /\ holder.joins = {} /\ kind[t] = "none"
           /\ kind' \in [Timers -> Live \cup {"none"}] /\ kind'[t] = k
           /\ running' \in [Timers -> BOOLEAN] /\ running'[t]
           /\ \A u \in Timers \ {t} : kind'[u] = kind[u] /\ running'[u] = running[u]
<1>1. holder.timers = {} /\ holder.joins = {} /\ holder.op # "gone" /\ kind[t] = "none"
  BY DEF Thread!NewSlot, Thread!LockFree, Thread!Nobody
<1>2. slots \in Seq(Timers) /\ next_id = Len(slots)
  BY <1>1 DEF ThreadsInv, NumberedInv
<1>3. id' \in [Timers -> Int] /\ id'[t] = Len(slots) /\ \A u \in Timers \ {t} : id'[u] = id[u]
  BY <1>2 DEF Thread!NewSlot, ThreadsInv
<1>4. slots' = Append(slots, t) /\ next_id' = Len(slots) + 1 BY <1>2 DEF Thread!NewSlot
<1>5. /\ kind' \in [Timers -> Live \cup {"none"}] /\ kind'[t] = k
      /\ running' \in [Timers -> BOOLEAN] /\ running'[t]
      /\ \A u \in Timers \ {t} : kind'[u] = kind[u] /\ running'[u] = running[u]
  BY DEF Thread!NewSlot, ThreadsInv, ThreadInv
<1>6. ASSUME NEW u \in Timers, kind'[u] # "none"
      PROVE  id'[u] \in 0..Len(slots') - 1 /\ slots'[id'[u] + 1] = u
  <2>1. CASE u = t BY <1>2, <1>3, <1>4, <2>1
  <2>2. CASE u # t
    BY SMTT(30), <1>1, <1>2, <1>3, <1>4, <1>5, <1>6, <2>2 DEF ThreadsInv, NumberedInv
  <2>3. QED BY <2>1, <2>2
<1>7. QED BY <1>1, <1>2, <1>3, <1>4, <1>5, <1>6

(* The steps that leave the numbers alone. *)
LEMMA NumbersStay ==
    ASSUME ThreadsInv, UNCHANGED <<kind, id, next_id, slots>>,
           holder'.op = "gone" \/ holder.op # "gone"
    PROVE  NumberedInv' /\ id' \in [Timers -> Int]
  BY DEF ThreadsInv, NumberedInv

LEMMA Waits ==
    ASSUME ThreadsInv, NEW t \in Timers,
           \/ Thread!Stopped(t) \/ Thread!Expire(t) \/ Thread!Call(t) \/ Thread!Return(t)
           \/ Thread!CallbackLocks(t)
    PROVE  ThreadsInv'
<1>1. UNCHANGED <<kind, id, next_id, slots, holder>>
  BY DEF Thread!Stopped, Thread!Expire, Thread!Call, Thread!Return, Thread!CallbackLocks
<1>2. NumberedInv' /\ id' \in [Timers -> Int] BY <1>1 DEF ThreadsInv, NumberedInv
<1>3. at' \in [Timers -> Places] /\ running' \in [Timers -> BOOLEAN]
  BY DEF Thread!Stopped, Thread!Expire, Thread!Call, Thread!Return, Thread!CallbackLocks,
         ThreadsInv, ThreadInv, Places
<1> DEFINE Goes ==
          /\ at[t] \notin {"none", "ended"} /\ at'[t] # "none"
          /\ at'[t] = "ended" => ~running'[t]
          /\ at'[t] # "ended" => running'[t] = running[t]
          /\ running'[t] => running[t]
          /\ \A u \in Timers \ {t} : at'[u] = at[u] /\ running'[u] = running[u]
<1>4. Goes
  <2>1. CASE ~Thread!Return(t)
    BY <2>1 DEF Thread!Stopped, Thread!Expire, Thread!Call, Thread!CallbackLocks,
           ThreadsInv, ThreadInv, Places
  <2>2. CASE Thread!Return(t)
    <3>1. running \in [Timers -> BOOLEAN] /\ at \in [Timers -> Places]
      BY DEF ThreadsInv, ThreadInv
    <3>2. running'[t] <=> running[t] /\ kind[t] = "periodic"
      BY <2>2, <3>1, Zenon DEF Thread!Return
    <3>3. \A u \in Timers \ {t} : running'[u] = running[u]
      BY <2>2, <3>1 DEF Thread!Return
    <3>4. at'[t] = IF kind[t] = "periodic" THEN "waiting" ELSE "ended"
      BY <2>2, <3>1 DEF Thread!Return
    <3>5. at[t] = "calling" /\ \A u \in Timers \ {t} : at'[u] = at[u]
      BY <2>2, <3>1 DEF Thread!Return
    <3>6. running'[t] \in BOOLEAN /\ running[t] \in BOOLEAN BY <1>3, <3>1
    <3>7. QED BY <3>2, <3>3, <3>4, <3>5, <3>6
  <2>3. QED BY <2>1, <2>2
<1>5. ThreadInv' BY <1>1, <1>3, <1>4 DEF ThreadsInv, ThreadInv
<1>6. QED BY <1>2, <1>5 DEF ThreadsInv

LEMMA Starts ==
    ASSUME ThreadsInv, NEW t \in Timers, NEW k \in Live, Thread!NewSlot(t, k), UNCHANGED holder,
           at' \in [Timers -> Places], at'[t] = "waiting",
           \A u \in Timers \ {t} :
              at'[u] = at[u] \/ (at[u] = "locking" /\ at'[u] = "calling")
    PROVE  ThreadsInv'
<1>1. ThreadInv' BY SMTT(30), NewSlotStep DEF ThreadsInv, ThreadInv, Live
<1>2. NumberedInv' /\ id' \in [Timers -> Int] BY NewSlotStep DEF NumberedInv
<1>3. QED BY <1>1, <1>2 DEF ThreadsInv

LEMMA CancelsItsOwn ==
    ASSUME ThreadsInv, NEW t \in Timers, Thread!Cancel(t)
    PROVE  Thread!Slot(id[t]) = t /\ running[t]
  BY DEF Thread!Cancel, Thread!Slot, Thread!LockFree, Thread!Nobody, ThreadsInv, NumberedInv

LEMMA ThreadsStep ==
    ASSUME ThreadsInv, Thread!Next
    PROVE  ThreadsInv'
<1>1. ASSUME NEW t \in Timers, NEW k \in Live, Thread!Start(t, k) PROVE ThreadsInv'
  BY <1>1, Starts DEF Thread!Start, ThreadsInv, ThreadInv, Places
<1>2. ASSUME NEW t \in Timers, NEW s \in Timers, NEW k \in Live, Thread!CallbackStarts(t, s, k)
      PROVE  ThreadsInv'
  <2>1. s # t BY <1>2 DEF Thread!CallbackStarts, Thread!NewSlot, ThreadsInv, ThreadInv
  <2>2. /\ at' \in [Timers -> Places] /\ at'[s] = "waiting"
        /\ \A u \in Timers \ {s} :
              at'[u] = at[u] \/ (at[u] = "locking" /\ at'[u] = "calling")
    BY <1>2, <2>1 DEF Thread!CallbackStarts, ThreadsInv, ThreadInv, Places
  <2>3. QED BY <1>2, <2>2, Starts DEF Thread!CallbackStarts
<1>3. ASSUME NEW t \in Timers, Thread!Cancel(t) PROVE ThreadsInv'
  <2>1. /\ running' = [running EXCEPT ![t] = FALSE] /\ running[t]
        /\ holder' = [op |-> "cancel", timers |-> {t}, joins |-> {t}]
        /\ holder.timers = {} /\ holder.op # "gone"
        /\ UNCHANGED <<kind, id, next_id, slots, at>>
    BY <1>3, CancelsItsOwn DEF Thread!Cancel, Thread!LockFree, Thread!Nobody
  <2>2. ThreadInv' BY <2>1 DEF ThreadsInv, ThreadInv
  <2>3. QED BY <2>1, <2>2, NumbersStay DEF ThreadsInv
<1>4. CASE Thread!StopAll
  <2>1. /\ running' = [t \in Timers |-> FALSE]
        /\ holder'.timers = {t \in Timers : running[t]} /\ holder'.joins = holder'.timers
        /\ holder'.op = "stopAll"
        /\ holder.timers = {} /\ holder.op # "gone"
        /\ UNCHANGED <<kind, id, next_id, slots, at>>
    BY <1>4 DEF Thread!StopAll, Thread!LockFree, Thread!Nobody
  <2>2. ThreadInv' BY <2>1 DEF ThreadsInv, ThreadInv
  <2>3. QED BY <2>1, <2>2, NumbersStay DEF ThreadsInv
<1>5. CASE Thread!Joined
  <2>1. /\ holder'.timers = {} /\ holder'.joins = {}
        /\ \A t \in holder.timers : at[t] = "ended"
        /\ UNCHANGED <<kind, id, next_id, running, at>>
    BY <1>5 DEF Thread!Joined, Thread!Nobody, ThreadsInv, ThreadInv
  <2>2. ThreadInv' BY <2>1 DEF ThreadsInv, ThreadInv
  <2>3. holder'.op = "gone" \/ (UNCHANGED slots /\ holder.op # "gone")
    BY <1>5 DEF Thread!Joined, Thread!Nobody
  <2>4. QED BY <2>1, <2>2, <2>3 DEF ThreadsInv, NumberedInv
<1>6. QED BY <1>1, <1>2, <1>3, <1>4, <1>5, Waits DEF Thread!Next, Thread!ThreadStep, Live

-----------------------------------------------------------------------------
(* Either service. *)

TimersInv ==
    IF Posix THEN sound = TRUE /\ ThreadsInv
             ELSE sound \in BOOLEAN /\ (sound => SlotInv)

LEMMA TimersInit == Init => TimersInv
  BY SlotInit, ThreadsInit DEF Init, Zephyr!Init, TimersInv

(* A service that is not sound stays so. *)
LEMMA SoundStep ==
    ASSUME sound \in BOOLEAN, Zephyr!Next
    PROVE  sound' \in BOOLEAN /\ (sound' => sound)
<1>1. ASSUME NEW t \in Timers, NEW k \in Live, Zephyr!Start(t, k)
      PROVE  sound' \in BOOLEAN /\ (sound' => sound)
  BY <1>1 DEF Zephyr!Start
<1>2. QED
  BY <1>1
  DEF Zephyr!Next, Live, Zephyr!Refuse, Zephyr!Cancel, Zephyr!Expire, Zephyr!WorkStarts,
      Zephyr!WorkEnds

LEMMA TimersStep ==
    ASSUME TimersInv, [Next]_vars
    PROVE  TimersInv'
<1>1. CASE Posix /\ Thread!Next /\ UNCHANGED <<platform, zephyrVars>>
  BY <1>1, ThreadsStep DEF TimersInv, Posix, zephyrVars
<1>2. CASE ~Posix /\ Zephyr!Next /\ UNCHANGED platform
  <2>1. sound \in BOOLEAN /\ (sound => SlotInv) /\ ~Posix' BY <1>2 DEF TimersInv, Posix
  <2>2. sound' \in BOOLEAN /\ (sound' => SlotInv') BY <1>2, <2>1, SoundStep, SlotStep
  <2>3. QED BY <2>1, <2>2 DEF TimersInv
<1>3. CASE UNCHANGED vars
  <2>1. UNCHANGED <<platform, kind, id, next_id, slots, running, at, holder, active,
                    periodic, callback, ticking, queued, work, served, ended, sound>>
    BY <1>3 DEF vars, threadVars, zephyrVars
  <2>2. CASE Posix
    <3>1. ThreadsInv' BY <2>1, <2>2 DEF TimersInv, ThreadsInv, ThreadInv, NumberedInv
    <3>2. QED BY <2>1, <2>2, <3>1 DEF TimersInv, Posix
  <2>3. CASE ~Posix
    <3>1. SlotInv => SlotInv'
      BY <2>1 DEF SlotInv, SlotTypes, Owned, Served, Serving
    <3>2. QED BY <2>1, <2>3, <3>1 DEF TimersInv, Posix
  <2>4. QED BY <2>2, <2>3
<1>4. QED BY <1>1, <1>2, <1>3 DEF Next

LEMMA RefusalStep ==
    ASSUME TimersInv, [Next]_vars, NEW t \in Timers, sound,
           kind'[t] = "refused", kind[t] = "none"
    PROVE  Cardinality({s \in Timers : Zephyr!Phase(s) = "running"}) = kMaxTimers
<1>1. kind' # kind /\ ~Posix /\ Zephyr!Next
  <2>1. Next BY DEF vars
  <2>2. ASSUME Posix PROVE FALSE
    <3>1. ThreadsInv' BY <2>1, <2>2, ThreadsStep DEF Next, TimersInv
    <3>2. QED BY <3>1 DEF ThreadsInv, ThreadInv, Live
  <2>3. QED BY <2>1, <2>2 DEF Next
<1>2. SlotInv BY <1>1 DEF TimersInv
<1>3. ASSUME NEW s \in Timers, NEW k \in Live, Zephyr!Start(s, k) PROVE FALSE
  BY <1>2, <1>3 DEF Zephyr!Start, SlotInv, SlotTypes, Live
<1>4. \E s \in Timers : Zephyr!Refuse(s)
  BY <1>1, <1>3, Zenon
  DEF Zephyr!Next, Live, Zephyr!Cancel, Zephyr!Expire, Zephyr!WorkStarts, Zephyr!WorkEnds
<1>5. Zephyr!Free = {} BY <1>4 DEF Zephyr!Refuse
<1>6. QED BY <1>2, <1>5, FullMeansBusy

(* A timer is refused only while as many others can fire as there are slots:
   every way a timer ends gives its slot back, unless a slot was handed out
   while in use; and the service without slots refuses none.                  *)
THEOREM RefusedOnlyWhenFullAlways == Spec => RefusedOnlyWhenFull
<1>1. TimersInv /\ [Next]_vars => TimersInv' BY TimersStep
<1>2. TimersInv /\ [Next]_vars
        => [\A t \in Timers : sound /\ kind'[t] = "refused" /\ kind[t] = "none" =>
              Cardinality({s \in Timers : Zephyr!Phase(s) = "running"}) = kMaxTimers]_vars
  BY RefusalStep
<1>3. QED BY <1>1, <1>2, TimersInit, PTL DEF Spec, RefusedOnlyWhenFull

-----------------------------------------------------------------------------
(* The promise: each step of either service is one of TimerService, or none.  *)

PhaseF  == [t \in Timers |-> IF Posix THEN Thread!Phase(t) ELSE Zephyr!Phase(t)]
DueF    == [t \in Timers |-> IF Posix THEN Thread!Due(t) ELSE Zephyr!Due(t)]
FiringF == [t \in Timers |-> IF Posix THEN Thread!Firing(t) ELSE Zephyr!Firing(t)]

Kept == [Promise!Next]_Promise!vars

LEMMA PromisedStutter ==
    ASSUME UNCHANGED <<kind, PhaseF, DueF, FiringF, sound>>
    PROVE  Kept
  BY Zenon DEF Kept, Promise!vars, PhaseF, DueF, FiringF

LEMMA PromisedNothing ==
    ASSUME sound' = FALSE
    PROVE  Kept
  BY Zenon DEF Kept, Promise!Next

LEMMA PromisedStart ==
    ASSUME sound, UNCHANGED sound, NEW t \in Timers, NEW k \in Live \cup {"refused"},
           PhaseF[t] = "unused", kind[t] = "none",
           kind' = [kind EXCEPT ![t] = k],
           PhaseF' = [PhaseF EXCEPT ![t] = IF k = "refused" THEN "unused" ELSE "running"],
           UNCHANGED <<DueF, FiringF>>
    PROVE  Kept
<1>1. Promise!Start(t, k) BY Zenon DEF Promise!Start, PhaseF, DueF, FiringF
<1>2. QED BY <1>1, Zenon DEF Kept, Promise!Next, Promise!Step, Promise!Kinds, Live

LEMMA PromisedExpire ==
    ASSUME sound, UNCHANGED sound, NEW t \in Timers, PhaseF[t] = "running", ~DueF[t],
           kind[t] = "oneShot" => ~FiringF[t],
           DueF' = [DueF EXCEPT ![t] = TRUE],
           UNCHANGED <<kind, PhaseF, FiringF>>
    PROVE  Kept
<1>1. Promise!Expire(t) BY Zenon DEF Promise!Expire, PhaseF, DueF, FiringF
<1>2. QED BY <1>1, Zenon DEF Kept, Promise!Next, Promise!Step

LEMMA PromisedFire ==
    ASSUME sound, UNCHANGED sound, NEW t \in Timers, PhaseF[t] \in {"running", "cancelling"}, DueF[t], ~FiringF[t],
           DueF' = [DueF EXCEPT ![t] = FALSE],
           FiringF' = [FiringF EXCEPT ![t] = TRUE],
           UNCHANGED <<kind, PhaseF>>
    PROVE  Kept
<1>1. Promise!Fire(t) BY Zenon DEF Promise!Fire, PhaseF, DueF, FiringF
<1>2. QED BY <1>1, Zenon DEF Kept, Promise!Next, Promise!Step

LEMMA PromisedReturn ==
    ASSUME sound, UNCHANGED sound, NEW t \in Timers, FiringF[t],
           ~(kind[t] = "oneShot" /\ PhaseF[t] = "running"),
           FiringF' = [FiringF EXCEPT ![t] = FALSE],
           UNCHANGED <<kind, PhaseF, DueF>>
    PROVE  Kept
<1>1. Promise!Return(t) BY Zenon DEF Promise!Return, PhaseF, DueF, FiringF
<1>2. QED BY <1>1, Zenon DEF Kept, Promise!Next, Promise!Step

LEMMA PromisedLastReturn ==
    ASSUME sound, UNCHANGED sound, NEW t \in Timers, FiringF[t],
           kind[t] = "oneShot" \/ PhaseF[t] = "cancelling",
           FiringF' = [FiringF EXCEPT ![t] = FALSE],
           PhaseF' = [PhaseF EXCEPT ![t] = "over"],
           DueF' = [DueF EXCEPT ![t] = FALSE],
           UNCHANGED kind
    PROVE  Kept
<1>1. Promise!Return(t) BY Zenon DEF Promise!Return, PhaseF, DueF, FiringF
<1>2. QED BY <1>1, Zenon DEF Kept, Promise!Next, Promise!Step

LEMMA PromisedDrop ==
    ASSUME sound, UNCHANGED sound, NEW t \in Timers, PhaseF[t] = "cancelling", DueF[t],
           DueF' = [DueF EXCEPT ![t] = FALSE],
           UNCHANGED <<kind, PhaseF, FiringF>>
    PROVE  Kept
<1>1. Promise!Drop(t) BY Zenon DEF Promise!Drop, PhaseF, DueF, FiringF
<1>2. QED BY <1>1, Zenon DEF Kept, Promise!Next, Promise!Step

LEMMA PromisedRevoke ==
    ASSUME sound, UNCHANGED sound, NEW S \in SUBSET Timers, S # {},
           \A t \in S : PhaseF[t] = "running",
           PhaseF' = [t \in Timers |-> IF t \in S THEN "cancelling" ELSE PhaseF[t]],
           DueF' = DueF \/ DueF' = [t \in Timers |-> DueF[t] /\ t \notin S],
           UNCHANGED <<kind, FiringF>>
    PROVE  Kept
<1>1. DueF' \in {DueF, [t \in Timers |-> DueF[t] /\ t \notin S]} OBVIOUS
<1>2. Promise!Revoke(S) BY <1>1, Zenon DEF Promise!Revoke, PhaseF, DueF, FiringF
<1>3. QED BY <1>2, Zenon DEF Kept, Promise!Next, Promise!Step

LEMMA PromisedRetire ==
    ASSUME sound, UNCHANGED sound, NEW S \in SUBSET Timers, S # {},
           \A t \in S : PhaseF[t] \in {"running", "cancelling"} /\ ~FiringF[t],
           PhaseF' = [t \in Timers |-> IF t \in S THEN "over" ELSE PhaseF[t]],
           DueF' = [t \in Timers |-> DueF[t] /\ t \notin S],
           UNCHANGED <<kind, FiringF>>
    PROVE  Kept
<1>1. Promise!Retire(S) BY Zenon DEF Promise!Retire, PhaseF, DueF, FiringF
<1>2. QED BY <1>1, Zenon DEF Kept, Promise!Next, Promise!Step

-----------------------------------------------------------------------------
(* The service with slots keeps it. *)

(* What a caller sees, in the service's terms: kind[t] is a live one's ...    *)
SlotView ==
    \A t \in Timers :
        /\ PhaseF[t] = IF kind[t] \notin Live THEN "unused"
                       ELSE IF t \notin ended THEN "running"
                       ELSE IF served = t THEN "cancelling" ELSE "over"
        /\ DueF[t] <=> kind[t] \in Live /\ t \notin ended /\ id[t] \in queued
        /\ FiringF[t] <=> served = t

Views == PhaseF \in [Timers -> {"unused", "running", "cancelling", "over"}]
            /\ DueF \in [Timers -> BOOLEAN] /\ FiringF \in [Timers -> BOOLEAN]

LEMMA SlotSeen == SlotInv /\ ~Posix => SlotView /\ Views
<1> SUFFICES ASSUME SlotInv, ~Posix PROVE SlotView /\ Views
  OBVIOUS
<1>1. ASSUME NEW t \in Timers
      PROVE  PhaseF[t] = IF kind[t] \notin Live THEN "unused"
                         ELSE IF t \notin ended THEN "running"
                         ELSE IF served = t THEN "cancelling" ELSE "over"
  <2>1. PhaseF[t] = Zephyr!Phase(t) BY DEF PhaseF
  <2>2. kind[t] \in {"none", "refused"} <=> kind[t] \notin Live
    BY DEF SlotInv, SlotTypes, Live
  <2>3. kind[t] \in {"none", "refused"} => t \notin ended
    BY DEF SlotInv, SlotTypes, Live
  <2>4. QED BY <2>1, <2>2, <2>3 DEF Zephyr!Phase
<1>2. ASSUME NEW t \in Timers
      PROVE  DueF[t] <=> kind[t] \in Live /\ t \notin ended /\ id[t] \in queued
  <2>1. DueF[t] <=> PhaseF[t] = "running" /\ id[t] \in queued
    BY DEF DueF, PhaseF, Zephyr!Due
  <2>2. PhaseF[t] = "running" <=> kind[t] \in Live /\ t \notin ended BY <1>1
  <2>3. QED BY <2>1, <2>2
<1>3. ASSUME NEW t \in Timers
      PROVE  FiringF[t] <=> served = t
  BY DEF FiringF, Zephyr!Firing
<1>4. DueF \in [Timers -> BOOLEAN] /\ FiringF \in [Timers -> BOOLEAN]
  BY DEF DueF, Zephyr!Due, FiringF, Zephyr!Firing
<1>5. PhaseF \in [Timers -> {"unused", "running", "cancelling", "over"}]
  <2>1. PhaseF = [t \in Timers |-> PhaseF[t]] BY DEF PhaseF
  <2>2. QED BY <1>1, <2>1
<1>6. QED BY <1>1, <1>2, <1>3, <1>4, <1>5 DEF SlotView, Views

(* Functions are what they are at each timer: what differs at t alone is an
   EXCEPT, what differs nowhere is unchanged.                                *)
LEMMA PhaseStays ==
    ASSUME Views, Views', \A u \in Timers : PhaseF'[u] = PhaseF[u]
    PROVE  UNCHANGED PhaseF
  BY DEF Views

LEMMA DueStays ==
    ASSUME Views, Views', \A u \in Timers : DueF'[u] <=> DueF[u]
    PROVE  UNCHANGED DueF
<1>1. \A u \in Timers : DueF[u] \in BOOLEAN /\ DueF'[u] \in BOOLEAN BY DEF Views
<1>2. \A u \in Timers : DueF'[u] = DueF[u] BY <1>1
<1>3. QED BY <1>2 DEF Views

LEMMA FiringStays ==
    ASSUME Views, Views', \A u \in Timers : FiringF'[u] <=> FiringF[u]
    PROVE  UNCHANGED FiringF
<1>1. \A u \in Timers : FiringF[u] \in BOOLEAN /\ FiringF'[u] \in BOOLEAN BY DEF Views
<1>2. \A u \in Timers : FiringF'[u] = FiringF[u] BY <1>1
<1>3. QED BY <1>2 DEF Views

LEMMA PhaseAt ==
    ASSUME Views, Views', NEW t \in Timers,
           \A u \in Timers \ {t} : PhaseF'[u] = PhaseF[u]
    PROVE  PhaseF' = [PhaseF EXCEPT ![t] = PhaseF'[t]]
  BY DEF Views

LEMMA DueAt ==
    ASSUME Views, Views', NEW t \in Timers, NEW b \in BOOLEAN, DueF'[t] <=> b,
           \A u \in Timers \ {t} : DueF'[u] <=> DueF[u]
    PROVE  DueF' = [DueF EXCEPT ![t] = b]
<1>1. \A u \in Timers : DueF[u] \in BOOLEAN /\ DueF'[u] \in BOOLEAN BY DEF Views
<1>2. DueF'[t] = b /\ \A u \in Timers \ {t} : DueF'[u] = DueF[u] BY <1>1
<1>3. QED BY <1>2 DEF Views

LEMMA FiringAt ==
    ASSUME Views, Views', NEW t \in Timers, NEW b \in BOOLEAN, FiringF'[t] <=> b,
           \A u \in Timers \ {t} : FiringF'[u] <=> FiringF[u]
    PROVE  FiringF' = [FiringF EXCEPT ![t] = b]
<1>1. \A u \in Timers : FiringF[u] \in BOOLEAN /\ FiringF'[u] \in BOOLEAN BY DEF Views
<1>2. FiringF'[t] = b /\ \A u \in Timers \ {t} : FiringF'[u] = FiringF[u] BY <1>1
<1>3. QED BY <1>2 DEF Views

LEMMA SlotsStart ==
    ASSUME SlotInv, SlotInv', SlotView, SlotView', Views, Views', sound, UNCHANGED sound,
           NEW t \in Timers, NEW k \in Live, Zephyr!Start(t, k)
    PROVE  Kept
<1>0. SlotTypes /\ Serving BY DEF SlotInv
<1>1. /\ kind[t] = "none" /\ kind' = [kind EXCEPT ![t] = k] /\ t \notin ended
      /\ UNCHANGED <<queued, work, served, ended>>
      /\ \A u \in Timers \ {t} : id'[u] = id[u]
  BY <1>0 DEF Zephyr!Start, SlotTypes, Live
<1>2. id'[t] \notin queued
  <2>1. PICK i \in Zephyr!Slots : /\ id' = [id EXCEPT ![t] = i]
                                 /\ sound' = (sound /\ i \notin queued /\ work # i)
    BY StartTakes
  <2>2. sound' BY Zenon
  <2>3. i \notin queued BY <2>1, <2>2
  <2>4. QED BY <1>0, <2>1, <2>3 DEF SlotTypes
<1>3. served # t BY <1>0, <1>1, TimersAssumption DEF Serving, Live
<1>4. \A u \in Timers \ {t} : kind'[u] = kind[u] BY <1>0, <1>1 DEF SlotTypes
<1>5. kind'[t] = k /\ PhaseF[t] = "unused" /\ PhaseF'[t] = "running"
  BY <1>0, <1>1 DEF SlotView, SlotTypes, Live
<1>6. \A u \in Timers \ {t} : PhaseF'[u] = PhaseF[u] BY <1>1, <1>4 DEF SlotView
<1>7. ~DueF[t] /\ ~DueF'[t] /\ ~FiringF[t] /\ ~FiringF'[t]
  BY <1>1, <1>2, <1>3 DEF SlotView, Live
<1>8. \A u \in Timers \ {t} : (DueF'[u] <=> DueF[u]) /\ (FiringF'[u] <=> FiringF[u])
  BY <1>1, <1>4 DEF SlotView
<1>9. UNCHANGED <<DueF, FiringF>> BY <1>7, <1>8, DueStays, FiringStays
<1>10. PhaseF' = [PhaseF EXCEPT ![t] = "running"] BY <1>5, <1>6, PhaseAt
<1>11. QED BY <1>1, <1>5, <1>9, <1>10, PromisedStart DEF Live

LEMMA SlotsRefuse ==
    ASSUME SlotInv, SlotInv', SlotView, SlotView', Views, Views', sound, UNCHANGED sound,
           NEW t \in Timers, Zephyr!Refuse(t)
    PROVE  Kept
<1>0. SlotTypes BY DEF SlotInv
<1>1. /\ kind[t] = "none" /\ kind' = [kind EXCEPT ![t] = "refused"]
      /\ UNCHANGED <<id, queued, work, served, ended>>
  BY DEF Zephyr!Refuse
<1>2. \A u \in Timers : kind'[u] \in Live <=> kind[u] \in Live
  BY <1>0, <1>1 DEF SlotTypes, Live
<1>3. UNCHANGED <<PhaseF, DueF, FiringF>>
  <2>1. \A u \in Timers : PhaseF'[u] = PhaseF[u] BY <1>1, <1>2 DEF SlotView
  <2>2. \A u \in Timers : (DueF'[u] <=> DueF[u]) /\ (FiringF'[u] <=> FiringF[u])
    BY <1>1, <1>2 DEF SlotView
  <2>3. QED BY <2>1, <2>2, PhaseStays, DueStays, FiringStays
<1>4. PhaseF[t] = "unused" BY <1>1 DEF SlotView, Live
<1>5. PhaseF' = [PhaseF EXCEPT ![t] = "unused"] BY <1>3, <1>4 DEF Views
<1>6. QED BY <1>1, <1>3, <1>4, <1>5, PromisedStart

(* Whoever has the slot is cancelled: while its callback runs, that is still
   to return; otherwise it is over.  An expiry that waits is dropped.         *)
LEMMA SlotsCancel ==
    ASSUME SlotInv, SlotInv', SlotView, SlotView', Views, Views', sound, UNCHANGED sound,
           NEW t \in Timers, Zephyr!Cancel(t)
    PROVE  Kept
<1>0. SlotTypes /\ Owned /\ Serving BY DEF SlotInv
<1> DEFINE u == callback[id[t]]
<1>1. /\ id[t] \in Zephyr!Slots /\ active[id[t]]
      /\ UNCHANGED <<kind, id, queued, work, served>>
  BY <1>0 DEF Zephyr!Cancel, SlotTypes, Live
<1>2. u \in Timers /\ u \notin ended /\ kind[u] \in Live BY <1>0, <1>1 DEF Owned
<1>3. ended' = ended \cup {u} BY <1>2, TimersAssumption DEF Zephyr!Cancel
<1>4. PhaseF[u] = "running" /\ PhaseF'[u] = IF served = u THEN "cancelling" ELSE "over"
  BY <1>1, <1>2, <1>3 DEF SlotView
<1>5. \A v \in Timers \ {u} : PhaseF'[v] = PhaseF[v] BY <1>1, <1>3 DEF SlotView
<1>6. UNCHANGED FiringF
  <2>1. \A v \in Timers : FiringF'[v] <=> FiringF[v] BY <1>1 DEF SlotView
  <2>2. QED BY <2>1, FiringStays
<1>7. DueF' = [v \in Timers |-> DueF[v] /\ v \notin {u}]
  <2>1. \A v \in Timers : DueF'[v] <=> DueF[v] /\ v \notin {u} BY <1>1, <1>3 DEF SlotView
  <2>2. QED BY <2>1 DEF Views
<1>8. {u} \in SUBSET Timers /\ {u} # {} /\ \A v \in {u} : PhaseF[v] = "running"
  BY <1>2, <1>4
<1>9. CASE served = u
  <2>1. PhaseF' = [v \in Timers |-> IF v \in {u} THEN "cancelling" ELSE PhaseF[v]]
    BY <1>2, <1>4, <1>5, <1>9 DEF Views
  <2>2. QED BY <1>1, <1>6, <1>7, <1>8, <2>1, PromisedRevoke
<1>10. CASE served # u
  <2>1. PhaseF' = [v \in Timers |-> IF v \in {u} THEN "over" ELSE PhaseF[v]]
    BY <1>2, <1>4, <1>5, <1>10 DEF Views
  <2>2. \A v \in {u} : ~FiringF[v] BY <1>2, <1>10 DEF SlotView
  <2>3. \A v \in {u} : PhaseF[v] \in {"running", "cancelling"} /\ ~FiringF[v]
    BY <1>8, <2>2
  <2>4. QED BY <1>1, <1>6, <1>7, <1>8, <2>1, <2>3, PromisedRetire
<1>11. QED BY <1>9, <1>10

LEMMA SlotsExpire ==
    ASSUME SlotInv, SlotInv', SlotView, SlotView', Views, Views', sound, UNCHANGED sound,
           NEW i \in Zephyr!Slots, Zephyr!Expire(i)
    PROVE  Kept
<1>0. SlotTypes /\ Owned /\ Served /\ Serving BY DEF SlotInv
<1> DEFINE t == callback[i]
<1>1. /\ ticking[i] /\ active[i] /\ queued' = queued \cup {i}
      /\ UNCHANGED <<kind, id, ended, work, served>>
  BY <1>0 DEF Zephyr!Expire, Served
<1>2. t \in Timers /\ t \notin ended /\ kind[t] \in Live /\ id[t] = i
  BY <1>0, <1>1 DEF Owned
<1>3. UNCHANGED <<PhaseF, FiringF>>
  <2>1. \A u \in Timers : PhaseF'[u] = PhaseF[u] /\ (FiringF'[u] <=> FiringF[u])
    BY <1>1 DEF SlotView
  <2>2. QED BY <2>1, PhaseStays, FiringStays
<1>4. \A u \in Timers \ {t} : DueF'[u] <=> DueF[u]
  BY <1>0, <1>1, <1>2 DEF SlotView, Owned
<1>5. PhaseF[t] = "running" /\ DueF'[t] BY <1>1, <1>2 DEF SlotView
<1>6. CASE DueF[t]
  <2>1. UNCHANGED DueF BY <1>2, <1>4, <1>5, <1>6, DueStays
  <2>2. QED BY <1>1, <1>3, <2>1, PromisedStutter
<1>7. CASE ~DueF[t]
  <2>1. kind[t] = "oneShot" => ~FiringF[t]
    <3>1. kind[t] = "oneShot" => ~periodic[i] BY <1>0, <1>1, <1>2 DEF Owned
    <3>2. ~periodic[i] => work # i BY <1>0, <1>1 DEF Served
    <3>3. FiringF[t] => work = i
      BY <1>0, <1>2, TimersAssumption DEF SlotView, Serving
    <3>4. QED BY <3>1, <3>2, <3>3
  <2>2. DueF' = [DueF EXCEPT ![t] = TRUE] BY <1>2, <1>4, <1>5, DueAt
  <2>3. QED BY <1>1, <1>2, <1>3, <1>5, <1>7, <2>1, <2>2, PromisedExpire
<1>8. QED BY <1>6, <1>7

LEMMA SlotsFire ==
    ASSUME SlotInv, SlotInv', SlotView, SlotView', Views, Views', sound, UNCHANGED sound,
           NEW i \in Zephyr!Slots, Zephyr!WorkStarts(i)
    PROVE  Kept
<1>0. SlotTypes /\ Owned /\ Served /\ Serving BY DEF SlotInv
<1> DEFINE t == callback[i]
<1>1. /\ work = -1 /\ i \in queued /\ queued' = queued \ {i}
      /\ served = "none" /\ served' = t
      /\ UNCHANGED <<kind, id, ended>>
  BY <1>0 DEF Zephyr!WorkStarts, Serving
<1>2. \A u \in Timers : ~FiringF[u] /\ (FiringF'[u] <=> u = t)
  BY <1>1, TimersAssumption DEF SlotView
<1>3. \A u \in Timers : PhaseF[u] = IF kind[u] \notin Live THEN "unused"
                                   ELSE IF u \notin ended THEN "running" ELSE "over"
  BY <1>1, TimersAssumption DEF SlotView
<1>4. CASE t = "none"
  <2>1. ~active[i] BY <1>0, <1>4, TimersAssumption DEF Owned
  <2>2. \A u \in Timers : kind[u] \in Live /\ u \notin ended => id[u] # i
    BY <1>0, <2>1 DEF Owned
  <2>3. \A u \in Timers : PhaseF'[u] = PhaseF[u]
    BY <1>1, <1>3, <1>4, TimersAssumption DEF SlotView
  <2>4. \A u \in Timers : DueF'[u] <=> DueF[u] BY <1>1, <2>2 DEF SlotView
  <2>5. \A u \in Timers : FiringF'[u] <=> FiringF[u] BY <1>2, <1>4, TimersAssumption
  <2>6. UNCHANGED <<PhaseF, DueF, FiringF>>
    BY <2>3, <2>4, <2>5, PhaseStays, DueStays, FiringStays
  <2>7. QED BY <1>1, <2>6, PromisedStutter
<1>5. CASE t # "none"
  <2>1. active[i] BY <1>0, <1>1, <1>5 DEF Served
  <2>2. t \in Timers /\ t \notin ended /\ kind[t] \in Live /\ id[t] = i
    BY <1>0, <2>1 DEF Owned
  <2>3. \A u \in Timers : PhaseF'[u] = PhaseF[u]
    BY <1>1, <1>3, <2>2 DEF SlotView
  <2>4. UNCHANGED PhaseF BY <2>3, PhaseStays
  <2>5. \A u \in Timers \ {t} : kind[u] \in Live /\ u \notin ended => id[u] # i
    BY <1>0 DEF Owned
  <2>6. DueF[t] /\ ~DueF'[t] /\ \A u \in Timers \ {t} : DueF'[u] <=> DueF[u]
    BY <1>1, <2>2, <2>5 DEF SlotView
  <2>7. DueF' = [DueF EXCEPT ![t] = FALSE] BY <2>2, <2>6, DueAt
  <2>8. FiringF' = [FiringF EXCEPT ![t] = TRUE] BY <1>2, <2>2, FiringAt
  <2>9. PhaseF[t] = "running" BY <1>3, <2>2
  <2>10. QED BY <1>1, <1>2, <2>2, <2>4, <2>6, <2>7, <2>8, <2>9, PromisedFire
<1>6. QED BY <1>4, <1>5

LEMMA SlotsReturn ==
    ASSUME SlotInv, SlotInv', SlotView, SlotView', Views, Views', sound, UNCHANGED sound,
           Zephyr!WorkEnds
    PROVE  Kept
<1>0. SlotTypes /\ Owned /\ Served /\ Serving BY DEF SlotInv
<1> DEFINE t == served
<1>1. /\ work # -1 /\ served' = "none"
      /\ ended' = IF periodic[work] THEN ended ELSE ended \cup {t}
      /\ UNCHANGED <<kind, id, queued>>
  BY <1>0 DEF Zephyr!WorkEnds
<1>2. /\ t \in Timers /\ kind[t] \in Live /\ id[t] = work /\ work \in Zephyr!Slots
      /\ periodic[work] = (kind[t] = "periodic")
  BY <1>0, <1>1 DEF Serving, SlotTypes
<1>3. FiringF[t] /\ \A u \in Timers : ~FiringF'[u] /\ (u # t => ~FiringF[u])
  BY <1>1, <1>2, TimersAssumption DEF SlotView
<1>4. FiringF' = [FiringF EXCEPT ![t] = FALSE] BY <1>2, <1>3, FiringAt
<1>5. \A u \in Timers \ {t} : u \in ended' <=> u \in ended BY <1>1
<1>6. \A u \in Timers \ {t} : PhaseF'[u] = PhaseF[u] /\ (DueF'[u] <=> DueF[u])
  BY <1>1, <1>5, TimersAssumption DEF SlotView
<1>7. CASE periodic[work] /\ t \notin ended
  <2>1. PhaseF[t] = "running" /\ PhaseF'[t] = "running" /\ (DueF'[t] <=> DueF[t])
    BY <1>1, <1>2, <1>7 DEF SlotView
  <2>2. UNCHANGED <<PhaseF, DueF>> BY <1>6, <2>1, PhaseStays, DueStays
  <2>3. QED BY <1>1, <1>2, <1>3, <1>4, <1>7, <2>2, PromisedReturn
<1>8. CASE ~periodic[work] \/ t \in ended
  <2>1. t \in ended' BY <1>1, <1>8
  <2>2. PhaseF'[t] = "over" /\ ~DueF'[t] BY <1>1, <1>2, <2>1, TimersAssumption DEF SlotView
  <2>3. PhaseF' = [PhaseF EXCEPT ![t] = "over"] BY <1>2, <1>6, <2>2, PhaseAt
  <2>4. DueF' = [DueF EXCEPT ![t] = FALSE] BY <1>2, <1>6, <2>2, DueAt
  <2>5. kind[t] = "oneShot" \/ PhaseF[t] = "cancelling"
    BY <1>2, <1>8 DEF SlotView, Live
  <2>6. QED BY <1>1, <1>2, <1>3, <1>4, <2>3, <2>4, <2>5, PromisedLastReturn
<1>9. QED BY <1>7, <1>8

LEMMA SlotsKeepPromise ==
    ASSUME sound \in BOOLEAN, sound => SlotInv, ~Posix, Zephyr!Next, UNCHANGED platform
    PROVE  Kept
<1>1. sound' \in BOOLEAN /\ (sound' => sound) BY SoundStep
<1>2. CASE ~sound'
  <2>1. sound' = FALSE BY <1>1, <1>2
  <2>2. QED BY <2>1, PromisedNothing
<1>3. CASE sound'
  <2>1. sound /\ UNCHANGED sound BY <1>1, <1>3
  <2>2. SlotInv /\ SlotInv' /\ ~Posix' BY <1>3, <2>1, SlotStep DEF Posix
  <2>3. SlotView /\ Views BY <2>2, SlotSeen
  <2>4. SlotView' /\ Views'
    <3>1. (SlotInv /\ ~Posix => SlotView /\ Views)' BY SlotSeen, PTL
    <3>2. QED BY <2>2, <3>1
  <2>5. QED BY <2>1, <2>2, <2>3, <2>4, SlotsStart, SlotsRefuse, SlotsCancel, SlotsExpire,
               SlotsFire, SlotsReturn, Zenon DEF Zephyr!Next, Live
<1>4. QED BY <1>2, <1>3

-----------------------------------------------------------------------------
(* The service with threads keeps it. *)

ThreadView ==
    \A t \in Timers :
        /\ PhaseF[t] = IF kind[t] = "none" THEN "unused"
                       ELSE IF t \in holder.timers THEN "cancelling"
                       ELSE IF at[t] = "ended" THEN "over" ELSE "running"
        /\ DueF[t] <=> at[t] = "expired"
        /\ FiringF[t] <=> at[t] \in {"calling", "locking"}

LEMMA ThreadSeen == Posix => ThreadView /\ Views
<1> SUFFICES ASSUME Posix PROVE ThreadView /\ Views
  OBVIOUS
<1>1. ASSUME NEW t \in Timers
      PROVE  PhaseF[t] = IF kind[t] = "none" THEN "unused"
                         ELSE IF t \in holder.timers THEN "cancelling"
                         ELSE IF at[t] = "ended" THEN "over" ELSE "running"
  <2>1. PhaseF[t] = Thread!Phase(t) BY DEF PhaseF
  <2>2. QED BY <2>1 DEF Thread!Phase
<1>2. ThreadView BY <1>1 DEF ThreadView, DueF, Thread!Due, FiringF, Thread!Firing
<1>3. DueF \in [Timers -> BOOLEAN] /\ FiringF \in [Timers -> BOOLEAN]
  BY DEF DueF, Thread!Due, FiringF, Thread!Firing
<1>4. PhaseF \in [Timers -> {"unused", "running", "cancelling", "over"}]
  <2>1. PhaseF = [t \in Timers |-> PhaseF[t]] BY DEF PhaseF
  <2>2. QED BY <1>1, <2>1
<1>5. QED BY <1>2, <1>3, <1>4 DEF Views

(* A start, a caller's or a callback's: all others keep what is seen of them. *)
LEMMA ThreadsStart ==
    ASSUME ThreadInv, ThreadView, ThreadView', Views, Views', sound, UNCHANGED sound,
           NEW t \in Timers, NEW k \in Live, Thread!NewSlot(t, k), UNCHANGED holder,
           at'[t] = "waiting",
           \A u \in Timers \ {t} :
              at'[u] = at[u] \/ (at[u] = "locking" /\ at'[u] = "calling")
    PROVE  Kept
<1>1. kind[t] = "none" /\ kind' = [kind EXCEPT ![t] = k] /\ holder.timers = {}
  BY DEF Thread!NewSlot, Thread!LockFree, Thread!Nobody
<1>2. at[t] = "none" /\ kind \in [Timers -> Live \cup {"none"}]
  BY <1>1 DEF ThreadInv
<1>3. kind'[t] = k /\ \A u \in Timers \ {t} : kind'[u] = kind[u] BY <1>1, <1>2
<1>4. PhaseF[t] = "unused" /\ PhaseF'[t] = "running"
  BY <1>1, <1>3 DEF ThreadView, Live
<1>5. \A u \in Timers \ {t} : PhaseF'[u] = PhaseF[u] BY <1>1, <1>3 DEF ThreadView
<1>6. \A u \in Timers : (DueF'[u] <=> DueF[u]) /\ (FiringF'[u] <=> FiringF[u])
  BY <1>2 DEF ThreadView
<1>7. UNCHANGED <<DueF, FiringF>> BY <1>6, DueStays, FiringStays
<1>8. PhaseF' = [PhaseF EXCEPT ![t] = "running"] BY <1>4, <1>5, PhaseAt
<1>9. QED BY <1>1, <1>4, <1>7, <1>8, PromisedStart DEF Live

LEMMA ThreadsStop ==
    ASSUME ThreadInv, ThreadView, ThreadView', Views, Views', sound, UNCHANGED sound,
           NEW t \in Timers, Thread!Stopped(t) \/ Thread!CallbackLocks(t)
    PROVE  Kept
<1>1. /\ at \in [Timers -> Places] /\ UNCHANGED <<kind, running, holder>>
      /\ \/ /\ at[t] = "waiting" /\ ~running[t] /\ at' = [at EXCEPT ![t] = "ended"]
            /\ t \in holder.timers
         \/ at[t] = "calling" /\ at' = [at EXCEPT ![t] = "locking"]
  BY DEF ThreadInv, Thread!Stopped, Thread!CallbackLocks
<1>2. \A u \in Timers : PhaseF'[u] = PhaseF[u] BY <1>1 DEF ThreadView
<1>3. \A u \in Timers : (DueF'[u] <=> DueF[u]) /\ (FiringF'[u] <=> FiringF[u])
  BY <1>1 DEF ThreadView
<1>4. UNCHANGED <<PhaseF, DueF, FiringF>> BY <1>2, <1>3, PhaseStays, DueStays, FiringStays
<1>5. QED BY <1>1, <1>4, PromisedStutter

LEMMA ThreadsExpire ==
    ASSUME ThreadInv, ThreadView, ThreadView', Views, Views', sound, UNCHANGED sound,
           NEW t \in Timers, Thread!Expire(t)
    PROVE  Kept
<1>1. /\ at \in [Timers -> Places] /\ UNCHANGED <<kind, running, holder>>
      /\ at[t] = "waiting" /\ running[t] /\ at' = [at EXCEPT ![t] = "expired"]
      /\ t \notin holder.timers /\ kind[t] # "none"
  BY DEF ThreadInv, Thread!Expire
<1>2. \A u \in Timers : PhaseF'[u] = PhaseF[u] /\ (FiringF'[u] <=> FiringF[u])
  BY <1>1 DEF ThreadView
<1>3. PhaseF[t] = "running" /\ ~DueF[t] /\ DueF'[t] /\ ~FiringF[t] BY <1>1 DEF ThreadView
<1>4. \A u \in Timers \ {t} : DueF'[u] <=> DueF[u] BY <1>1 DEF ThreadView
<1>5. UNCHANGED <<PhaseF, FiringF>> BY <1>2, PhaseStays, FiringStays
<1>6. DueF' = [DueF EXCEPT ![t] = TRUE] BY <1>3, <1>4, DueAt
<1>7. QED BY <1>1, <1>3, <1>5, <1>6, PromisedExpire

(* running, looked at once more, decides between the callback and the end. *)
LEMMA ThreadsCall ==
    ASSUME ThreadInv, ThreadView, ThreadView', Views, Views', sound, UNCHANGED sound,
           NEW t \in Timers, Thread!Call(t)
    PROVE  Kept
<1>1. /\ at \in [Timers -> Places] /\ UNCHANGED <<kind, running, holder>>
      /\ at[t] = "expired" /\ kind[t] # "none"
      /\ at' = [at EXCEPT ![t] = IF running[t] THEN "calling" ELSE "ended"]
  BY DEF ThreadInv, Thread!Call
<1>2. running[t] => t \notin holder.timers BY DEF ThreadInv
<1>3. ~running[t] => t \in holder.timers BY <1>1 DEF ThreadInv
<1>4. \A u \in Timers : PhaseF'[u] = PhaseF[u] BY <1>1, <1>3 DEF ThreadView
<1>5. DueF[t] /\ ~DueF'[t] /\ ~FiringF[t] BY <1>1 DEF ThreadView
<1>6. \A u \in Timers \ {t} : (DueF'[u] <=> DueF[u]) /\ (FiringF'[u] <=> FiringF[u])
  BY <1>1 DEF ThreadView
<1>7. UNCHANGED PhaseF BY <1>4, PhaseStays
<1>8. DueF' = [DueF EXCEPT ![t] = FALSE] BY <1>5, <1>6, DueAt
<1>9. CASE running[t]
  <2>1. FiringF'[t] /\ PhaseF[t] = "running" BY <1>1, <1>2, <1>9 DEF ThreadView
  <2>2. FiringF' = [FiringF EXCEPT ![t] = TRUE] BY <1>6, <2>1, FiringAt
  <2>3. QED BY <1>1, <1>5, <1>7, <1>8, <2>1, <2>2, PromisedFire
<1>10. CASE ~running[t]
  <2>1. ~FiringF'[t] /\ PhaseF[t] = "cancelling" BY <1>1, <1>3, <1>10 DEF ThreadView
  <2>2. UNCHANGED FiringF BY <1>5, <1>6, <2>1, FiringStays
  <2>3. QED BY <1>1, <1>5, <1>7, <1>8, <2>1, <2>2, PromisedDrop
<1>11. QED BY <1>9, <1>10

LEMMA ThreadsReturn ==
    ASSUME ThreadInv, ThreadView, ThreadView', Views, Views', sound, UNCHANGED sound,
           NEW t \in Timers, Thread!Return(t)
    PROVE  Kept
<1>1. /\ at \in [Timers -> Places] /\ UNCHANGED <<kind, holder>>
      /\ at[t] = "calling" /\ kind[t] \in Live
      /\ at' = [at EXCEPT ![t] = IF kind[t] = "periodic" THEN "waiting" ELSE "ended"]
  BY DEF ThreadInv, Thread!Return
<1>2. FiringF[t] /\ ~FiringF'[t] BY <1>1 DEF ThreadView
<1>3. \A u \in Timers \ {t} : PhaseF'[u] = PhaseF[u] /\ (FiringF'[u] <=> FiringF[u])
  BY <1>1 DEF ThreadView
<1>4. \A u \in Timers : DueF'[u] <=> DueF[u] BY <1>1 DEF ThreadView
<1>5. PhaseF'[t] = IF kind[t] = "oneShot" /\ PhaseF[t] = "running" THEN "over" ELSE PhaseF[t]
  BY <1>1 DEF ThreadView, Live
<1>6. UNCHANGED DueF /\ ~DueF[t]
  <2>1. ~DueF[t] BY <1>1 DEF ThreadView
  <2>2. QED BY <1>4, <2>1, DueStays
<1>7. FiringF' = [FiringF EXCEPT ![t] = FALSE] BY <1>2, <1>3, FiringAt
<1>8. CASE kind[t] = "oneShot" /\ PhaseF[t] = "running"
  <2>1. PhaseF' = [PhaseF EXCEPT ![t] = "over"] BY <1>3, <1>5, <1>8, PhaseAt
  <2>2. DueF' = [DueF EXCEPT ![t] = FALSE] BY <1>4, <1>6, DueAt
  <2>3. QED BY <1>1, <1>2, <1>7, <1>8, <2>1, <2>2, PromisedLastReturn
<1>9. CASE ~(kind[t] = "oneShot" /\ PhaseF[t] = "running")
  <2>1. UNCHANGED PhaseF BY <1>3, <1>5, <1>9, PhaseStays
  <2>2. QED BY <1>1, <1>2, <1>6, <1>7, <1>9, <2>1, PromisedReturn
<1>10. QED BY <1>8, <1>9

(* cancel() and stopAll(): whoever is told to stop is waited for ...          *)
LEMMA ThreadsTold ==
    ASSUME ThreadInv, ThreadView, ThreadView', Views, Views', sound, UNCHANGED sound,
           UNCHANGED <<kind, at>>, holder.timers = {},
           \A t \in holder'.timers : t \in Timers /\ running[t]
    PROVE  Kept
<1> DEFINE S == holder'.timers
<1>1. \A t \in S : PhaseF[t] = "running" /\ PhaseF'[t] = "cancelling"
  BY DEF ThreadView, ThreadInv
<1>2. \A t \in Timers : t \notin S => PhaseF'[t] = PhaseF[t] BY DEF ThreadView
<1>3. \A u \in Timers : (DueF'[u] <=> DueF[u]) /\ (FiringF'[u] <=> FiringF[u])
  BY DEF ThreadView
<1>4. UNCHANGED <<DueF, FiringF>> BY <1>3, DueStays, FiringStays
<1>5. CASE S = {}
  <2>1. UNCHANGED PhaseF BY <1>2, <1>5, PhaseStays
  <2>2. QED BY <1>4, <2>1, PromisedStutter
<1>6. CASE S # {}
  <2>1. PhaseF' = [t \in Timers |-> IF t \in S THEN "cancelling" ELSE PhaseF[t]]
    BY <1>1, <1>2 DEF Views
  <2>2. S \in SUBSET Timers /\ \A t \in S : PhaseF[t] = "running" BY <1>1
  <2>3. QED BY <1>4, <1>6, <2>1, <2>2, PromisedRevoke
<1>7. QED BY <1>5, <1>6

(* ... until its thread has ended. *)
LEMMA ThreadsJoined ==
    ASSUME ThreadInv, ThreadView, ThreadView', Views, Views', sound, UNCHANGED sound,
           Thread!Joined
    PROVE  Kept
<1> DEFINE S == holder.timers
<1>1. /\ UNCHANGED <<kind, at>> /\ holder'.timers = {}
      /\ S \in SUBSET Timers /\ \A t \in S : at[t] = "ended" /\ kind[t] # "none"
  BY DEF Thread!Joined, Thread!Nobody, ThreadInv
<1>2. \A t \in S : PhaseF[t] = "cancelling" /\ PhaseF'[t] = "over"
                    /\ ~DueF[t] /\ ~FiringF[t]
  BY <1>1 DEF ThreadView
<1>3. \A t \in Timers : t \notin S => PhaseF'[t] = PhaseF[t] BY <1>1 DEF ThreadView
<1>4. \A u \in Timers : (DueF'[u] <=> DueF[u]) /\ (FiringF'[u] <=> FiringF[u])
  BY <1>1 DEF ThreadView
<1>5. UNCHANGED <<DueF, FiringF>> BY <1>4, DueStays, FiringStays
<1>6. CASE S = {}
  <2>1. UNCHANGED PhaseF BY <1>3, <1>6, PhaseStays
  <2>2. QED BY <1>1, <1>5, <2>1, PromisedStutter
<1>7. CASE S # {}
  <2>1. PhaseF' = [t \in Timers |-> IF t \in S THEN "over" ELSE PhaseF[t]]
    BY <1>2, <1>3 DEF Views
  <2>2. DueF' = [t \in Timers |-> DueF[t] /\ t \notin S]
    <3>1. \A t \in Timers : DueF[t] \in BOOLEAN /\ DueF'[t] \in BOOLEAN BY DEF Views
    <3>2. \A t \in Timers : DueF'[t] <=> DueF[t] /\ t \notin S BY <1>2, <1>4
    <3>3. \A t \in Timers : DueF'[t] = (DueF[t] /\ t \notin S) BY <3>1, <3>2
    <3>4. DueF' = [t \in Timers |-> DueF'[t]] BY DEF Views
    <3>5. QED BY <3>3, <3>4
  <2>3. QED BY <1>1, <1>2, <1>5, <1>7, <2>1, <2>2, PromisedRetire
<1>8. QED BY <1>6, <1>7

LEMMA ThreadsKeepPromise ==
    ASSUME ThreadsInv, Posix, Thread!Next, sound, UNCHANGED <<platform, sound>>
    PROVE  Kept
<1>1. ThreadView /\ Views BY ThreadSeen
<1>2. ThreadView' /\ Views'
  <2>1. (Posix => ThreadView /\ Views)' BY ThreadSeen, PTL
  <2>2. QED BY <2>1 DEF Posix
<1>3. ThreadInv BY DEF ThreadsInv
<1>4. ASSUME NEW t \in Timers, NEW k \in Live, Thread!Start(t, k) PROVE Kept
  BY <1>1, <1>2, <1>3, <1>4, ThreadsStart DEF Thread!Start, ThreadInv
<1>5. ASSUME NEW t \in Timers, NEW s \in Timers, NEW k \in Live, Thread!CallbackStarts(t, s, k)
      PROVE  Kept
  <2>1. s # t BY <1>3, <1>5 DEF Thread!CallbackStarts, Thread!NewSlot, ThreadInv
  <2>2. /\ at'[s] = "waiting"
        /\ \A u \in Timers \ {s} :
              at'[u] = at[u] \/ (at[u] = "locking" /\ at'[u] = "calling")
    BY <1>3, <1>5, <2>1 DEF Thread!CallbackStarts, ThreadInv
  <2>3. QED BY <1>1, <1>2, <1>3, <1>5, <2>2, ThreadsStart DEF Thread!CallbackStarts
<1>6. ASSUME NEW t \in Timers, Thread!Cancel(t) PROVE Kept
  <2>1. Thread!Slot(id[t]) = t /\ running[t] BY <1>6, CancelsItsOwn
  <2>2. holder'.timers = {t} /\ holder.timers = {} /\ UNCHANGED <<kind, at>>
    BY <1>6 DEF Thread!Cancel, Thread!LockFree, Thread!Nobody
  <2>3. QED BY <1>1, <1>2, <1>3, <2>1, <2>2, ThreadsTold
<1>7. CASE Thread!StopAll
  <2>1. /\ holder'.timers = {t \in Timers : running[t]} /\ holder.timers = {}
        /\ UNCHANGED <<kind, at>>
    BY <1>7 DEF Thread!StopAll, Thread!LockFree, Thread!Nobody
  <2>2. QED BY <1>1, <1>2, <1>3, <2>1, ThreadsTold
<1>8. ASSUME NEW t \in Timers,
             Thread!Stopped(t) \/ Thread!CallbackLocks(t) \/ Thread!Expire(t)
                \/ Thread!Call(t) \/ Thread!Return(t)
      PROVE  Kept
  BY <1>1, <1>2, <1>3, <1>8, ThreadsStop, ThreadsExpire, ThreadsCall, ThreadsReturn
<1>9. CASE Thread!Joined BY <1>1, <1>2, <1>3, <1>9, ThreadsJoined
<1>10. QED BY <1>4, <1>5, <1>6, <1>7, <1>8, <1>9 DEF Thread!Next, Thread!ThreadStep, Live

-----------------------------------------------------------------------------
(* Both do. *)

LEMMA PromiseInit == Init => Promise!Init
<1> SUFFICES ASSUME Init PROVE Promise!Init
  OBVIOUS
<1>1. kind = [t \in Timers |-> "none"] /\ (Posix \/ ~Posix) /\ sound = TRUE
  BY DEF Init, Thread!Init, Zephyr!Init
<1>2. Views /\ \A t \in Timers : PhaseF[t] = "unused" /\ ~DueF[t] /\ ~FiringF[t]
  <2>1. CASE Posix
    <3>1. \A t \in Timers : at[t] = "none" BY DEF Init, Thread!Init
    <3>2. QED BY <1>1, <2>1, <3>1, ThreadSeen DEF ThreadView
  <2>2. CASE ~Posix
    <3>1. SlotInv /\ served = "none" BY <1>1, <2>2, SlotInit DEF Init, Zephyr!Init
    <3>2. QED BY <1>1, <2>2, <3>1, SlotSeen, TimersAssumption DEF SlotView, Live
  <2>3. QED BY <2>1, <2>2
<1>3. PhaseF = [t \in Timers |-> "unused"] BY <1>2 DEF Views
<1>4. DueF = [t \in Timers |-> FALSE] /\ FiringF = [t \in Timers |-> FALSE]
  BY <1>2 DEF Views
<1>5. QED BY <1>1, <1>3, <1>4, Zenon DEF Promise!Init, PhaseF, DueF, FiringF

LEMMA PromiseStep ==
    ASSUME TimersInv, [Next]_vars
    PROVE  Kept
<1>1. CASE Posix /\ Thread!Next /\ UNCHANGED <<platform, zephyrVars>>
  BY <1>1, ThreadsKeepPromise DEF TimersInv, zephyrVars
<1>2. CASE ~Posix /\ Zephyr!Next /\ UNCHANGED platform
  BY <1>2, SlotsKeepPromise DEF TimersInv
<1>3. CASE UNCHANGED vars
  <2>1. UNCHANGED <<platform, kind, id, next_id, slots, running, at, holder, active,
                    periodic, callback, ticking, queued, work, served, ended, sound>>
    BY <1>3 DEF vars, threadVars, zephyrVars
  <2>2. CASE ~sound
    <3>1. sound' = FALSE BY <2>1, <2>2 DEF TimersInv
    <3>2. QED BY <3>1, PromisedNothing
  <2>3. CASE sound
    <3>1. /\ Views /\ Views'
          /\ \A t \in Timers : PhaseF'[t] = PhaseF[t]
          /\ \A t \in Timers : (DueF'[t] <=> DueF[t]) /\ (FiringF'[t] <=> FiringF[t])
      <4>1. CASE Posix
        <5>1. ThreadView /\ Views BY <4>1, ThreadSeen
        <5>2. (Posix => ThreadView /\ Views)' BY ThreadSeen, PTL
        <5>3. ThreadView' /\ Views' BY <2>1, <4>1, <5>2 DEF Posix
        <5>4. QED BY <2>1, <5>1, <5>3 DEF ThreadView
      <4>2. CASE ~Posix
        <5>1. SlotView /\ Views BY <2>3, <4>2, SlotSeen DEF TimersInv
        <5>2. (SlotInv /\ ~Posix => SlotView /\ Views)' BY SlotSeen, PTL
        <5>3. TimersInv' BY TimersStep
        <5>4. SlotView' /\ Views' BY <2>1, <2>3, <4>2, <5>2, <5>3 DEF Posix, TimersInv
        <5>5. QED BY <2>1, <5>1, <5>4 DEF SlotView
      <4>3. QED BY <4>1, <4>2
    <3>2. UNCHANGED <<PhaseF, DueF, FiringF>> BY <3>1, PhaseStays, DueStays, FiringStays
    <3>3. QED BY <2>1, <3>2, PromisedStutter
  <2>4. QED BY <2>2, <2>3
<1>4. QED BY <1>1, <1>2, <1>3 DEF Next

(* Both services refine TimerService, fairness left aside: no callback starts
   without an expiry of its own timer, nor after cancel() or stopAll() has
   returned, with cancel() called for any timer at any time.  On Zephyr that
   ends when a slot is handed out whose work item is still in use.            *)
THEOREM ServicesKeepPromise == Spec => Promise!Init /\ [][Promise!Next]_Promise!vars
<1>1. TimersInv /\ [Next]_vars => TimersInv' BY TimersStep
<1>2. TimersInv /\ [Next]_vars => [Promise!Next]_Promise!vars BY PromiseStep DEF Kept
<1>3. QED BY <1>1, <1>2, TimersInit, PromiseInit, PTL DEF Spec

-----------------------------------------------------------------------------
(* What the program does: it cancels nothing.  Then the slots whose work item
   waits or runs are active, and none of them is handed out.                  *)
Clean ==
    ~Posix => \A i \in Zephyr!Slots : i \in queued \/ work = i => active[i]

LEMMA CleanStep ==
    ASSUME TimersInv, sound, Clean, [Next]_vars, \A t \in Timers : ~Zephyr!Cancel(t)
    PROVE  sound' /\ Clean'
<1>1. CASE Posix \/ UNCHANGED vars
  <2>1. UNCHANGED sound /\ (UNCHANGED vars \/ Posix')
    BY <1>1 DEF Next, vars, zephyrVars, Posix
  <2>2. QED BY <1>1, <2>1 DEF vars, zephyrVars, Clean, Posix
<1>2. CASE ~Posix /\ Zephyr!Next /\ UNCHANGED platform
  <2>0. /\ SlotInv /\ SlotTypes /\ Served /\ -1 \notin Zephyr!Slots /\ ~Posix'
        /\ \A i \in Zephyr!Slots : i \in queued \/ work = i => active[i]
    BY <1>2, TimersAssumption DEF TimersInv, SlotInv, Zephyr!Slots, Clean, Posix
  <2>1. ASSUME NEW t \in Timers, NEW k \in Live, Zephyr!Start(t, k)
        PROVE  sound' /\ Clean'
    <3>1. PICK i \in Zephyr!Slots :
            /\ ~active[i]
            /\ active' = [active EXCEPT ![i] = TRUE]
            /\ sound' = (sound /\ i \notin queued /\ work # i)
      BY <2>1, StartTakes
    <3>2. UNCHANGED <<queued, work>> BY <2>1 DEF Zephyr!Start
    <3>3. QED BY <2>0, <3>1, <3>2 DEF Clean, SlotTypes
  <2>2. ASSUME NEW t \in Timers, Zephyr!Refuse(t) PROVE sound' /\ Clean'
    BY <2>0, <2>2 DEF Zephyr!Refuse, Clean
  <2>3. ASSUME NEW i \in Zephyr!Slots, Zephyr!Expire(i) PROVE sound' /\ Clean'
    BY <2>0, <2>3 DEF Zephyr!Expire, Clean, Served
  <2>4. ASSUME NEW i \in Zephyr!Slots, Zephyr!WorkStarts(i) PROVE sound' /\ Clean'
    BY <2>0, <2>4 DEF Zephyr!WorkStarts, Clean
  <2>5. ASSUME Zephyr!WorkEnds PROVE sound' /\ Clean'
    <3>1. /\ work # -1 /\ work' = -1 /\ UNCHANGED <<queued, sound>>
          /\ active' = [active EXCEPT ![work] = @ /\ periodic[work]]
      BY <2>5 DEF Zephyr!WorkEnds
    <3>2. work \in Zephyr!Slots /\ (work \in queued => periodic[work] /\ active[work])
      BY <2>0, <3>1 DEF SlotTypes, Served
    <3>3. \A i \in Zephyr!Slots : i \in queued => active'[i]
      BY <2>0, <3>1, <3>2 DEF SlotTypes
    <3>4. QED BY <2>0, <3>1, <3>3 DEF Clean
  <2>6. QED BY <1>2, <2>1, <2>2, <2>3, <2>4, <2>5 DEF Zephyr!Next, Live
<1>3. QED BY <1>1, <1>2 DEF Next

(* A program that cancels nothing is never without the promise: however timers
   expire, are served and end, no slot is handed out while in use.            *)
THEOREM SoundWithoutCancel ==
    Spec /\ [][\A t \in Timers : ~Zephyr!Cancel(t)]_vars => []sound
<1>1. Init => sound /\ Clean
  BY TimersAssumption DEF Init, Zephyr!Init, Clean, Zephyr!Slots
<1>2. TimersInv /\ sound /\ Clean /\ [Next]_vars /\ [\A t \in Timers : ~Zephyr!Cancel(t)]_vars
        => sound' /\ Clean'
  <2>1. UNCHANGED vars /\ sound /\ Clean => sound' /\ Clean'
    BY DEF vars, zephyrVars, Clean, Posix
  <2>2. QED BY <2>1, CleanStep
<1>3. TimersInv /\ [Next]_vars => TimersInv' BY TimersStep
<1>4. QED BY <1>1, <1>2, <1>3, TimersInit, PTL DEF Spec

=============================================================================
