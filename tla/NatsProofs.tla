----------------------------- MODULE NatsProofs -----------------------------
(* Theorems about NatsTransport, for any patterns and subjects that NATS takes,
   any number of messages and of threads that publish.                       *)
EXTENDS NatsTransport, FiniteSetTheorems, TLAPS

Patterns == UNION PatternSets

(* The loop of subjectMatchesPattern() decides what NATS promises. *)
THEOREM MatchesAsServer ==
    ASSUME NEW p, NEW s, IsPattern(p), IsSubject(s)
    PROVE  subjectMatchesPattern(p, s) <=> NatsMatches(p, s)
<1>0. /\ Len(p) \in Nat /\ Len(s) \in Nat /\ Len(p) # 0
      /\ \A i \in 1..Len(p) - 1 : p[i] # Rest
      /\ \A i \in 1..Len(s) : s[i] # Rest
  BY DEF IsPattern, IsSubject
<1>1. ASSUME p = s PROVE NatsMatches(p, s)
  BY <1>0, <1>1 DEF NatsMatches, Agrees
<1>2. ASSUME Len(p) = Len(s), \A i \in 1..Len(s) : ~Leaves(p, s, i)
      PROVE  NatsMatches(p, s)
  BY <1>0, <1>2 DEF NatsMatches, Leaves
<1>3. ASSUME NEW i \in 1..Len(s), i <= Len(p), p[i] = Rest,
             \A j \in 1..i - 1 : ~Leaves(p, s, j)
      PROVE  NatsMatches(p, s)
  <2>1. i = Len(p) BY <1>0, <1>3
  <2>2. Len(s) >= Len(p) BY <1>0, <2>1
  <2>3. \A j \in 1..Len(p) - 1 : Agrees(p[j], s[j]) BY <1>3, <2>1 DEF Leaves
  <2>4. p # Nothing BY DEF IsPattern, Nothing
  <2>5. QED BY <1>3, <2>1, <2>2, <2>3, <2>4 DEF NatsMatches
<1>4. ASSUME NatsMatches(p, s) PROVE subjectMatchesPattern(p, s)
  <2>1. CASE /\ Len(p) = Len(s)
             /\ \A i \in 1..Len(p) : p[i] # Rest /\ Agrees(p[i], s[i])
    <3>1. \A i \in 1..Len(s) : ~Leaves(p, s, i) BY <1>0, <2>1 DEF Leaves
    <3>2. QED BY <2>1, <3>1 DEF subjectMatchesPattern
  <2>2. CASE /\ p[Len(p)] = Rest /\ Len(s) >= Len(p)
             /\ \A i \in 1..Len(p) - 1 : Agrees(p[i], s[i])
    <3>1. \A j \in 1..Len(p) - 1 : ~Leaves(p, s, j) BY <1>0, <2>2 DEF Leaves
    <3>2. Len(p) \in 1..Len(s) BY <1>0, <2>2
    <3>3. QED BY <1>0, <2>2, <3>1, <3>2 DEF subjectMatchesPattern
  <2>3. QED BY <1>4, <2>1, <2>2 DEF NatsMatches
<1>5. QED BY <1>1, <1>2, <1>3, <1>4 DEF subjectMatchesPattern

-----------------------------------------------------------------------------
(* Where patterns and messages may be: every subscription of the server has its
   callback in the map, and what arrives for a subscription matches it.      *)
MapInv ==
    /\ wanted \subseteq Patterns
    /\ inserted = Nothing \/ inserted \in subscribers
    /\ subscribers \subseteq Patterns /\ IsFiniteSet(subscribers)
    /\ subs \subseteq subscribers
    /\ wanted \cap subscribers = {}

Delivery(pattern, n) == [sub |-> pattern, message |-> n]

TrafficInv ==
    /\ messages \in Seq(Subjects) /\ Len(messages) <= MaxMessages
    /\ \A a \in arriving : /\ a = Delivery(a.sub, a.message)
                           /\ a.sub \in subscribers
                           /\ a.message \in 1..Len(messages)
                           /\ NatsMatches(a.sub, messages[a.message])

(* Each pattern in the map that matches a message stands for one call of each
   callback at most, which is made or still to come.                         *)
Matching(n) == {q \in subscribers : NatsMatches(q, messages[n])}
Waiting(n)  == {q \in subscribers : Delivery(q, n) \in arriving}

CountOf(p, n) ==
    /\ heard[p][n] # 0 => NatsMatches(p, messages[n])
    /\ heard[p][n] + Cardinality(Waiting(n)) <= Cardinality(Matching(n))

CountInv ==
    /\ heard \in [wanted \cup subscribers -> [1..MaxMessages -> Nat]]
    /\ \A p \in wanted \cup subscribers, n \in 1..MaxMessages :
          p \in wanted \/ n > Len(messages) => heard[p][n] = 0
    /\ \A p \in subscribers, n \in 1..Len(messages) : CountOf(p, n)

NatsInv == MapInv /\ TrafficInv /\ CountInv

LEMMA InitNats == Init => NatsInv
<1> SUFFICES ASSUME Init PROVE NatsInv OBVIOUS
<1>1. MapInv BY FS_EmptySet DEF Init, MapInv, Patterns
<1>2. TrafficInv BY NatsAssumption DEF Init, TrafficInv
<1>3. CountInv BY DEF Init, CountInv
<1>4. QED BY <1>1, <1>2, <1>3 DEF NatsInv

(* What waits for a message is of its matching patterns, and those are finite. *)
LEMMA Counted ==
    ASSUME NatsInv, NEW n \in 1..Len(messages)
    PROVE  /\ Waiting(n) \in SUBSET Matching(n)
           /\ IsFiniteSet(Matching(n)) /\ IsFiniteSet(Waiting(n))
           /\ Cardinality(Matching(n)) \in Nat /\ Cardinality(Waiting(n)) \in Nat
           /\ Cardinality(Waiting(n)) <= Cardinality(Matching(n))
<1>1. Matching(n) \in SUBSET subscribers /\ IsFiniteSet(subscribers)
  BY DEF NatsInv, MapInv, Matching
<1>2. IsFiniteSet(Matching(n)) BY <1>1, FS_Subset
<1>3. Waiting(n) \in SUBSET Matching(n)
  BY DEF NatsInv, TrafficInv, Waiting, Matching, Delivery
<1>4. IsFiniteSet(Waiting(n)) /\ Cardinality(Waiting(n)) <= Cardinality(Matching(n))
  BY <1>2, <1>3, FS_Subset
<1>5. QED BY <1>2, <1>3, <1>4, FS_CardinalityType

(* A pattern comes into the map: its callback was called for nothing so far, and
   the others may be called once more.                                       *)
LEMMA SubscribeKeeps ==
    ASSUME NatsInv, NEW p \in Patterns, Subscribe(p) PROVE NatsInv'
<1>1. /\ p \in wanted /\ wanted' = wanted \ {p} /\ inserted' = p
      /\ subscribers' = subscribers \cup {p}
      /\ UNCHANGED <<subs, messages, arriving, heard>>
  BY DEF Subscribe, trafficVars
<1>2. MapInv' BY <1>1, FS_AddElement DEF NatsInv, MapInv
<1>3. TrafficInv' BY <1>1 DEF NatsInv, TrafficInv
<1>4. wanted' \cup subscribers' = wanted \cup subscribers BY <1>1
<1>5. ASSUME NEW q \in subscribers', NEW n \in 1..Len(messages) PROVE CountOf(q, n)'
  <2>1. Waiting(n)' = Waiting(n)
    <3>1. Delivery(p, n) \notin arriving
      BY <1>1 DEF NatsInv, MapInv, TrafficInv, Delivery
    <3>2. QED BY <1>1, <3>1 DEF Waiting, Delivery
  <2>2. Matching(n) \subseteq Matching(n)' /\ Matching(n)' \in SUBSET subscribers'
    BY <1>1 DEF Matching
  <2>3. IsFiniteSet(Matching(n)') BY <1>2, <2>2, FS_Subset DEF MapInv
  <2>4. /\ Cardinality(Matching(n)) <= Cardinality(Matching(n)')
        /\ Cardinality(Matching(n)') \in Nat
    BY <2>2, <2>3, FS_Subset, FS_CardinalityType
  <2>5. n \in 1..MaxMessages BY NatsAssumption DEF NatsInv, TrafficInv
  <2>6. CASE q = p
    <3>1. heard'[q][n] = 0 BY <1>1, <2>5, <2>6 DEF NatsInv, CountInv
    <3>2. QED BY <2>1, <2>4, <3>1, Counted DEF CountOf
  <2>7. CASE q # p
    <3>1. q \in subscribers /\ heard'[q][n] = heard[q][n] /\ heard[q][n] \in Nat
      BY <1>1, <2>5, <2>7 DEF NatsInv, CountInv
    <3>2. CountOf(q, n) BY <3>1 DEF NatsInv, CountInv
    <3>3. QED BY <1>1, <2>1, <2>4, <3>1, <3>2, Counted DEF CountOf
  <2>8. QED BY <2>6, <2>7
<1>6. CountInv'
  BY <1>1, <1>4, <1>5 DEF NatsInv, CountInv
<1>7. QED BY <1>2, <1>3, <1>6 DEF NatsInv

LEMMA MessageKeeps ==
    ASSUME NatsInv, NEW subject \in Subjects, Message(subject) PROVE NatsInv'
<1> DEFINE N == Len(messages) + 1
<1>1. messages \in Seq(Subjects) /\ messages' = Append(messages, subject)
      /\ N <= MaxMessages
      /\ arriving' = arriving \cup {Delivery(s, N) : s \in {p \in subs : NatsMatches(p, subject)}}
      /\ UNCHANGED <<wanted, inserted, subscribers, subs, heard>>
  BY NatsAssumption DEF NatsInv, TrafficInv, Message, mapVars, Delivery
<1>2. /\ messages' \in Seq(Subjects) /\ Len(messages) \in Nat /\ Len(messages') = N
      /\ messages'[N] = subject
      /\ \A n \in 1..Len(messages) : messages'[n] = messages[n]
  BY <1>1
<1>3. MapInv' BY <1>1 DEF NatsInv, MapInv
<1>4. TrafficInv'
  <2>1. ASSUME NEW a \in arriving'
        PROVE  /\ a = Delivery(a.sub, a.message) /\ a.sub \in subscribers'
               /\ a.message \in 1..Len(messages')
               /\ NatsMatches(a.sub, messages'[a.message])
    <3>1. CASE a \in arriving
      BY <1>1, <1>2, <3>1 DEF NatsInv, TrafficInv
    <3>2. CASE a \notin arriving
      <4>1. PICK p \in subs : a = Delivery(p, N) /\ NatsMatches(p, subject)
        BY <1>1, <2>1, <3>2
      <4>2. p \in subscribers BY DEF NatsInv, MapInv
      <4>3. QED BY <1>1, <1>2, <4>1, <4>2 DEF Delivery
    <3>3. QED BY <3>1, <3>2
  <2>2. QED BY <1>1, <1>2, <2>1 DEF TrafficInv
<1>5. ASSUME NEW p \in subscribers, NEW n \in 1..N PROVE CountOf(p, n)'
  <2>1. CASE n = N
    <3>1. heard'[p][n] = 0
      BY <1>1, <1>2, <2>1 DEF NatsInv, CountInv
    <3>2. Waiting(n)' \in SUBSET Matching(n)'
      BY <1>4 DEF TrafficInv, Waiting, Matching, Delivery
    <3>3. IsFiniteSet(Matching(n)')
      <4>1. Matching(n)' \in SUBSET subscribers' BY DEF Matching
      <4>2. QED BY <1>3, <4>1, FS_Subset DEF MapInv
    <3>4. IsFiniteSet(Waiting(n)') /\ Cardinality(Waiting(n)') <= Cardinality(Matching(n)')
      BY <3>2, <3>3, FS_Subset
    <3>5. Cardinality(Waiting(n)') \in Nat /\ Cardinality(Matching(n)') \in Nat
      BY <3>3, <3>4, FS_CardinalityType
    <3>6. QED BY <3>1, <3>4, <3>5 DEF CountOf
  <2>2. CASE n # N
    <3>1. n \in 1..Len(messages) BY <1>2, <2>2
    <3>2. CountOf(p, n) BY <3>1 DEF NatsInv, CountInv
    <3>3. Matching(n)' = Matching(n) BY <1>1, <1>2, <3>1 DEF Matching
    <3>4. Waiting(n)' = Waiting(n) BY <1>1, <2>2 DEF Waiting, Delivery
    <3>5. QED BY <1>1, <1>2, <3>1, <3>2, <3>3, <3>4 DEF CountOf
  <2>3. QED BY <2>1, <2>2
<1>6. CountInv'
  BY <1>1, <1>2, <1>5 DEF NatsInv, CountInv
<1>7. QED BY <1>3, <1>4, <1>6 DEF NatsInv

(* A delivery has become a call of each callback in the map that matches. *)
LEMMA DispatchKeeps ==
    ASSUME NatsInv, NEW a \in arriving, dispatchMessage(a)
    PROVE  /\ NatsInv'
           /\ heard[a.sub][a.message] \in Nat
           /\ heard'[a.sub][a.message] = heard[a.sub][a.message] + 1
<1>1. /\ arriving' = arriving \ {a} /\ CallMatching(a.message)
      /\ UNCHANGED <<wanted, inserted, subscribers, subs, messages>>
  BY DEF dispatchMessage, mapVars
<1>2. /\ a = Delivery(a.sub, a.message) /\ a.sub \in subscribers
      /\ a.message \in 1..Len(messages) /\ a.message \in 1..MaxMessages
      /\ NatsMatches(a.sub, messages[a.message])
      /\ messages[a.message] \in Subjects
  BY NatsAssumption DEF NatsInv, TrafficInv
<1>3. MapInv' BY <1>1 DEF NatsInv, MapInv
<1>4. TrafficInv' BY <1>1 DEF NatsInv, TrafficInv
<1>5. \A p \in subscribers :
          subjectMatchesPattern(p, messages[a.message]) <=> NatsMatches(p, messages[a.message])
  BY <1>2, NatsAssumption, MatchesAsServer DEF NatsInv, MapInv, Patterns
<1>6. /\ heard \in [wanted \cup subscribers -> [1..MaxMessages -> Nat]]
      /\ heard' \in [wanted \cup subscribers -> [1..MaxMessages -> Nat]]
      /\ \A p \in wanted \cup subscribers, n \in 1..MaxMessages :
            heard'[p][n] = IF /\ n = a.message /\ p \in subscribers
                              /\ NatsMatches(p, messages[a.message])
                           THEN heard[p][n] + 1 ELSE heard[p][n]
  <2>1. heard \in [wanted \cup subscribers -> [1..MaxMessages -> Nat]]
    BY DEF NatsInv, CountInv
  <2>2. heard' = [p \in wanted \cup subscribers |->
                     IF p \in subscribers /\ subjectMatchesPattern(p, messages[a.message])
                     THEN [heard[p] EXCEPT ![a.message] = @ + 1] ELSE heard[p]]
    BY <1>1, <2>1 DEF CallMatching
  <2>3. heard' \in [wanted \cup subscribers -> [1..MaxMessages -> Nat]]
    <3>1. ASSUME NEW p \in wanted \cup subscribers
          PROVE  /\ heard[p] \in [1..MaxMessages -> Nat]
                 /\ [heard[p] EXCEPT ![a.message] = @ + 1] \in [1..MaxMessages -> Nat]
      <4>1. heard[p] \in [1..MaxMessages -> Nat] BY <2>1
      <4>2. a.message \in 1..MaxMessages BY <1>2
      <4>3. heard[p][a.message] \in Nat BY <4>1, <4>2, Zenon
      <4>4. heard[p][a.message] + 1 \in Nat BY <4>3
      <4> DEFINE g == heard[p]
      <4>5. g \in [1..MaxMessages -> Nat] /\ g[a.message] + 1 \in Nat BY <4>1, <4>4
      <4> HIDE DEF g
      <4>6. [g EXCEPT ![a.message] = @ + 1] \in [1..MaxMessages -> Nat] BY <4>5
      <4>7. QED BY <4>5, <4>6 DEF g
    <3> DEFINE f(p) == IF p \in subscribers /\ subjectMatchesPattern(p, messages[a.message])
                       THEN [heard[p] EXCEPT ![a.message] = @ + 1] ELSE heard[p]
    <3>2. \A p \in wanted \cup subscribers : f(p) \in [1..MaxMessages -> Nat]
      BY <3>1
    <3>3. heard' = [p \in wanted \cup subscribers |-> f(p)] BY <2>2
    <3> HIDE DEF f
    <3>4. QED BY <3>2, <3>3
  <2>4. ASSUME NEW p \in wanted \cup subscribers, NEW n \in 1..MaxMessages
        PROVE  heard'[p][n] = IF /\ n = a.message /\ p \in subscribers
                                 /\ NatsMatches(p, messages[a.message])
                              THEN heard[p][n] + 1 ELSE heard[p][n]
    BY <1>2, <1>5, <2>1, <2>2
  <2>5. QED BY <2>1, <2>3, <2>4
<1>7. ASSUME NEW p \in subscribers, NEW n \in 1..Len(messages) PROVE CountOf(p, n)'
  <2>1. n \in 1..MaxMessages /\ CountOf(p, n) /\ Matching(n)' = Matching(n)
    BY <1>1, NatsAssumption DEF NatsInv, TrafficInv, CountInv, Matching
  <2>2. heard[p][n] \in Nat BY <1>6, <2>1
  <2>3. CASE n = a.message
    <3>1. Waiting(n)' = Waiting(n) \ {a.sub} /\ a.sub \in Waiting(n)
      BY <1>1, <1>2, <2>3 DEF Waiting, Delivery
    <3>2. Cardinality(Waiting(n)') = Cardinality(Waiting(n)) - 1
      <4>1. IsFiniteSet(Waiting(n)) BY Counted
      <4>2. \A S : IsFiniteSet(S) /\ a.sub \in S => Cardinality(S \ {a.sub}) = Cardinality(S) - 1
        BY FS_RemoveElement, Zenon
      <4>3. QED BY <3>1, <4>1, <4>2
    <3>3. heard'[p][n] = (IF NatsMatches(p, messages[n]) THEN heard[p][n] + 1 ELSE heard[p][n])
      BY <1>6, <2>1, <2>3
    <3>4. QED BY <1>1, <2>1, <2>2, <3>2, <3>3, Counted DEF CountOf
  <2>4. CASE n # a.message
    <3>1. Waiting(n)' = Waiting(n) BY <1>1, <1>2, <2>4 DEF Waiting, Delivery
    <3>2. heard'[p][n] = heard[p][n] BY <1>6, <2>1, <2>4
    <3>3. QED BY <1>1, <2>1, <3>1, <3>2 DEF CountOf
  <2>5. QED BY <2>3, <2>4
<1>8. ASSUME NEW p \in wanted \cup subscribers, NEW n \in 1..MaxMessages,
             p \in wanted \/ n > Len(messages)
      PROVE  heard'[p][n] = 0
  <2>1. heard[p][n] = 0 BY <1>8 DEF NatsInv, CountInv
  <2>2. n # a.message \/ p \notin subscribers
    BY <1>2, <1>8 DEF NatsInv, MapInv
  <2>3. QED BY <1>6, <2>1, <2>2
<1>9. CountInv' BY <1>1, <1>6, <1>7, <1>8 DEF CountInv
<1>10. QED BY <1>2, <1>3, <1>4, <1>6, <1>9 DEF NatsInv

(* A step that leaves the map and the traffic alone, apart from what the server
   or subscribe() remembers.                                                 *)
LEMMA SameCounts ==
    ASSUME NatsInv, UNCHANGED <<wanted, subscribers, messages, arriving, heard>>, MapInv'
    PROVE  NatsInv'
<1>1. TrafficInv' BY DEF NatsInv, TrafficInv
<1>2. \A n : Matching(n)' = Matching(n) /\ Waiting(n)' = Waiting(n)
  BY DEF Matching, Waiting
<1>3. CountInv' BY <1>2 DEF NatsInv, CountInv, CountOf
<1>4. QED BY <1>1, <1>3 DEF NatsInv

LEMMA NatsStep == NatsInv /\ [Next]_vars => NatsInv'
<1> SUFFICES ASSUME NatsInv, [Next]_vars PROVE NatsInv' OBVIOUS
<1>1. ASSUME NEW p \in Patterns, Subscribe(p) PROVE NatsInv'
  BY <1>1, SubscribeKeeps
<1>2. CASE Subscribed
  <2>1. MapInv' BY <1>2 DEF Subscribed, NatsInv, MapInv
  <2>2. QED BY <1>2, <2>1, SameCounts DEF Subscribed, trafficVars
<1>3. ASSUME NEW subject \in Subjects, Message(subject) PROVE NatsInv'
  BY <1>3, MessageKeeps
<1>4. ASSUME NEW a \in arriving, dispatchMessage(a) PROVE NatsInv'
  BY <1>4, DispatchKeeps
<1>5. CASE Unsubscribe
  <2>1. MapInv' BY <1>5 DEF Unsubscribe, mapVars, NatsInv, MapInv
  <2>2. QED BY <1>5, <2>1, SameCounts DEF Unsubscribe, mapVars, trafficVars
<1>6. CASE UNCHANGED <<mapVars, subs, trafficVars>>
  <2>1. MapInv' BY <1>6 DEF mapVars, NatsInv, MapInv
  <2>2. QED BY <1>6, <2>1, SameCounts DEF mapVars, trafficVars
<1>7. ASSUME \/ UNCHANGED vars \/ Connect \/ Destroy \/ Disconnected
             \/ \E t \in Publishers : Publish(t) \/ Published(t)
      PROVE  UNCHANGED <<mapVars, subs, trafficVars>>
  BY <1>7 DEF vars, Connect, Destroy, Disconnected, Publish, Published, mapVars, trafficVars
<1>8. QED BY <1>1, <1>2, <1>3, <1>4, <1>5, <1>6, <1>7 DEF Next, Caller, Disconnect, Patterns

(* Whatever patterns overlap and wherever subscribe() is between the map and the
   server: no callback is called for a message that its pattern does not match,
   and none more often than patterns match (dispatchMessage()).               *)
THEOREM HeardOnceAlways == Spec => []HeardOnce
<1>1. NatsInv => HeardOnce
  <2> SUFFICES ASSUME NatsInv, NEW p \in subscribers, NEW n \in 1..Len(messages)
               PROVE  /\ heard[p][n] # 0 => NatsMatches(p, messages[n])
                      /\ heard[p][n] <= Cardinality({q \in subscribers : NatsMatches(q, messages[n])})
    BY DEF HeardOnce
  <2>1. CountOf(p, n) BY DEF NatsInv, CountInv
  <2>2. heard[p][n] \in Nat
    BY NatsAssumption DEF NatsInv, CountInv, TrafficInv
  <2>3. Cardinality(Waiting(n)) \in Nat /\ Cardinality(Matching(n)) \in Nat BY Counted
  <2>4. heard[p][n] <= Cardinality(Matching(n)) BY <2>1, <2>2, <2>3 DEF CountOf
  <2>5. QED BY <2>1, <2>4 DEF CountOf, Matching
<1>2. QED BY InitNats, NatsStep, <1>1, PTL DEF Spec

(* What the server sends for a subscription reaches the callback that was given
   with it.                                                                   *)
THEOREM SentIsHeardAlways == Spec => SentIsHeard
<1>1. NatsInv /\ [Next]_vars =>
          [\A a \in arriving \ arriving' :
              heard'[a.sub][a.message] > heard[a.sub][a.message]]_vars
  <2> SUFFICES ASSUME NatsInv, Next, NEW a \in arriving \ arriving'
               PROVE  heard'[a.sub][a.message] > heard[a.sub][a.message]
    OBVIOUS
  <2>1. dispatchMessage(a)
    <3>1. CASE \E b \in arriving : dispatchMessage(b) BY <3>1 DEF dispatchMessage
    <3>2. CASE \E subject \in Subjects : Message(subject) BY <3>2 DEF Message
    <3>3. CASE Caller \/ Disconnect
      BY <3>3 DEF Caller, Disconnect, Connect, Subscribe, Subscribed, Unsubscribe, Destroy,
         Disconnected, trafficVars
    <3>4. CASE \E t \in Publishers : Publish(t) \/ Published(t)
      BY <3>4 DEF Publish, Published, trafficVars
    <3>5. QED BY <3>1, <3>2, <3>3, <3>4 DEF Next
  <2>2. QED BY <2>1, DispatchKeeps
<1>2. QED BY InitNats, NatsStep, <1>1, PTL DEF Spec, SentIsHeard

=============================================================================
