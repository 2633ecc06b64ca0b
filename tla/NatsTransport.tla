---------------------------- MODULE NatsTransport ----------------------------
(* NatsCloudTransportAdapter: the gateway's connection to NATS.  The server
   matches a message against each subscription and hands it to the client
   library once for every one that matches, and the library calls the adapter
   in a thread of the subscription.  The adapter then matches the subject once
   more, against every pattern it was ever given, and calls all that match.

   The caller connects once, subscribes to a few patterns, publishes from
   several threads and disconnects, as CloudGatewayClient does.  Subjects and
   patterns are sequences of tokens.                                         *)
EXTENDS Integers, Sequences, FiniteSets

CONSTANTS PatternSets,   \* what the caller may subscribe to
          Subjects,      \* of the messages the server has
          Publishers,    \* threads that publish
          MaxMessages    \* bound: messages of one behaviour

Any == "*"
Rest == ">"

(* What NATS takes as a pattern and as a subject: ">" ends a pattern, and there
   are no wildcards in the subject of a message.                             *)
IsPattern(p) == p \in Seq(STRING) /\ p # <<>> /\ \A i \in 1..Len(p) - 1 : p[i] # Rest
IsSubject(s) == s \in Seq(STRING) /\ s # <<>> /\ \A i \in 1..Len(s) : s[i] \notin {Any, Rest}

ASSUME NatsAssumption ==
    /\ \A p \in UNION PatternSets : IsPattern(p)
    /\ \A s \in Subjects : IsSubject(s)
    /\ MaxMessages \in Nat

VARIABLES wanted,       \* patterns the caller still subscribes to
          inserted,     \* the pattern between map and natsConnection_Subscribe()
          connected,    \* connected_
          conn,         \* impl_->conn: none, open, freed
          subscribers,  \* the patterns of subscribers_
          subs,         \* the server's subscriptions
          messages,     \* the subjects of the messages so far
          arriving,     \* messages handed to a subscription's thread
          heard,        \* history: how often a pattern's callback was called for a message
          disconnecting,\* where disconnect() is
          publishing,   \* threads past publish()'s check
          touched       \* threads that used the connection after it was freed

vars == <<wanted, inserted, connected, conn, subscribers, subs, messages,
          arriving, heard, disconnecting, publishing, touched>>
mapVars == <<wanted, inserted, subscribers>>
trafficVars == <<messages, arriving, heard>>
publishVars == <<publishing, touched>>

Nothing == <<>>

-----------------------------------------------------------------------------
(* Matching. *)

Agrees(token, word) == token = Any \/ token = word

(* What NATS promises: "*" stands for one token, a final ">" for one or more. *)
NatsMatches(pattern, subject) ==
    \/ /\ Len(pattern) = Len(subject)
       /\ \A i \in 1..Len(pattern) : pattern[i] # Rest /\ Agrees(pattern[i], subject[i])
    \/ /\ pattern # Nothing /\ pattern[Len(pattern)] = Rest
       /\ Len(subject) >= Len(pattern)
       /\ \A i \in 1..Len(pattern) - 1 : Agrees(pattern[i], subject[i])

(* The loop over the subject's tokens leaves at the first that is beyond the
   pattern, meets ">" or differs.                                            *)
Leaves(pattern, subject, i) ==
    \/ i > Len(pattern)
    \/ pattern[i] = Rest
    \/ ~Agrees(pattern[i], subject[i])

(* Mistake: after the loop, a longer pattern is taken for a match. *)
subjectMatchesPattern_Longer(pattern, subject) ==
    \/ pattern = subject
    \/ \A i \in 1..Len(subject) : ~Leaves(pattern, subject, i)
    \/ \E i \in 1..Len(subject) :
          /\ i <= Len(pattern) /\ pattern[i] = Rest
          /\ \A j \in 1..i - 1 : ~Leaves(pattern, subject, j)

(* Mistake: ">" is taken for a literal. *)
subjectMatchesPattern_NoRest(pattern, subject) ==
    \/ pattern = subject
    \/ /\ Len(pattern) = Len(subject)
       /\ \A i \in 1..Len(subject) : ~Leaves(pattern, subject, i)

(* True at ">", and after the loop if the pattern is used up. *)
subjectMatchesPattern(pattern, subject) ==
    \/ pattern = subject
    \/ /\ Len(pattern) = Len(subject)
       /\ \A i \in 1..Len(subject) : ~Leaves(pattern, subject, i)
    \/ \E i \in 1..Len(subject) :
          /\ i <= Len(pattern) /\ pattern[i] = Rest
          /\ \A j \in 1..i - 1 : ~Leaves(pattern, subject, j)

-----------------------------------------------------------------------------
Init ==
    /\ wanted \in PatternSets
    /\ inserted = Nothing
    /\ connected = FALSE /\ conn = "none"
    /\ subscribers = {} /\ subs = {}
    /\ messages = <<>> /\ arriving = {}
    /\ heard = [p \in wanted |-> [n \in 1..MaxMessages |-> 0]]
    /\ disconnecting = "no"
    /\ publishing = {} /\ touched = {}

(* connect(), once, which may fail. *)
Connect ==
    /\ conn = "none" /\ disconnecting = "no"
    /\ conn' = "open" /\ connected' = TRUE
    /\ UNCHANGED <<mapVars, subs, trafficVars, disconnecting, publishVars>>

(* subscribe() puts the callback into the map and then asks the server, which
   may refuse; the callback stays.                                           *)
Subscribe(pattern) ==
    /\ connected /\ disconnecting = "no"
    /\ inserted = Nothing /\ pattern \in wanted
    /\ wanted' = wanted \ {pattern}
    /\ inserted' = pattern
    /\ subscribers' = subscribers \cup {pattern}
    /\ UNCHANGED <<connected, conn, subs, trafficVars, disconnecting, publishVars>>

Subscribed ==
    /\ inserted # Nothing
    /\ subs' \in {subs, subs \cup {inserted}}
    /\ inserted' = Nothing
    /\ UNCHANGED <<wanted, subscribers, connected, conn, trafficVars,
                   disconnecting, publishVars>>

(* The server has a message and hands it to each subscription that matches. *)
Message(subject) ==
    /\ conn = "open" /\ Len(messages) < MaxMessages
    /\ messages' = Append(messages, subject)
    /\ arriving' = arriving \cup
           {[sub |-> s, message |-> Len(messages) + 1] :
               s \in {p \in subs : NatsMatches(p, subject)}}
    /\ UNCHANGED <<mapVars, connected, conn, subs, heard, disconnecting, publishVars>>

(* The callbacks of all patterns that match are called for a message. *)
CallMatching(n) ==
    heard' = [p \in DOMAIN heard |->
                 IF p \in subscribers /\ subjectMatchesPattern(p, messages[n])
                 THEN [heard[p] EXCEPT ![n] = @ + 1] ELSE heard[p]]

(* Mistake: a message is kept until its callback says that it is done. *)
dispatchMessage_Kept(a) ==
    /\ a \in arriving
    /\ arriving' \in {arriving, arriving \ {a}}
    /\ CallMatching(a.message)
    /\ UNCHANGED <<mapVars, connected, conn, subs, messages, disconnecting, publishVars>>

(* onMessage() and dispatchMessage(), in the subscription's thread. *)
dispatchMessage(a) ==
    /\ a \in arriving
    /\ arriving' = arriving \ {a}
    /\ CallMatching(a.message)
    /\ UNCHANGED <<mapVars, connected, conn, subs, messages, disconnecting, publishVars>>

(* disconnect(): the subscriptions, then the connection, then the flags. *)
Unsubscribe ==
    /\ connected /\ disconnecting = "no" /\ inserted = Nothing
    /\ disconnecting' = "unsubscribed"
    /\ subs' = {}
    /\ UNCHANGED <<mapVars, connected, conn, trafficVars, publishVars>>

Destroy ==
    /\ disconnecting = "unsubscribed"
    /\ disconnecting' = "destroyed"
    /\ conn' = "freed"
    /\ UNCHANGED <<mapVars, connected, subs, trafficVars, publishVars>>

Disconnected ==
    /\ disconnecting = "destroyed"
    /\ disconnecting' = "done"
    /\ conn' = "none" /\ connected' = FALSE
    /\ UNCHANGED <<mapVars, subs, trafficVars, publishVars>>

(* publish() checks the flag and the pointer, and uses the pointer later: a
   thread between the two while disconnect() runs uses freed memory.  The
   reader threads of the signal bus are such threads, for the gateway shuts
   down before the bus disconnects.                                          *)
Publish(t) ==
    /\ t \notin publishing
    /\ connected /\ conn # "none"
    /\ publishing' = publishing \cup {t}
    /\ UNCHANGED <<mapVars, connected, conn, subs, trafficVars, disconnecting, touched>>

Published(t) ==
    /\ t \in publishing
    /\ publishing' = publishing \ {t}
    /\ touched' = IF conn = "open" THEN touched ELSE touched \cup {t}
    /\ UNCHANGED <<mapVars, connected, conn, subs, trafficVars, disconnecting>>

Caller == Connect \/ Subscribed \/ \E p \in UNION PatternSets : Subscribe(p)
Disconnect == Unsubscribe \/ Destroy \/ Disconnected

Next ==
    \/ Caller
    \/ \E subject \in Subjects : Message(subject)
    \/ \E a \in arriving : dispatchMessage(a)
    \/ Disconnect
    \/ \E t \in Publishers : Publish(t) \/ Published(t)

Spec == Init /\ [][Next]_vars

-----------------------------------------------------------------------------
(* Properties. *)

(* A callback hears only what its own pattern matches, by the server's rules
   and not the adapter's, and a message at most once for each of the caller's
   patterns that match it: as the server sends it for each of them and the
   adapter calls every callback each time, nothing else may add to that.  The
   gateway's two command subjects have no subject in common, so that a command
   is not carried out twice.                                                 *)
HeardOnce ==
    \A p \in subscribers, n \in 1..Len(messages) :
        /\ heard[p][n] # 0 => NatsMatches(p, messages[n])
        /\ heard[p][n] <= Cardinality({q \in subscribers : NatsMatches(q, messages[n])})

(* What the server sends for a subscription reaches the callback given with
   it: the adapter's matching is never narrower than the server's.           *)
SentIsHeard ==
    [][\A a \in arriving \ arriving' :
           heard'[a.sub][a.message] > heard[a.sub][a.message]]_vars

=============================================================================
