------------------------------- MODULE MCNats --------------------------------
(* The adapter with every pair of short patterns of two words and the two
   wildcards, and with the gateway's own.                                    *)
EXTENDS NatsTransport

Words == {"a", "b"}
Upto(n, S) == UNION {[1..k -> S] : k \in 1..n}

ShortSubjects == Upto(3, Words)

(* ">" at the end only, as NATS requires. *)
ShortPatterns ==
    {p \in Upto(2, Words \cup {Any, Rest}) : \A i \in 1..Len(p) - 1 : p[i] # Rest}

Gateway == {<<"vehicles", Any, "command", "door", "lock">>,
            <<"vehicles", Any, "command", "lights", "set">>}

AppSubjects == {<<"vehicles", vin, "command", "door", "lock">> : vin \in {"VIN", "default"}}
               \cup {<<"vehicles", "VIN", "command", "lights", "set">>}

Pairs == {{p, q} : p, q \in ShortPatterns}

MCPatternSets == Pairs \cup {Gateway}
MCSubjects == ShortSubjects \cup AppSubjects

=============================================================================
