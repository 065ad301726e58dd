--------------------------- MODULE PresenceLease ----------------------------
(***************************************************************************)
(* What the presence store promises, whatever the hub does.  A presence is *)
(* a record under a lease of at most Ttl units.  Only a request made by a  *)
(* live connection of the user and still open writes it, so that one that  *)
(* has lapsed comes back with a new request and not with a renewal, which  *)
(* changes no record; and time ends what nobody renews, also after a       *)
(* crash.                                                                  *)
(***************************************************************************)
EXTENDS Naturals

CONSTANTS
    Owners,                 \* the users
    Values,                 \* what a presence may be
    None,                   \* no presence
    Ttl                     \* the length of a lease

VARIABLES
    served,                 \* users with a live connection
    asked,                  \* <<user, value>> of the open requests to write
    record,                 \* [Owners -> Values \cup {None}]
    lease                   \* [Owners -> 0..Ttl], 0 where there is no record

leaseVars == <<served, asked, record, lease>>

LeaseInit ==
    /\ served = {} /\ asked = {}
    /\ record = [u \in Owners |-> None]
    /\ lease = [u \in Owners |-> 0]

Come(u) ==
    /\ served' = served \cup {u}
    /\ UNCHANGED <<asked, record, lease>>

Ask(u, v) ==
    /\ u \in served
    /\ asked' = asked \cup {<<u, v>>}
    /\ UNCHANGED <<served, record, lease>>

\* Requests fail, connections end, or all of them with the server: who is not
\* served has no request left, and records and leases stay.
Leave ==
    /\ served' \in SUBSET served
    /\ asked' \in SUBSET {p \in asked : p[1] \in served'}
    /\ UNCHANGED <<record, lease>>

\* The request is answered; there may be another with the same value.
Write(u, v) ==
    /\ u \in served
    /\ <<u, v>> \in asked
    /\ asked' \in {asked, asked \ {<<u, v>>}}
    /\ record' = [record EXCEPT ![u] = v]
    /\ lease' = [lease EXCEPT ![u] = Ttl]
    /\ UNCHANGED served

Renew(u) ==
    /\ u \in served
    /\ record[u] # None
    /\ lease' = [lease EXCEPT ![u] = Ttl]
    /\ UNCHANGED <<served, asked, record>>

Revoke(u) ==
    /\ u \in served
    /\ record' = [record EXCEPT ![u] = None]
    /\ lease' = [lease EXCEPT ![u] = 0]
    /\ UNCHANGED <<served, asked>>

Elapse ==
    /\ lease' = [u \in Owners |-> IF lease[u] = 0 THEN 0 ELSE lease[u] - 1]
    /\ record' = [u \in Owners |-> IF lease[u] <= 1 THEN None ELSE record[u]]
    /\ UNCHANGED <<served, asked>>

LeaseNext ==
    \/ \E u \in Owners : Come(u) \/ Renew(u) \/ Revoke(u)
    \/ \E u \in Owners, v \in Values : Ask(u, v) \/ Write(u, v)
    \/ Leave
    \/ Elapse

LeaseSpec == LeaseInit /\ [][LeaseNext]_leaseVars
=============================================================================
