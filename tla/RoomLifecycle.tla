--------------------------- MODULE RoomLifecycle ---------------------------
(***************************************************************************)
(* What a multiplayer room promises to those who look at it: it is created *)
(* with its host in it, keeps between one and `capacity` participants      *)
(* while it is open, closes once, when the last one leaves, and never      *)
(* opens again.  A request that was under way when the room closed may     *)
(* still change the number, within the capacity.                           *)
(***************************************************************************)
EXTENDS Integers

CONSTANTS
    Rooms,
    Capacities              \* values of max_participants that are asked for

VARIABLES
    status,                 \* "absent", "open" or "closed"
    count,                  \* participant_count
    capacity                \* max_participants

roomVars == <<status, count, capacity>>

Statuses == {"absent", "open", "closed"}

\* The host is let in whatever the capacity, one below 1 included.
Limit(m) == IF capacity[m] < 1 THEN 1 ELSE capacity[m]

RoomsInit ==
    /\ status = [m \in Rooms |-> "absent"]
    /\ count = [m \in Rooms |-> 0]
    /\ capacity = [m \in Rooms |-> 0]

Opens(m) ==
    /\ status[m] = "absent"
    /\ status' = [status EXCEPT ![m] = "open"]
    /\ count' = [count EXCEPT ![m] = 1]
    /\ \E n \in Capacities : capacity' = [capacity EXCEPT ![m] = n]

Recounts(m) ==
    /\ status[m] = "open"
    /\ \E n \in 1..Limit(m) : count' = [count EXCEPT ![m] = n]
    /\ UNCHANGED <<status, capacity>>

Closes(m) ==
    /\ status[m] = "open"
    /\ status' = [status EXCEPT ![m] = "closed"]
    /\ count' = [count EXCEPT ![m] = 0]
    /\ UNCHANGED capacity

Straggles(m) ==
    /\ status[m] = "closed"
    /\ \E n \in 0..Limit(m) : count' = [count EXCEPT ![m] = n]
    /\ UNCHANGED <<status, capacity>>

RoomsNext ==
    \E m \in Rooms : Opens(m) \/ Recounts(m) \/ Closes(m) \/ Straggles(m)

LifecycleSpec == RoomsInit /\ [][RoomsNext]_roomVars
=============================================================================
