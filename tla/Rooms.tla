------------------------------- MODULE Rooms -------------------------------
(***************************************************************************)
(* Multiplayer rooms: create_room, join_room and leave_room of             *)
(* app/api/v2/rooms.py, each request one database session                  *)
(* (app/core/database.py) on MySQL at REPEATABLE READ.                     *)
(*                                                                         *)
(* A request reads the room as of its first query (the authentication of   *)
(* its user), computes the new participant_count from that, and writes it  *)
(* over the row's latest version: an UPDATE of the changed columns alone,  *)
(* under an exclusive lock kept to the end of the transaction.  Nothing    *)
(* records who is in a room (the code's TODO), so anybody may leave.  The  *)
(* playlist, its current item and the leaderboard are left out.  So is the *)
(* commit get_beatmap makes when it has to fetch a beatmap: those of a     *)
(* playlist are in the database, by the foreign key of its items.          *)
(***************************************************************************)
EXTENDS Integers

CONSTANTS
    Rooms,
    Capacities,             \* max_participants is any int, never validated
    Requests,               \* PUT and DELETE on /rooms/{id}/users/{id}
    Nobody                  \* no request

ASSUME CapacitiesAssumption == Capacities \subseteq Int
ASSUME NobodyAssumption == Nobody \notin Requests

VARIABLES
    status, count, capacity,    \* the committed rows of multiplayer_rooms
    pc,                     \* where each request is
    call,                   \* what it asks for
    seen,                   \* the room as its transaction reads it
    writer,                 \* who has the exclusive lock on a room's row
    tally,                  \* history: count, had all requests run in turn
    overlapped              \* history: rooms two requests were open on at once

roomVars == <<status, count, capacity>>
requestVars == <<pc, call, seen, writer>>
vars == <<roomVars, requestVars, tally, overlapped>>

Lifecycle == INSTANCE RoomLifecycle
Limit(m) == Lifecycle!Limit(m)

Calls == [kind : {"join", "leave"}, room : Rooms, password : BOOLEAN]
Sights == [status : Lifecycle!Statuses, count : Nat]
Ended == {"done", "refused", "failed"}
Labels == {"idle", "check", "respond"} \cup Ended

Room(r) == call[r].room
Joins(r) == call[r].kind = "join"
Active(r) == pc[r] \in {"check", "respond"}
At(r, l) == pc[r] = l
Goto(r, l) == pc' = [pc EXCEPT ![r] = l]

TypeOK ==
    /\ status \in [Rooms -> Lifecycle!Statuses]
    /\ count \in [Rooms -> Nat]
    /\ capacity \in [Rooms -> Int]
    /\ pc \in [Requests -> Labels]
    /\ call \in [Requests -> Calls]
    /\ seen \in [Requests -> Sights]
    /\ writer \in [Rooms -> Requests \cup {Nobody}]
    /\ tally \in [Rooms -> Nat]
    /\ overlapped \in SUBSET Rooms

Init ==
    /\ Lifecycle!RoomsInit
    /\ pc = [r \in Requests |-> "idle"]
    /\ \E m \in Rooms :
          call = [r \in Requests |-> [kind |-> "leave", room |-> m, password |-> FALSE]]
    /\ seen = [r \in Requests |-> [status |-> "absent", count |-> 0]]
    /\ writer = [m \in Rooms |-> Nobody]
    /\ tally = [m \in Rooms |-> 0]
    /\ overlapped = {}

-----------------------------------------------------------------------------

\* create_room: nobody sees the room before it is committed, and a request
\* that fails before leaves nothing.
CreateRoom(m, n) ==
    /\ status[m] = "absent"
    /\ status' = [status EXCEPT ![m] = "open"]
    /\ count' = [count EXCEPT ![m] = 1]
    /\ capacity' = [capacity EXCEPT ![m] = n]
    /\ tally' = [tally EXCEPT ![m] = 1]
    /\ UNCHANGED <<requestVars, overlapped>>

\* get_current_user opens the transaction, and with it the snapshot.
Begin(r, c) ==
    /\ At(r, "idle")
    /\ Goto(r, "check")
    /\ call' = [call EXCEPT ![r] = c]
    /\ seen' = [seen EXCEPT ![r] = [status |-> status[c.room], count |-> count[c.room]]]
    /\ overlapped' =
          IF \E q \in Requests \ {r} : Active(q) /\ Room(q) = c.room
            THEN overlapped \cup {c.room} ELSE overlapped
    /\ UNCHANGED <<roomVars, writer, tally>>

\* Faulty variant: `>` for `>=` in the test of the capacity.
AdmittedToo(r) ==
    /\ seen[r].status # "absent"
    /\ Joins(r) =>
          /\ seen[r].status = "open"
          /\ call[r].password
          /\ seen[r].count <= capacity[Room(r)]

\* The room exists; to join it, it must be open, the password right and the
\* count below max_participants.
Admitted(r) ==
    /\ seen[r].status # "absent"
    /\ Joins(r) =>
          /\ seen[r].status = "open"
          /\ call[r].password
          /\ seen[r].count < capacity[Room(r)]

Refuse(r) ==
    /\ At(r, "check")
    /\ ~Admitted(r)
    /\ Goto(r, "refused")
    /\ UNCHANGED <<roomVars, call, seen, writer, tally, overlapped>>

\* Faulty variant: no lower bound.
NewCountUnclamped(r) ==
    IF Joins(r) THEN seen[r].count + 1 ELSE seen[r].count - 1

\* count + 1, or max(0, count - 1).
NewCount(r) ==
    IF Joins(r) THEN seen[r].count + 1
    ELSE IF seen[r].count = 0 THEN 0
    ELSE seen[r].count - 1

\* The UPDATE is sent when the session is flushed: by the first query of
\* _get_room_response, or by the commit.  It waits for the row.
Update(r) ==
    /\ At(r, "check")
    /\ Admitted(r)
    /\ NewCount(r) # seen[r].count
    /\ writer[Room(r)] = Nobody
    /\ writer' = [writer EXCEPT ![Room(r)] = r]
    /\ Goto(r, "respond")
    /\ UNCHANGED <<roomVars, call, seen, tally, overlapped>>

\* Leaving a room read as empty changes no column: no UPDATE is sent.
LeaveEmpty(r) ==
    /\ At(r, "check")
    /\ Admitted(r)
    /\ NewCount(r) = seen[r].count
    /\ Goto(r, "done")
    /\ UNCHANGED <<roomVars, call, seen, writer, tally, overlapped>>

\* Faulty variant: the row is written back whole, with the status read.
SaveWholeRow(r) ==
    LET m == Room(r)
    IN  /\ count' = [count EXCEPT ![m] = NewCount(r)]
        /\ status' = [status EXCEPT ![m] =
                         IF NewCount(r) = 0 THEN "closed" ELSE seen[r].status]
        /\ tally' = [tally EXCEPT ![m] = NewCount(r)]
        /\ writer' = [writer EXCEPT ![m] = Nobody]
        /\ UNCHANGED capacity

\* A commit: the count computed from the snapshot becomes the row's, and the
\* last one to leave closes the room.
Save(r) ==
    LET m == Room(r)
    IN  /\ count' = [count EXCEPT ![m] = NewCount(r)]
        /\ status' = IF NewCount(r) = 0 THEN [status EXCEPT ![m] = "closed"] ELSE status
        /\ tally' = [tally EXCEPT ![m] =
                        IF Joins(r) THEN @ + 1 ELSE IF @ = 0 THEN 0 ELSE @ - 1]
        /\ writer' = [writer EXCEPT ![m] = Nobody]
        /\ UNCHANGED capacity

\* get_db commits when the handler has returned.
Commit(r) ==
    /\ At(r, "respond")
    /\ Save(r)
    /\ Goto(r, "done")
    /\ UNCHANGED <<call, seen, overlapped>>

\* Faulty variant: the exception path commits.
FailSaves(r) ==
    /\ At(r, "respond")
    /\ Goto(r, "failed")
    /\ count' = [count EXCEPT ![Room(r)] = NewCount(r)]
    /\ writer' = [writer EXCEPT ![Room(r)] = Nobody]
    /\ UNCHANGED <<status, capacity, call, seen, tally, overlapped>>

\* An exception, or the server going down: what is not committed is lost.
Fail(r) ==
    /\ Active(r)
    /\ Goto(r, "failed")
    /\ writer' = [m \in Rooms |-> IF writer[m] = r THEN Nobody ELSE writer[m]]
    /\ UNCHANGED <<roomVars, call, seen, tally, overlapped>>

Step(r) ==
    \/ Refuse(r) \/ Update(r) \/ LeaveEmpty(r)
    \/ Commit(r) \/ Fail(r)

Next ==
    \/ \E m \in Rooms, n \in Capacities : CreateRoom(m, n)
    \/ \E r \in Requests :
          \/ \E c \in Calls : Begin(r, c)
          \/ Step(r)

Spec == Init /\ [][Next]_vars
-----------------------------------------------------------------------------
(* Properties.                                                             *)

\* However requests interleave and whatever updates they lose, an open room
\* has somebody in it, and no room more than it admits: max_participants, or
\* its host alone where that is zero or negative.
RoomSound ==
    \A m \in Rooms :
        /\ status[m] = "open" => count[m] >= 1
        /\ status[m] # "absent" => count[m] <= Limit(m)

\* participant_count is exact as long as no two requests are open on the room
\* at once: neither a failed nor a refused request is counted.
CountExact ==
    \A m \in Rooms \ overlapped : count[m] = tally[m]

\* The rows change as RoomLifecycle says: a room closes once, by its last
\* participant, and no late write reopens it.
FollowsLifecycle == Lifecycle!LifecycleSpec

\* "Close room if empty" (rooms.py:324): a closed room has nobody in it.
ClosedIsEmpty ==
    \A m \in Rooms : status[m] = "closed" => count[m] = 0
=============================================================================
