---------------------------- MODULE RoomsProofs ----------------------------
(***************************************************************************)
(* Proofs about Rooms, for any number of rooms, requests and capacities.   *)
(* RoomInv strengthens RoomSound with what a request in progress remembers *)
(* of its room: nothing it has seen is undone later (a room seen is there  *)
(* to stay, one seen closed is closed) and what it saw was within bounds,  *)
(* so the count it computes from there is too.                             *)
(***************************************************************************)
EXTENDS Rooms, TLAPS

USE CapacitiesAssumption, NobodyAssumption

SightSound(r) ==
    /\ seen[r].status # "absent" =>
          /\ status[Room(r)] # "absent"
          /\ seen[r].count <= Limit(Room(r))
    /\ seen[r].status = "open" => seen[r].count >= 1
    /\ seen[r].status = "closed" => status[Room(r)] = "closed"

RequestSound(r) ==
    /\ Active(r) => SightSound(r)
    /\ At(r, "respond") => Admitted(r) /\ NewCount(r) # seen[r].count

RoomInv ==
    /\ TypeOK
    /\ RoomSound
    /\ \A r \in Requests : RequestSound(r)

-----------------------------------------------------------------------------
(* Type correctness.                                                       *)

LEMMA InitType == Init => TypeOK
  BY DEF Init, TypeOK, Lifecycle!RoomsInit, Lifecycle!Statuses, Labels, Calls, Sights

\* Save is given the room and a well-typed new count.
LEMMA SaveType ==
    ASSUME TypeOK, NEW r \in Requests, Save(r)
    PROVE  /\ status' \in [Rooms -> Lifecycle!Statuses]
           /\ count' \in [Rooms -> Nat]
           /\ capacity' \in [Rooms -> Int]
           /\ writer' \in [Rooms -> Requests \cup {Nobody}]
           /\ tally' \in [Rooms -> Nat]
  <1>1. Room(r) \in Rooms /\ seen[r].count \in Nat
    BY DEF TypeOK, Room, Calls, Sights
  <1>2. NewCount(r) \in Nat
    BY <1>1 DEF NewCount
  <1>3. QED
    BY <1>1, <1>2 DEF Save, TypeOK, Lifecycle!Statuses

LEMMA StepType ==
    ASSUME TypeOK, NEW r \in Requests, Step(r)
    PROVE  TypeOK'
  <1> USE DEF TypeOK, Goto, At, Labels, Ended, roomVars
  <1>1. Room(r) \in Rooms
    BY DEF Room, Calls
  <1>2. CASE Refuse(r) \/ LeaveEmpty(r)
    BY <1>2 DEF Refuse, LeaveEmpty
  <1>3. CASE Update(r)
    BY <1>1, <1>3 DEF Update
  <1>4. CASE Commit(r)
    <2>1. Save(r) /\ UNCHANGED <<call, seen, overlapped>>
      BY <1>4 DEF Commit
    <2>2. pc' \in [Requests -> Labels]
      BY <1>4 DEF Commit
    <2>3. QED
      BY <2>1, <2>2, SaveType
  <1>5. CASE Fail(r)
    BY <1>5 DEF Fail
  <1>6. QED
    BY <1>2, <1>3, <1>4, <1>5 DEF Step

LEMMA BeginType ==
    ASSUME TypeOK, NEW r \in Requests, NEW c \in Calls, Begin(r, c)
    PROVE  TypeOK'
  <1>1. c.room \in Rooms
    BY DEF Calls
  <1>2. [status |-> status[c.room], count |-> count[c.room]] \in Sights
    BY <1>1 DEF TypeOK, Sights
  <1>3. QED
    BY <1>1, <1>2 DEF Begin, TypeOK, Goto, Labels, roomVars

LEMMA CreateType ==
    ASSUME TypeOK, NEW m \in Rooms, NEW n \in Capacities, CreateRoom(m, n)
    PROVE  TypeOK'
  BY DEF TypeOK, CreateRoom, requestVars, Lifecycle!Statuses

LEMMA NextType == TypeOK /\ [Next]_vars => TypeOK'
  <1> SUFFICES ASSUME TypeOK, [Next]_vars PROVE TypeOK'
    OBVIOUS
  <1>1. CASE \E m \in Rooms, n \in Capacities : CreateRoom(m, n)
    BY <1>1, CreateType
  <1>2. CASE \E r \in Requests : \E c \in Calls : Begin(r, c)
    BY <1>2, BeginType
  <1>3. CASE \E r \in Requests : Step(r)
    BY <1>3, StepType
  <1>4. CASE UNCHANGED vars
    BY <1>4 DEF vars, roomVars, requestVars, TypeOK
  <1>5. QED
    BY <1>1, <1>2, <1>3, <1>4 DEF Next

\* Every variable keeps its type: no interleaving of requests drives
\* participant_count below zero.
THEOREM TypeCorrect == Spec => []TypeOK
  BY InitType, NextType, PTL DEF Spec

-----------------------------------------------------------------------------
(* RoomInv is inductive.                                                   *)

LEMMA InitRoomInv == Init => RoomInv
  BY InitType DEF Init, RoomInv, RoomSound, RequestSound, Active, At,
                  Lifecycle!RoomsInit

\* What r writes is a number of participants its room may have, and is zero
\* only for the last one to leave.
LEMMA NewCountBounds ==
    ASSUME RoomInv, NEW r \in Requests, At(r, "respond")
    PROVE  /\ Room(r) \in Rooms
           /\ status[Room(r)] # "absent"
           /\ NewCount(r) \in 0..Limit(Room(r))
           /\ Joins(r) => NewCount(r) >= 1
  <1>1. /\ Room(r) \in Rooms
        /\ seen[r].count \in Nat
        /\ capacity[Room(r)] \in Int
    BY DEF RoomInv, TypeOK, Room, Calls, Sights
  <1>2. SightSound(r) /\ Admitted(r)
    BY DEF RoomInv, RequestSound, Active, At
  <1>3. CASE Joins(r)
    BY <1>1, <1>2, <1>3 DEF SightSound, Admitted, NewCount, Limit, Lifecycle!Limit
  <1>4. CASE ~Joins(r)
    BY <1>1, <1>2, <1>4 DEF SightSound, Admitted, NewCount, Limit, Lifecycle!Limit
  <1>5. QED
    BY <1>1, <1>2, <1>3, <1>4 DEF SightSound, Admitted

\* A step that leaves the rooms alone, and changes what one request is doing
\* to something RequestSound allows.
LEMMA QuietKeeps ==
    ASSUME RoomInv, NEW r \in Requests, TypeOK',
           Refuse(r) \/ Update(r) \/ LeaveEmpty(r) \/ Fail(r)
    PROVE  RoomInv'
  <1>1. UNCHANGED <<roomVars, call, seen>>
    BY DEF Refuse, Update, LeaveEmpty, Fail
  <1>2. RoomSound'
    BY <1>1 DEF RoomInv, RoomSound, roomVars, Limit, Lifecycle!Limit
  <1>3. ASSUME NEW q \in Requests PROVE RequestSound(q)'
    <2>1. Active(q)' => Active(q)
      BY DEF RoomInv, TypeOK, Refuse, Update, LeaveEmpty, Fail, Goto,
             At, Active
    <2>2. At(q, "respond")' => (At(q, "respond") \/ (q = r /\ Update(r)))
      BY DEF RoomInv, TypeOK, Refuse, Update, LeaveEmpty, Fail, Goto, At
    <2>3. RequestSound(q) /\ (Update(r) => Admitted(r) /\ NewCount(r) # seen[r].count)
      BY DEF RoomInv, Update
    <2>4. QED
      BY <1>1, <2>1, <2>2, <2>3
         DEF RequestSound, SightSound, Admitted, NewCount, Room, Joins, roomVars,
             Limit, Lifecycle!Limit
  <1>4. QED
    BY <1>2, <1>3 DEF RoomInv

\* A commit: the count is within bounds by NewCountBounds, and what the
\* others saw of the room still holds, as it only ever goes on to close.
LEMMA SaveKeeps ==
    ASSUME RoomInv, NEW r \in Requests, TypeOK', Commit(r)
    PROVE  RoomInv'
  <1> DEFINE m == Room(r)
  <1>1. At(r, "respond") /\ Save(r) /\ UNCHANGED <<call, seen>>
    BY DEF Commit
  <1>2. /\ m \in Rooms
        /\ status[m] # "absent"
        /\ NewCount(r) \in 0..Limit(m)
    BY <1>1, NewCountBounds
  <1>3. /\ \A k \in Rooms : Limit(k)' = Limit(k)
        /\ count' = [count EXCEPT ![m] = NewCount(r)]
        /\ status' = IF NewCount(r) = 0 THEN [status EXCEPT ![m] = "closed"] ELSE status
    BY <1>1 DEF Save, Limit, Lifecycle!Limit
  <1>4. /\ count \in [Rooms -> Nat] /\ status \in [Rooms -> Lifecycle!Statuses]
        /\ \A k \in Rooms : Limit(k) \in Nat
    BY DEF RoomInv, TypeOK, Limit, Lifecycle!Limit
  <1>5. RoomSound'
    <2> SUFFICES ASSUME NEW k \in Rooms
                 PROVE  /\ status'[k] = "open" => count'[k] >= 1
                        /\ status'[k] # "absent" => count'[k] <= Limit(k)
      BY <1>3 DEF RoomSound
    <2>1. CASE k = m
      BY <1>2, <1>3, <1>4, <2>1
    <2>2. CASE k # m
      BY <1>2, <1>3, <1>4, <2>2 DEF RoomInv, RoomSound
    <2>3. QED
      BY <2>1, <2>2
  <1>6. ASSUME NEW q \in Requests PROVE RequestSound(q)'
    <2>1. (Active(q)' => Active(q)) /\ (At(q, "respond")' => At(q, "respond"))
      BY DEF RoomInv, TypeOK, Commit, Goto, At, Active
    <2>2. RequestSound(q) /\ Room(q) \in Rooms /\ Room(q)' = Room(q)
      BY <1>1 DEF RoomInv, TypeOK, Calls, Room
    <2>3. Active(q) => SightSound(q)'
      BY <1>1, <1>2, <1>3, <1>4, <2>2 DEF RequestSound, SightSound
    <2>4. At(q, "respond") => (Admitted(q) /\ NewCount(q) # seen[q].count)'
      BY <1>1, <2>2 DEF RequestSound, Admitted, NewCount, Joins, Save
    <2>5. QED
      BY <2>1, <2>3, <2>4 DEF RequestSound
  <1>7. QED
    BY <1>5, <1>6 DEF RoomInv

LEMMA CreateKeeps ==
    ASSUME RoomInv, NEW m \in Rooms, NEW n \in Capacities, CreateRoom(m, n), TypeOK'
    PROVE  RoomInv'
  <1>1. /\ status[m] = "absent" /\ n \in Int
        /\ status' = [status EXCEPT ![m] = "open"]
        /\ count' = [count EXCEPT ![m] = 1]
        /\ capacity' = [capacity EXCEPT ![m] = n]
        /\ UNCHANGED <<pc, call, seen>>
    BY DEF CreateRoom, requestVars
  <1>2. /\ count \in [Rooms -> Nat] /\ status \in [Rooms -> Lifecycle!Statuses]
        /\ capacity \in [Rooms -> Int]
    BY DEF RoomInv, TypeOK
  <1>3. \A k \in Rooms \ {m} : Limit(k)' = Limit(k)
    BY <1>1, <1>2 DEF Limit, Lifecycle!Limit
  <1>4. RoomSound'
    BY <1>1, <1>2, <1>3 DEF RoomInv, RoomSound, Limit, Lifecycle!Limit
  <1>5. ASSUME NEW q \in Requests PROVE RequestSound(q)'
    <2>1. RequestSound(q) /\ Room(q) \in Rooms /\ Room(q)' = Room(q)
      BY <1>1 DEF RoomInv, TypeOK, Calls, Room
    <2>2. CASE Room(q) = m
      \* q is active on a room that is not there: it has seen none.
      <3>1. Active(q) => seen[q].status = "absent"
        BY <1>1, <2>1, <2>2 DEF RequestSound, SightSound
      <3>2. ~At(q, "respond")
        BY <2>1, <3>1 DEF RequestSound, Admitted, At, Active
      <3>3. QED
        BY <1>1, <2>1, <3>1, <3>2 DEF RequestSound, SightSound, Active, At
    <2>3. CASE Room(q) # m
      BY <1>1, <1>2, <1>3, <2>1, <2>3
         DEF RequestSound, SightSound, Active, At, Admitted, NewCount, Joins
    <2>4. QED
      BY <2>2, <2>3
  <1>6. QED
    BY <1>4, <1>5 DEF RoomInv

LEMMA BeginKeeps ==
    ASSUME RoomInv, NEW r \in Requests, NEW c \in Calls, Begin(r, c), TypeOK'
    PROVE  RoomInv'
  <1>1. /\ UNCHANGED roomVars
        /\ pc' = [pc EXCEPT ![r] = "check"]
        /\ call' = [call EXCEPT ![r] = c]
        /\ seen' = [seen EXCEPT
              ![r] = [status |-> status[c.room], count |-> count[c.room]]]
    BY DEF Begin, Goto
  <1>2. RoomSound'
    BY <1>1 DEF RoomInv, RoomSound, roomVars, Limit, Lifecycle!Limit
  <1>3. ASSUME NEW q \in Requests, q # r PROVE RequestSound(q)'
    <2>1. pc'[q] = pc[q] /\ call'[q] = call[q] /\ seen'[q] = seen[q]
      BY <1>1, <1>3 DEF RoomInv, TypeOK
    <2>2. QED
      BY <1>1, <2>1
         DEF RoomInv, RequestSound, SightSound, Active, At, Admitted, NewCount, Joins,
             Room, roomVars, Limit, Lifecycle!Limit
  <1>4. RequestSound(r)'
    <2>1. /\ pc'[r] = "check" /\ Room(r)' = c.room
          /\ seen'[r].status = status[c.room] /\ seen'[r].count = count[c.room]
          /\ c.room \in Rooms
      BY <1>1 DEF RoomInv, TypeOK, Room, Calls
    <2>2. QED
      BY <1>1, <2>1 DEF RoomInv, TypeOK, RoomSound, RequestSound, SightSound, At,
                        roomVars, Limit, Lifecycle!Limit, Lifecycle!Statuses
  <1>5. QED
    BY <1>2, <1>3, <1>4 DEF RoomInv

LEMMA NextRoomInv == RoomInv /\ [Next]_vars => RoomInv'
  <1> SUFFICES ASSUME RoomInv, [Next]_vars PROVE RoomInv'
    OBVIOUS
  <1>1. TypeOK'
    BY NextType DEF RoomInv
  <1>2. CASE \E m \in Rooms, n \in Capacities : CreateRoom(m, n)
    BY <1>1, <1>2, CreateKeeps
  <1>3. CASE \E r \in Requests : \E c \in Calls : Begin(r, c)
    BY <1>1, <1>3, BeginKeeps
  <1>4. CASE \E r \in Requests : Step(r)
    BY <1>1, <1>4, QuietKeeps, SaveKeeps DEF Step
  <1>5. CASE UNCHANGED vars
    BY <1>1, <1>5 DEF vars, roomVars, requestVars, RoomInv, RoomSound, RequestSound,
       SightSound, Active, At, Admitted, NewCount, Joins, Room, Limit, Lifecycle!Limit
  <1>6. QED
    BY <1>2, <1>3, <1>4, <1>5 DEF Next

\* However many requests overlap, an open room has somebody in it and no room
\* has more than its max_participants, or its host alone where that is zero or
\* negative.
THEOREM RoomCorrect == Spec => []RoomSound
  <1>1. RoomInv => RoomSound
    BY DEF RoomInv
  <1>2. QED
    BY <1>1, InitRoomInv, NextRoomInv, PTL DEF Spec

-----------------------------------------------------------------------------
(* Rooms implements RoomLifecycle.                                         *)

\* A commit is a recount, a closing or, on a closed room, a late write.
LEMMA SaveFollows ==
    ASSUME RoomInv, NEW r \in Requests, Commit(r)
    PROVE  Lifecycle!RoomsNext
  <1> DEFINE m == Room(r)
  <1>1. At(r, "respond") /\ Save(r)
    BY DEF Commit
  <1>2. /\ m \in Rooms
        /\ status[m] # "absent"
        /\ NewCount(r) \in 0..Limit(m)
    BY <1>1, NewCountBounds
  <1>3. /\ count' = [count EXCEPT ![m] = NewCount(r)]
        /\ status' = IF NewCount(r) = 0 THEN [status EXCEPT ![m] = "closed"] ELSE status
        /\ UNCHANGED capacity
    BY <1>1 DEF Save
  <1>4. status \in [Rooms -> Lifecycle!Statuses] /\ Limit(m) \in Nat
    BY <1>2 DEF RoomInv, TypeOK, Limit, Lifecycle!Limit
  <1>5. CASE status[m] = "open" /\ NewCount(r) = 0
    BY <1>2, <1>3, <1>5 DEF Lifecycle!RoomsNext, Lifecycle!Closes
  <1>6. CASE status[m] = "open" /\ NewCount(r) # 0
    <2>1. NewCount(r) \in 1..Lifecycle!Limit(m)
      BY <1>2, <1>4, <1>6 DEF Limit
    <2>2. Lifecycle!Recounts(m)
      BY <1>3, <1>6, <2>1 DEF Lifecycle!Recounts
    <2>3. QED
      BY <1>2, <2>2 DEF Lifecycle!RoomsNext
  <1>7. CASE status[m] = "closed"
    <2>1. status' = status
      BY <1>2, <1>3, <1>4, <1>7
    <2>2. NewCount(r) \in 0..Lifecycle!Limit(m)
      BY <1>2 DEF Limit
    <2>3. Lifecycle!Straggles(m)
      BY <1>3, <1>7, <2>1, <2>2 DEF Lifecycle!Straggles
    <2>4. QED
      BY <1>2, <2>3 DEF Lifecycle!RoomsNext
  <1>8. QED
    BY <1>2, <1>4, <1>5, <1>6, <1>7 DEF Lifecycle!Statuses

LEMMA NextFollows ==
    RoomInv /\ [Next]_vars => [Lifecycle!RoomsNext]_Lifecycle!roomVars
  <1> SUFFICES ASSUME RoomInv, [Next]_vars
               PROVE  [Lifecycle!RoomsNext]_Lifecycle!roomVars
    OBVIOUS
  <1>1. CASE \E m \in Rooms, n \in Capacities : CreateRoom(m, n)
    BY <1>1 DEF CreateRoom, Lifecycle!RoomsNext, Lifecycle!Opens
  <1>2. CASE \E r \in Requests : \E c \in Calls : Begin(r, c)
    BY <1>2 DEF Begin, roomVars, Lifecycle!roomVars
  <1>3. CASE \E r \in Requests : Step(r)
    BY <1>3, SaveFollows DEF Step, Refuse, Update, LeaveEmpty, Fail,
                             roomVars, Lifecycle!roomVars
  <1>4. CASE UNCHANGED vars
    BY <1>4 DEF vars, roomVars, Lifecycle!roomVars
  <1>5. QED
    BY <1>1, <1>2, <1>3, <1>4 DEF Next

\* The rows of multiplayer_rooms go through the life RoomLifecycle describes:
\* initial states and steps of Rooms are its initial states, steps or stutters.
THEOREM LifecycleCorrect == Spec => FollowsLifecycle
  <1>1. Init => Lifecycle!RoomsInit
    BY DEF Init
  <1>2. QED
    BY <1>1, InitRoomInv, NextRoomInv, NextFollows, PTL
       DEF Spec, FollowsLifecycle, Lifecycle!LifecycleSpec

-----------------------------------------------------------------------------
(* The count is exact where no two requests were open at once.             *)

\* At most one request is at work on the room, and it has seen it as it is.
Undisturbed(m) ==
    /\ count[m] = tally[m]
    /\ \A r \in Requests :
          Active(r) /\ Room(r) = m /\ seen[r].status # "absent" =>
              seen[r].count = count[m]
    /\ \A r, q \in Requests :
          Active(r) /\ Active(q) /\ Room(r) = m /\ Room(q) = m => r = q

ExactInv ==
    /\ RoomInv
    /\ \A m \in Rooms \ overlapped : Undisturbed(m)

LEMMA InitExactInv == Init => ExactInv
  BY InitRoomInv DEF Init, ExactInv, Undisturbed, Active, Lifecycle!RoomsInit

LEMMA CreateExact ==
    ASSUME ExactInv, NEW k \in Rooms, NEW n \in Capacities, CreateRoom(k, n)
    PROVE  \A m \in Rooms \ overlapped' : Undisturbed(m)'
  <1> SUFFICES ASSUME NEW m \in Rooms \ overlapped PROVE Undisturbed(m)'
    BY DEF CreateRoom
  <1>1. /\ UNCHANGED <<pc, call, seen>>
        /\ status[k] = "absent"
        /\ count' = [count EXCEPT ![k] = 1]
        /\ tally' = [tally EXCEPT ![k] = 1]
        /\ count \in [Rooms -> Nat] /\ tally \in [Rooms -> Nat]
    BY DEF CreateRoom, requestVars, ExactInv, RoomInv, TypeOK
  <1>2. \A r \in Requests : Active(r) /\ Room(r) = k => seen[r].status = "absent"
    BY <1>1 DEF ExactInv, RoomInv, RequestSound, SightSound
  <1>3. QED
    BY <1>1, <1>2 DEF ExactInv, Undisturbed, Active, Room

LEMMA BeginExact ==
    ASSUME ExactInv, NEW r \in Requests, NEW c \in Calls, Begin(r, c)
    PROVE  \A m \in Rooms \ overlapped' : Undisturbed(m)'
  <1> SUFFICES ASSUME NEW m \in Rooms \ overlapped' PROVE Undisturbed(m)'
    OBVIOUS
  <1>1. /\ UNCHANGED <<count, tally>>
        /\ \A q \in Requests \ {r} : pc'[q] = pc[q] /\ call'[q] = call[q]
                                     /\ seen'[q] = seen[q]
        /\ call'[r] = c /\ seen'[r].count = count[c.room]
    BY DEF Begin, Goto, roomVars, ExactInv, RoomInv, TypeOK
  <1>2. m \notin overlapped
    BY DEF Begin
  <1>3. c.room = m => ~ \E q \in Requests \ {r} : Active(q) /\ Room(q) = m
    BY DEF Begin
  <1>4. QED
    BY <1>1, <1>2, <1>3 DEF ExactInv, Undisturbed, Active, Room

LEMMA QuietExact ==
    ASSUME ExactInv, NEW r \in Requests,
           Refuse(r) \/ Update(r) \/ LeaveEmpty(r) \/ Fail(r)
    PROVE  \A m \in Rooms \ overlapped' : Undisturbed(m)'
  <1>1. UNCHANGED <<count, tally, call, seen, overlapped>>
    BY DEF Refuse, Update, LeaveEmpty, Fail, roomVars
  <1>2. \A q \in Requests : Active(q)' => Active(q)
    BY DEF ExactInv, RoomInv, TypeOK, Refuse, Update, LeaveEmpty, Fail,
           Goto, At, Active
  <1>3. QED
    BY <1>1, <1>2 DEF ExactInv, Undisturbed, Room

\* The only request at work writes one more or one less than what is there.
LEMMA SaveExact ==
    ASSUME ExactInv, NEW r \in Requests, Commit(r)
    PROVE  \A m \in Rooms \ overlapped' : Undisturbed(m)'
  <1> SUFFICES ASSUME NEW m \in Rooms \ overlapped PROVE Undisturbed(m)'
    BY DEF Commit
  <1>1. At(r, "respond") /\ Save(r) /\ UNCHANGED <<call, seen>>
    BY DEF Commit
  <1>2. /\ count \in [Rooms -> Nat] /\ tally \in [Rooms -> Nat]
        /\ Undisturbed(m)
    BY DEF ExactInv, RoomInv, TypeOK
  <1>3. \A q \in Requests : Active(q)' => Active(q) /\ q # r
    BY DEF ExactInv, RoomInv, TypeOK, Commit, Goto, Active
  <1>4. CASE Room(r) # m
    BY <1>1, <1>2, <1>3, <1>4 DEF Save, Undisturbed, Room
  <1>5. CASE Room(r) = m
    <2>1. seen[r].count = count[m]
      BY <1>1, <1>2, <1>5
         DEF ExactInv, RoomInv, RequestSound, Admitted, Undisturbed, Active, At
    <2>2. count'[m] = tally'[m]
      BY <1>1, <1>2, <1>5, <2>1 DEF Save, NewCount, Undisturbed
    <2>3. \A q \in Requests : Active(q)' => Room(q)' # m
      BY <1>1, <1>2, <1>3, <1>5 DEF Undisturbed, Active, At, Room
    <2>4. QED
      BY <2>2, <2>3 DEF Undisturbed
  <1>6. QED
    BY <1>4, <1>5

LEMMA NextExactInv == ExactInv /\ [Next]_vars => ExactInv'
  <1> SUFFICES ASSUME ExactInv, [Next]_vars PROVE ExactInv'
    OBVIOUS
  <1>1. RoomInv'
    BY NextRoomInv DEF ExactInv
  <1>2. CASE \E m \in Rooms, n \in Capacities : CreateRoom(m, n)
    BY <1>1, <1>2, CreateExact DEF ExactInv
  <1>3. CASE \E r \in Requests : \E c \in Calls : Begin(r, c)
    BY <1>1, <1>3, BeginExact DEF ExactInv
  <1>4. CASE \E r \in Requests : Step(r)
    BY <1>1, <1>4, QuietExact, SaveExact DEF Step, ExactInv
  <1>5. CASE UNCHANGED vars
    BY <1>1, <1>5 DEF vars, roomVars, requestVars, ExactInv, Undisturbed, Active, Room
  <1>6. QED
    BY <1>2, <1>3, <1>4, <1>5 DEF Next

\* A room's participant_count is lost track of only by overlapping requests.
THEOREM CountCorrect == Spec => []CountExact
  <1>1. ExactInv => CountExact
    BY DEF ExactInv, Undisturbed, CountExact
  <1>2. QED
    BY <1>1, InitExactInv, NextExactInv, PTL DEF Spec

-----------------------------------------------------------------------------
(* Where no two requests were open at once, a commit is as if the handler  *)
(* ran at once, and a closed room is empty.                                *)

\* The only request at work has seen the room's status as it is.
Settled(m) ==
    /\ status[m] = "closed" => count[m] = 0
    /\ \A r \in Requests :
          Active(r) /\ Room(r) = m /\ seen[r].status # "absent" => seen[r].status = status[m]

SettledInv ==
    /\ ExactInv
    /\ \A m \in Rooms \ overlapped : Settled(m)

LEMMA InitSettled == Init => SettledInv
  BY InitExactInv DEF Init, SettledInv, Settled, Active, Lifecycle!RoomsInit

LEMMA CreateSettled ==
    ASSUME SettledInv, NEW k \in Rooms, NEW n \in Capacities, CreateRoom(k, n)
    PROVE  \A m \in Rooms \ overlapped' : Settled(m)'
  <1> SUFFICES ASSUME NEW m \in Rooms \ overlapped PROVE Settled(m)'
    BY DEF CreateRoom
  <1>1. /\ UNCHANGED <<pc, call, seen>>
        /\ status[k] = "absent"
        /\ status' = [status EXCEPT ![k] = "open"]
        /\ count' = [count EXCEPT ![k] = 1]
        /\ status \in [Rooms -> Lifecycle!Statuses] /\ count \in [Rooms -> Nat]
    BY DEF CreateRoom, requestVars, SettledInv, ExactInv, RoomInv, TypeOK
  <1>2. \A r \in Requests : Active(r) /\ Room(r) = k => seen[r].status = "absent"
    BY <1>1 DEF SettledInv, ExactInv, RoomInv, RequestSound, SightSound
  <1>3. QED
    BY <1>1, <1>2 DEF SettledInv, Settled, Active, Room

LEMMA BeginSettled ==
    ASSUME SettledInv, NEW r \in Requests, NEW c \in Calls, Begin(r, c)
    PROVE  \A m \in Rooms \ overlapped' : Settled(m)'
  <1> SUFFICES ASSUME NEW m \in Rooms \ overlapped' PROVE Settled(m)'
    OBVIOUS
  <1>1. /\ UNCHANGED <<status, count>>
        /\ \A q \in Requests \ {r} : pc'[q] = pc[q] /\ call'[q] = call[q]
                                     /\ seen'[q] = seen[q]
        /\ call'[r] = c /\ seen'[r].status = status[c.room]
    BY DEF Begin, Goto, roomVars, SettledInv, ExactInv, RoomInv, TypeOK
  <1>2. m \notin overlapped
    BY DEF Begin
  <1>3. QED
    BY <1>1, <1>2 DEF SettledInv, Settled, Active, Room

LEMMA QuietSettled ==
    ASSUME SettledInv, NEW r \in Requests,
           Refuse(r) \/ Update(r) \/ LeaveEmpty(r) \/ Fail(r)
    PROVE  \A m \in Rooms \ overlapped' : Settled(m)'
  <1>1. UNCHANGED <<status, count, call, seen, overlapped>>
    BY DEF Refuse, Update, LeaveEmpty, Fail, roomVars
  <1>2. \A q \in Requests : Active(q)' => Active(q)
    BY DEF SettledInv, ExactInv, RoomInv, TypeOK, Refuse, Update, LeaveEmpty, Fail,
           Goto, At, Active
  <1>3. QED
    BY <1>1, <1>2 DEF SettledInv, Settled, Room

\* What a request that is alone commits, it decided on the room as it is.
LEMMA AloneSees ==
    ASSUME SettledInv, NEW r \in Requests, At(r, "respond"), Room(r) \notin overlapped
    PROVE  LET m == Room(r)
           IN  /\ m \in Rooms /\ seen[r].status = status[m] /\ seen[r].count = count[m]
               /\ status[m] = "open" /\ count[m] \in Nat /\ count[m] >= 1
               /\ Joins(r) => call[r].password /\ count[m] < capacity[m]
               /\ Settled(m)
  <1> DEFINE m == Room(r)
  <1>1. /\ m \in Rooms /\ count[m] \in Nat /\ status[m] \in Lifecycle!Statuses
        /\ RequestSound(r) /\ RoomSound
    BY DEF SettledInv, ExactInv, RoomInv, TypeOK, Room, Calls
  <1>2. Active(r) /\ Admitted(r) /\ NewCount(r) # seen[r].count
    BY <1>1 DEF RequestSound, Active, At
  <1>3. seen[r].count = count[m] /\ seen[r].status = status[m] /\ Settled(m)
    BY <1>1, <1>2 DEF SettledInv, Settled, ExactInv, Undisturbed, Admitted
  <1>4. status[m] = "open"
    BY <1>1, <1>2, <1>3 DEF Admitted, Settled, NewCount, Lifecycle!Statuses
  <1>5. count[m] >= 1
    BY <1>1, <1>4 DEF RoomSound
  <1>6. Joins(r) => call[r].password /\ count[m] < capacity[m]
    BY <1>2, <1>3 DEF Admitted
  <1>7. QED
    BY <1>1, <1>3, <1>4, <1>5, <1>6

LEMMA SaveSettled ==
    ASSUME SettledInv, NEW r \in Requests, Commit(r)
    PROVE  \A m \in Rooms \ overlapped' : Settled(m)'
  <1> SUFFICES ASSUME NEW m \in Rooms \ overlapped PROVE Settled(m)'
    BY DEF Commit
  <1>1. At(r, "respond") /\ Save(r) /\ UNCHANGED <<call, seen>>
    BY DEF Commit
  <1>2. /\ count \in [Rooms -> Nat] /\ status \in [Rooms -> Lifecycle!Statuses]
        /\ Settled(m) /\ Undisturbed(m)
    BY DEF SettledInv, ExactInv, RoomInv, TypeOK
  <1>3. \A q \in Requests : Active(q)' => Active(q) /\ q # r
    BY DEF SettledInv, ExactInv, RoomInv, TypeOK, Commit, Goto, Active
  <1>4. CASE Room(r) # m
    BY <1>1, <1>2, <1>3, <1>4 DEF Save, Settled, Room
  <1>5. CASE Room(r) = m
    <2>1. status[m] = "open"
      BY <1>1, <1>5, AloneSees
    <2>2. status'[m] = "closed" => count'[m] = 0
      BY <1>1, <1>2, <1>5, <2>1 DEF Save
    <2>3. \A q \in Requests : Active(q)' => Room(q)' # m
      BY <1>1, <1>2, <1>3, <1>5 DEF Undisturbed, Active, At, Room
    <2>4. QED
      BY <2>2, <2>3 DEF Settled
  <1>6. QED
    BY <1>4, <1>5

LEMMA NextSettled == SettledInv /\ [Next]_vars => SettledInv'
  <1> SUFFICES ASSUME SettledInv, [Next]_vars PROVE SettledInv'
    OBVIOUS
  <1>1. ExactInv'
    BY NextExactInv DEF SettledInv
  <1>2. CASE \E m \in Rooms, n \in Capacities : CreateRoom(m, n)
    BY <1>1, <1>2, CreateSettled DEF SettledInv
  <1>3. CASE \E r \in Requests : \E c \in Calls : Begin(r, c)
    BY <1>1, <1>3, BeginSettled DEF SettledInv
  <1>4. CASE \E r \in Requests : Step(r)
    BY <1>1, <1>4, QuietSettled, SaveSettled DEF Step, SettledInv
  <1>5. CASE UNCHANGED vars
    BY <1>1, <1>5 DEF vars, roomVars, requestVars, SettledInv, Settled, Active, Room
  <1>6. QED
    BY <1>2, <1>3, <1>4, <1>5 DEF Next

\* What ClosedIsEmpty says holds of every room that no two requests were open
\* on at once: what breaks it is an overlap, of a join or of another leave with
\* the one that closes the room.
THEOREM ClosedIsEmptyAlone ==
    Spec => [](\A m \in Rooms \ overlapped : status[m] = "closed" => count[m] = 0)
  <1>1. SettledInv => \A m \in Rooms \ overlapped : status[m] = "closed" => count[m] = 0
    BY DEF SettledInv, Settled
  <1>2. QED
    BY <1>1, InitSettled, NextSettled, PTL DEF Spec

\* The whole handler of request r on the room of one moment.
AtOnce(r) ==
    LET m == Room(r)
    IN  /\ status[m] = "open"
        /\ Joins(r) => call[r].password /\ count[m] < capacity[m]
        /\ count' = [count EXCEPT ![m] = IF Joins(r) THEN @ + 1 ELSE @ - 1]
        /\ status' = IF ~Joins(r) /\ count[m] = 1 THEN [status EXCEPT ![m] = "closed"]
                     ELSE status
        /\ UNCHANGED capacity

\* A request that no other on its room overlapped commits what its handler
\* would have decided and written at the moment of the commit.
THEOREM CommitsAsAtOnce ==
    Spec => [][\A r \in Requests : Commit(r) /\ Room(r) \notin overlapped => AtOnce(r)]_vars
  <1> DEFINE Serial == \A r \in Requests : Commit(r) /\ Room(r) \notin overlapped => AtOnce(r)
  <1>1. SettledInv => Serial
    <2> SUFFICES ASSUME SettledInv, NEW r \in Requests, Commit(r), Room(r) \notin overlapped
                 PROVE  AtOnce(r)
      OBVIOUS
    <2> DEFINE m == Room(r)
    <2>1. At(r, "respond") /\ Save(r)
      BY DEF Commit
    <2>2. /\ m \in Rooms /\ seen[r].count = count[m] /\ status[m] = "open"
          /\ count[m] \in Nat /\ count[m] >= 1
          /\ Joins(r) => call[r].password /\ count[m] < capacity[m]
      BY <2>1, AloneSees
    <2>3. NewCount(r) = IF Joins(r) THEN count[m] + 1 ELSE count[m] - 1
      BY <2>2 DEF NewCount
    <2>4. NewCount(r) = 0 <=> ~Joins(r) /\ count[m] = 1
      BY <2>2, <2>3
    <2>5. /\ count' = [count EXCEPT ![m] = NewCount(r)]
          /\ status' = IF NewCount(r) = 0 THEN [status EXCEPT ![m] = "closed"] ELSE status
          /\ UNCHANGED capacity
      BY <2>1 DEF Save
    <2>6. count' = [count EXCEPT ![m] = IF Joins(r) THEN @ + 1 ELSE @ - 1]
      BY <2>2, <2>3, <2>5 DEF SettledInv, ExactInv, RoomInv, TypeOK
    <2>7. QED
      BY <2>2, <2>4, <2>5, <2>6 DEF AtOnce
  <1>2. SettledInv => [Serial]_vars
    BY <1>1
  <1> HIDE DEF Serial
  <1>3. Spec => [][Serial]_vars
    BY <1>2, InitSettled, NextSettled, PTL DEF Spec
  <1>4. QED
    BY <1>3 DEF Serial

=============================================================================
