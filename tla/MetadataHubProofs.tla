-------------------------- MODULE MetadataHubProofs -------------------------
(***************************************************************************)
(* Proofs about MetadataHub, for any users, connections, presences and any *)
(* time to live of at least two units, with no bound on faults beyond that *)
(* MaxFaults is a number.                                                  *)
(***************************************************************************)
EXTENDS MetadataHub, TLAPS

USE UserOfAssumption, OnlineAssumption, NoneAssumption, TtlAssumption, MaxFaultsAssumption

\* A key exists as long as it has time to live.
TimedSound == \A u \in Users : presence[u] = None <=> ttl[u] = 0

TypeInv == TypeOK /\ TimedSound

-----------------------------------------------------------------------------
(* Type correctness.                                                       *)

LEMMA FreshType == Fresh \in Presences
  BY DEF Fresh, Presences

LEMMA InitType == Init => TypeInv
  BY FreshType DEF Init, TypeInv, TypeOK, TimedSound, Labels, Absent

\* The kinds of steps, by what they may do to the store and the registries.
ConnectStep(c) == Accept(c) \/ HandshakeOk(c) \/ HandshakeFails(c)
LoopStep(c) == ClientCall(c) \/ TimesOut(c)

LEMMA ConnectType ==
    ASSUME TypeInv, NEW c \in Conns, ConnectStep(c)
    PROVE  TypeInv'
  BY DEF ConnectStep, Accept, HandshakeOk, HandshakeFails, Goto, TypeInv, TypeOK, TimedSound, Labels,
         Handlers, Cleanup, storeVars, registryVars, connVars, historyVars

LEMMA HearsType ==
    ASSUME TypeInv, NEW c \in Conns, NEW l \in Labels, Hears(c, l),
           own' \in [Conns -> Presences], watching' \in [Conns -> BOOLEAN], quiet' \in SUBSET Conns
    PROVE  TypeInv'
  BY DEF Hears, Goto, TypeInv, TypeOK, TimedSound, storeVars, registryVars

LEMMA LoopType ==
    ASSUME TypeInv, NEW c \in Conns, LoopStep(c)
    PROVE  TypeInv'
  <1> USE DEF Labels, Handlers, Cleanup
  <1>1. own \in [Conns -> Presences] /\ watching \in [Conns -> BOOLEAN] /\ quiet \in SUBSET Conns
    BY DEF TypeInv, TypeOK
  <1>2. ASSUME NEW a \in Activities \cup {NoActivity}, UpdateActivity(c, a) PROVE TypeInv'
    <2>1. own' \in [Conns -> Presences]
      BY <1>1, <1>2 DEF UpdateActivity, Presences
    <2>2. QED
      BY <1>1, <1>2, <2>1, HearsType DEF UpdateActivity
  <1>3. ASSUME NEW s \in Statuses \cup {None}, UpdateStatus(c, s) PROVE TypeInv'
    <2>1. own' \in [Conns -> Presences]
      BY <1>1, <1>3 DEF UpdateStatus, Presences
    <2>2. QED
      BY <1>1, <1>3, <2>1, HearsType DEF UpdateStatus
  <1>4. CASE BeginWatchingUserPresence(c) \/ EndWatchingUserPresence(c) \/ Chatter(c)
    BY <1>1, <1>4, HearsType
       DEF BeginWatchingUserPresence, EndWatchingUserPresence, Chatter
  <1>5. CASE Ping(c) \/ TimesOut(c) \/ LeaveLoop(c)
    BY <1>1, <1>5, HearsType DEF Ping, TimesOut, LeaveLoop
  <1>6. QED
    BY <1>2, <1>3, <1>4, <1>5 DEF LoopStep, ClientCall

LEMMA ServerType ==
    ASSUME TypeInv, NEW c \in Conns, ServerStep(c)
    PROVE  TypeInv'
  <1> USE DEF Goto, Keeps, TypeInv, TypeOK, TimedSound, Labels, Handlers, Cleanup, Absent,
              registryVars, storeVars
  <1>1. CASE SetsPresence(c)
    <2>1. own[c] \in Presences /\ own[c] # None
      OBVIOUS
    <2>2. QED
      BY <1>1, <2>1 DEF SetsPresence
  <1>2. CASE Expires(c)
    BY <1>2 DEF Expires
  <1>3. CASE AddsWatcher(c) \/ RemsWatcher(c)
    <2>1. watching' \in [Conns -> BOOLEAN]
      BY <1>3, Zenon DEF AddsWatcher, RemsWatcher
    <2>2. QED
      BY <1>3, <2>1 DEF AddsWatcher, RemsWatcher
  <1>4. CASE GetsOnline(c) \/ FinWatcher(c)
    BY <1>4 DEF GetsOnline, FinWatcher
  <1>5. CASE ReadsWatchers(c, "broadcast", "notify") \/ ReadsWatchers(c, "finBroadcast", "finNotify")
    BY <1>5 DEF ReadsWatchers
  <1>6. CASE Notifies(c, "notify") \/ Notifies(c, "finNotify") \/ Notified(c)
    BY <1>6 DEF Notifies, Notified
  <1>7. CASE FinPresence(c)
    BY <1>7 DEF FinPresence
  <1>8. CASE FinPops(c)
    BY <1>8, FreshType DEF FinPops, Dropped
  <1>9. QED
    BY <1>1, <1>2, <1>3, <1>4, <1>5, <1>6, <1>7, <1>8 DEF ServerStep

LEMMA UndoneType ==
    ASSUME NEW c
    PROVE  Undone(c) \subseteq {"presence", "watcher"}
  BY DEF Undone

LEMMA FaultType ==
    ASSUME TypeInv, Tick \/ Crash \/ \E c \in Conns : RedisError(c)
    PROVE  TypeInv'
  <1> USE DEF TypeInv, TypeOK, TimedSound, registryVars, connVars, historyVars
  <1>1. CASE Tick
    <2>1. /\ ttl' \in [Users -> 0..Ttl] /\ presence' \in [Users -> Presences \cup {None}]
          /\ \A u \in Users : presence'[u] = None <=> ttl'[u] = 0
      BY <1>1 DEF Tick
    <2>2. neglected' \in SUBSET Users /\ idle' \in SUBSET Conns
      BY <1>1 DEF Tick
    <2>3. QED
      BY <1>1, <2>1, <2>2 DEF Tick
  <1>2. CASE Crash
    <2>1. left' \in [Conns -> SUBSET {"presence", "watcher"}]
      BY <1>2, UndoneType DEF Crash
    <2>2. QED
      BY <1>2, <2>1, FreshType DEF Crash, Dropped, storeVars, Labels, Absent
  <1>3. CASE \E c \in Conns : RedisError(c)
    <2>1. PICK c \in Conns : RedisError(c)
      BY <1>3
    <2>2. QED
      <3>1. faults' \in 0..MaxFaults /\ disturbed' \in SUBSET Users
        BY <2>1 DEF RedisError
      <3>2. pc' \in [Conns -> Labels]
        BY <2>1 DEF RedisError, Goto, Labels, Absent, Cleanup
      <3>3. left' \in [Conns -> SUBSET {"presence", "watcher"}]
        BY <2>1, UndoneType DEF RedisError
      <3>4. PICK D \in {{}, {c}} : Dropped(D)
        BY <2>1 DEF RedisError
      <3>5. QED
        BY <2>1, <3>1, <3>2, <3>3, <3>4, FreshType DEF RedisError, Dropped, storeVars
  <1>4. QED
    BY <1>1, <1>2, <1>3

LEMMA NextType == TypeInv /\ [Next]_vars => TypeInv'
  <1> SUFFICES ASSUME TypeInv, [Next]_vars PROVE TypeInv'
    OBVIOUS
  <1>1. CASE UNCHANGED vars
    BY <1>1 DEF vars, storeVars, registryVars, connVars, historyVars, TypeInv, TypeOK, TimedSound
  <1>2. QED
    BY <1>1, ConnectType, LoopType, ServerType, FaultType DEF Next, ConnectStep, LoopStep

\* Every variable keeps its type; a presence has no time to live of more than
\* TTL_PRESENCE, whatever renews it.
THEOREM TypeCorrect == Spec => []TypeOK
  <1>1. TypeInv => TypeOK
    BY DEF TypeInv
  <1>2. QED
    BY <1>1, InitType, NextType, PTL DEF Spec

-----------------------------------------------------------------------------
(* Who is present or watches has a connection to undo it, or one that ended *)
(* with that not done.                                                     *)

Keeper(c) == Open(c) /\ pc[c] \notin Cleanup \ {"finPresence"}
WatchKeeper(c) == Open(c) /\ pc[c] \notin Cleanup \ {"finPresence", "finWatcher"}
Backs(c) == Keeper(c) \/ "presence" \in left[c]
WatchBacks(c) == WatchKeeper(c) \/ "watcher" \in left[c]

LEMMA UndoneMeans ==
    ASSUME NEW c
    PROVE  /\ "presence" \in Undone(c) <=> Keeper(c)
           /\ "watcher" \in Undone(c) <=> WatchKeeper(c)
  BY DEF Undone, Keeper, WatchKeeper, Cleanup

\* A step of connection c alone that gives nobody else a presence, and itself
\* one only while it will remove it, and that records what c leaves behind.
LEMMA BackedStep ==
    ASSUME TypeInv, PresenceBacked, NEW c \in Conns,
           \A d \in Conns \ {c} : pc'[d] = pc[d] /\ left'[d] = left[d],
           Backs(c) => Backs(c)' \/ presence'[UserOf[c]] = None,
           WatchBacks(c) => WatchBacks(c)' \/ UserOf[c] \notin watchers',
           \A u \in Users : presence'[u] # None =>
               presence[u] # None \/ (u = UserOf[c] /\ Backs(c)'),
           \A u \in watchers' : u \in watchers \/ (u = UserOf[c] /\ WatchBacks(c)')
    PROVE  PresenceBacked'
  <1> SUFFICES /\ \A u \in Users : presence'[u] # None => \E d \in Conns : UserOf[d] = u /\ Backs(d)'
               /\ \A u \in watchers' : \E d \in Conns : UserOf[d] = u /\ WatchBacks(d)'
    BY DEF PresenceBacked, Backs, WatchBacks, Keeper, WatchKeeper, Undone, Cleanup
  <1>0. /\ \A u \in Users : presence[u] # None => \E d \in Conns : UserOf[d] = u /\ Backs(d)
        /\ \A u \in watchers : \E d \in Conns : UserOf[d] = u /\ WatchBacks(d)
    BY UndoneMeans DEF PresenceBacked, Backs, WatchBacks
  <1>1. ASSUME NEW u \in Users, presence'[u] # None
        PROVE  \E d \in Conns : UserOf[d] = u /\ Backs(d)'
    <2>1. CASE u = UserOf[c] /\ Backs(c)'
      BY <2>1
    <2>2. CASE presence[u] # None
      <3>1. PICK d \in Conns : UserOf[d] = u /\ Backs(d)
        BY <1>0, <2>2
      <3>2. CASE d = c
        BY <1>1, <3>1, <3>2
      <3>3. CASE d # c
        BY <3>1, <3>3 DEF Backs, Keeper, Open
      <3>4. QED
        BY <3>2, <3>3
    <2>3. QED
      BY <1>1, <2>1, <2>2
  <1>2. ASSUME NEW u \in watchers'
        PROVE  \E d \in Conns : UserOf[d] = u /\ WatchBacks(d)'
    <2>1. CASE u = UserOf[c] /\ WatchBacks(c)'
      BY <2>1
    <2>2. CASE u \in watchers
      <3>1. PICK d \in Conns : UserOf[d] = u /\ WatchBacks(d)
        BY <1>0, <2>2
      <3>2. CASE d = c
        BY <1>2, <3>1, <3>2
      <3>3. CASE d # c
        BY <3>1, <3>3 DEF WatchBacks, WatchKeeper, Open
      <3>4. QED
        BY <3>2, <3>3
    <2>3. QED
      BY <1>2, <2>1, <2>2
  <1>3. QED
    BY <1>1, <1>2

LEMMA ConnectBacked ==
    ASSUME TypeInv, PresenceBacked, NEW c \in Conns, ConnectStep(c) \/ LoopStep(c)
    PROVE  PresenceBacked'
  <1>1. PICK l \in {"handshake", "setPresence", "finPresence", "addWatcher", "remWatcher",
                    "loop", "expire"} : Goto(c, l)
    BY DEF ConnectStep, Accept, HandshakeOk, HandshakeFails, LoopStep, ClientCall, Hears, TimesOut,
           UpdateActivity, UpdateStatus, BeginWatchingUserPresence, EndWatchingUserPresence,
           Chatter, Ping, LeaveLoop
  <1>2. UNCHANGED <<storeVars, left>>
    BY DEF ConnectStep, Accept, HandshakeOk, HandshakeFails, LoopStep, ClientCall, Hears, TimesOut,
           UpdateActivity, UpdateStatus, BeginWatchingUserPresence, EndWatchingUserPresence,
           Chatter, Ping, LeaveLoop, historyVars
  <1>3. Keeper(c)' /\ WatchKeeper(c)' /\ \A d \in Conns \ {c} : pc'[d] = pc[d]
    BY <1>1 DEF Goto, Keeper, WatchKeeper, Open, Absent, Cleanup, TypeInv, TypeOK
  <1>4. QED
    BY <1>2, <1>3, BackedStep DEF storeVars, Backs, WatchBacks

LEMMA ServerBacked ==
    ASSUME TypeInv, PresenceBacked, NEW c \in Conns, ServerStep(c)
    PROVE  PresenceBacked'
  <1> USE DEF Goto, At, Backs, WatchBacks, Keeper, WatchKeeper, Open, Absent, Cleanup, TypeInv, TypeOK,
              Keeps, storeVars
  <1>1. CASE SetsPresence(c)
    BY <1>1, BackedStep DEF SetsPresence
  <1>2. CASE Expires(c) \/ GetsOnline(c)
    BY <1>2, BackedStep DEF Expires, GetsOnline
  <1>3. CASE AddsWatcher(c) \/ RemsWatcher(c)
    BY <1>3, BackedStep DEF AddsWatcher, RemsWatcher
  <1>4. CASE ReadsWatchers(c, "broadcast", "notify") \/ ReadsWatchers(c, "finBroadcast", "finNotify")
    BY <1>4, BackedStep DEF ReadsWatchers
  <1>5. CASE Notifies(c, "notify") \/ Notifies(c, "finNotify") \/ Notified(c)
    BY <1>5, BackedStep DEF Notifies, Notified
  <1>6. CASE FinPresence(c)
    BY <1>6, BackedStep DEF FinPresence
  <1>7. CASE FinWatcher(c)
    BY <1>7, BackedStep DEF FinWatcher
  <1>8. CASE FinPops(c)
    BY <1>8, BackedStep DEF FinPops, Dropped
  <1>9. QED
    BY <1>1, <1>2, <1>3, <1>4, <1>5, <1>6, <1>7, <1>8 DEF ServerStep

LEMMA NextBacked == TypeInv /\ PresenceBacked /\ [Next]_vars => PresenceBacked'
  <1> SUFFICES ASSUME TypeInv, PresenceBacked, [Next]_vars PROVE PresenceBacked'
    OBVIOUS
  <1>1. CASE Crash
    <2>1. UNCHANGED storeVars
      BY <1>1 DEF Crash, Dropped
    <2>2. \A d \in Conns : Undone(d) \cup left[d] \subseteq left'[d]
      BY <1>1 DEF Crash
    <2>3. QED
      BY <2>1, <2>2 DEF PresenceBacked, storeVars
  <1>2. CASE \E c \in Conns : RedisError(c)
    <2>1. PICK c \in Conns : RedisError(c)
      BY <1>2
    <2>2. /\ UNCHANGED storeVars
          /\ \A d \in Conns \ {c} : pc'[d] = pc[d] /\ left'[d] = left[d]
      BY <2>1 DEF RedisError, Dropped, Goto, TypeInv, TypeOK
    <2>3. (Backs(c) => Backs(c)') /\ (WatchBacks(c) => WatchBacks(c)')
      <3>1. CASE pc[c] \in Cleanup
        <4>1. left'[c] = left[c] \cup Undone(c)
          BY <2>1, <3>1 DEF RedisError, TypeInv, TypeOK
        <4>2. QED
          BY <4>1, UndoneMeans DEF Backs, WatchBacks
      <3>2. CASE pc[c] \notin Cleanup
        BY <2>1, <3>2 DEF RedisError, Goto, Backs, WatchBacks, Keeper, WatchKeeper, Open, Absent,
                          Cleanup, TypeInv, TypeOK
      <3>3. QED
        BY <3>1, <3>2
    <2>4. QED
      BY <2>2, <2>3, BackedStep DEF storeVars
  <1>3. CASE Tick
    <2>1. /\ UNCHANGED <<watchers, left>> /\ \A d \in Conns : Undone(d)' = Undone(d)
          /\ \A u \in Users : presence'[u] \in {presence[u], None}
      BY <1>3 DEF Tick, Undone, Open
    <2>2. QED
      BY <2>1 DEF PresenceBacked
  <1>4. CASE UNCHANGED vars
    <2>1. UNCHANGED <<storeVars, left>> /\ \A d \in Conns : Undone(d)' = Undone(d)
      BY <1>4 DEF vars, historyVars, Undone, Open
    <2>2. QED
      BY <2>1 DEF PresenceBacked, storeVars
  <1>5. QED
    BY <1>1, <1>2, <1>3, <1>4, ConnectBacked, ServerBacked DEF Next, ConnectStep, LoopStep

\* A presence and a watcher have a connection whose finally block will remove
\* them, or one that an error of that removal or a crash kept from it, however
\* the connections of a user overlap.
THEOREM PresenceBackedCorrect == Spec => []PresenceBacked
  <1>1. Init => PresenceBacked
    BY DEF Init, PresenceBacked
  <1>2. QED
    BY <1>1, InitType, NextType, NextBacked, PTL DEF Spec

-----------------------------------------------------------------------------
(* The hub implements the lease.                                           *)

\* A step that leaves the store alone and opens no connection and no request:
\* connections and requests end.
LEMMA LeaseLeave ==
    ASSUME TypeInv, TypeInv', UNCHANGED <<presence, ttl>>,
           \A c \in Conns : Open(c)' => Open(c),
           \A c \in Conns : At(c, "setPresence")' => At(c, "setPresence") /\ own'[c] = own[c]
    PROVE  Lease!LeaseNext
  <1>1. Served' \subseteq Served
    BY DEF Served
  <1>2. Asked' \subseteq Asked
    BY DEF Asked
  <1>3. \A p \in Asked' : p[1] \in Served'
    BY DEF Served, Asked, At, Open, Absent, TypeInv, TypeOK
  <1>4. Lease!Leave
    BY <1>1, <1>2, <1>3 DEF Lease!Leave
  <1>5. QED
    BY <1>4 DEF Lease!LeaseNext

\* A step that stores nothing, and leaves connections and requests as they are.
LEMMA LeaseKept ==
    ASSUME \A c \in Conns : Open(c)' = Open(c),
           \A c \in Conns : At(c, "setPresence")' = At(c, "setPresence"),
           \A c \in Conns : At(c, "setPresence") => own'[c] = own[c]
    PROVE  Served' = Served /\ Asked' = Asked
  BY DEF Served, Asked

LEMMA ConnectLease ==
    ASSUME TypeInv, NEW c \in Conns, ConnectStep(c)
    PROVE  Lease!LeaseNext
  <1> USE DEF ConnectStep, Accept, HandshakeOk, HandshakeFails, Goto, At, Open, Absent,
              TypeInv, TypeOK, storeVars, connVars
  <1>1. UNCHANGED <<presence, ttl, own>> /\ TypeInv'
    BY ConnectType
  <1>2. CASE Accept(c)
    <2>1. \A d \in Conns : Open(d)' <=> Open(d) \/ d = c
      BY <1>2
    <2>2. \A d \in Conns : At(d, "setPresence")' <=> At(d, "setPresence")
      BY <1>2
    <2>3. Served' = Served \cup {UserOf[c]} /\ Asked' = Asked
      <3> HIDE DEF ConnectStep, Accept, HandshakeOk, HandshakeFails, Goto, At, Open, Absent,
                   TypeInv, TypeOK, storeVars, connVars
      <3>1. QED
        BY <1>1, <2>1, <2>2 DEF Served, Asked
    <2>4. Lease!Come(UserOf[c])
      BY <1>1, <2>3 DEF Lease!Come
    <2>5. QED
      BY <2>4 DEF Lease!LeaseNext
  <1>3. CASE HandshakeOk(c)
    <2>1. \A d \in Conns : Open(d)' <=> Open(d)
      BY <1>3
    <2>2. \A d \in Conns : At(d, "setPresence")' <=> At(d, "setPresence") \/ d = c
      BY <1>3
    <2>3. UserOf[c] \in Served /\ own[c] \in Presences
      BY <1>3 DEF Served
    <2>4. Served' = Served /\ Asked' = Asked \cup {<<UserOf[c], own[c]>>}
      <3> HIDE DEF ConnectStep, Accept, HandshakeOk, HandshakeFails, Goto, At, Open, Absent,
                   TypeInv, TypeOK, storeVars, connVars
      <3>1. QED
        BY <1>1, <2>1, <2>2 DEF Served, Asked
    <2>5. Lease!Ask(UserOf[c], own[c])
      BY <1>1, <2>3, <2>4 DEF Lease!Ask
    <2>6. QED
      BY <2>3, <2>5 DEF Lease!LeaseNext
  <1>4. CASE HandshakeFails(c)
    <2>1. /\ \A d \in Conns : Open(d)' => Open(d)
          /\ \A d \in Conns : At(d, "setPresence")' => At(d, "setPresence") /\ own'[d] = own[d]
      BY <1>1, <1>4
    <2>2. QED
      BY <1>1, <2>1, LeaseLeave
  <1>5. QED
    BY <1>2, <1>3, <1>4

LEMMA LoopLease ==
    ASSUME TypeInv, NEW c \in Conns, LoopStep(c)
    PROVE  Lease!LeaseNext
  <1>1. PICK l \in Labels \ Absent : Hears(c, l) /\ (l # "setPresence" => own' = own)
    BY DEF LoopStep, ClientCall, TimesOut, UpdateActivity, UpdateStatus, BeginWatchingUserPresence,
           EndWatchingUserPresence, Chatter, Ping, LeaveLoop, Labels, Handlers, Cleanup, Absent
  <1>2. /\ UNCHANGED <<presence, ttl>>
        /\ pc[c] = "loop" /\ pc'[c] = l /\ \A d \in Conns \ {c} : pc'[d] = pc[d]
    BY <1>1 DEF Hears, Goto, At, storeVars, TypeInv, TypeOK
  <1>3. \A d \in Conns \ {c} : own'[d] = own[d]
    BY DEF LoopStep, ClientCall, TimesOut, UpdateActivity, UpdateStatus, BeginWatchingUserPresence,
           EndWatchingUserPresence, Chatter, Ping, LeaveLoop, TypeInv, TypeOK
  <1>4. TypeInv'
    BY LoopType
  <1>5. \A d \in Conns : Open(d)' <=> Open(d)
    BY <1>1, <1>2 DEF Open, Absent
  <1>6. CASE l = "setPresence"
    <2>1. \A d \in Conns : At(d, "setPresence")' <=> At(d, "setPresence") \/ d = c
      BY <1>2, <1>6 DEF At
    <2>2. ~At(c, "setPresence") /\ UserOf[c] \in Served /\ own'[c] \in Presences
      BY <1>2, <1>4 DEF At, Served, Open, Absent, TypeInv, TypeOK
    <2>3. Served' = Served
      BY <1>5 DEF Served
    <2>4. Asked' = Asked \cup {<<UserOf[c], own'[c]>>}
      BY <1>3, <2>1, <2>2 DEF Asked
    <2>5. Lease!Ask(UserOf[c], own'[c])
      BY <1>2, <2>2, <2>3, <2>4 DEF Lease!Ask
    <2>6. QED
      BY <2>2, <2>5 DEF Lease!LeaseNext
  <1>7. CASE l # "setPresence"
    <2>1. \A d \in Conns : At(d, "setPresence")' => At(d, "setPresence") /\ own'[d] = own[d]
      BY <1>1, <1>2, <1>7 DEF At
    <2>2. QED
      BY <1>2, <1>4, <1>5, <2>1, LeaseLeave
  <1>8. QED
    BY <1>6, <1>7

LEMMA ServerLease ==
    ASSUME TypeInv, NEW c \in Conns, ServerStep(c)
    PROVE  Lease!LeaseNext
  <1> USE DEF Goto, At, Keeps, TypeInv, TypeOK
  <1>1. /\ Open(c) /\ UserOf[c] \in Served
        /\ ServerStep(c) => \A d \in Conns : Open(d)' => Open(d)
    BY DEF ServerStep, SetsPresence, Expires, AddsWatcher, GetsOnline, RemsWatcher, ReadsWatchers,
           Notifies, Notified, FinPresence, FinWatcher, FinPops, Open, Absent, Served
  <1>2. TypeInv'
    BY ServerType
  <1>3. CASE SetsPresence(c)
    <2>1. /\ \A d \in Conns : Open(d)' = Open(d) /\ own'[d] = own[d]
          /\ \A d \in Conns : At(d, "setPresence")' <=> At(d, "setPresence") /\ d # c
          /\ pc[c] = "setPresence" /\ own[c] \in Presences
      BY <1>3 DEF SetsPresence, Open, Absent
    <2>2. Served' = Served
      BY <2>1 DEF Served
    <2>3. <<UserOf[c], own[c]>> \in Asked
      BY <2>1 DEF Asked
    <2>4. Asked' \in {Asked, Asked \ {<<UserOf[c], own[c]>>}}
      <3>1. Asked' \subseteq Asked
        BY <2>1 DEF Asked
      <3>2. ASSUME NEW p \in Asked, p # <<UserOf[c], own[c]>> PROVE p \in Asked'
        <4>1. PICK d \in Conns : At(d, "setPresence") /\ p = <<UserOf[d], own[d]>>
          BY DEF Asked
        <4>2. d # c
          BY <3>2, <4>1
        <4>3. At(d, "setPresence")' /\ p = <<UserOf[d], own'[d]>>
          BY <2>1, <4>1, <4>2
        <4>4. QED
          BY <4>3 DEF Asked
      <3>3. CASE <<UserOf[c], own[c]>> \in Asked'
        <4>1. \A p \in Asked : p \in Asked'
          BY <3>2, <3>3
        <4>2. QED
          BY <3>1, <4>1
      <3>4. CASE <<UserOf[c], own[c]>> \notin Asked'
        <4>1. \A p : p \in Asked' <=> p \in Asked \ {<<UserOf[c], own[c]>>}
          BY <3>1, <3>2, <3>4
        <4>2. QED
          BY <4>1
      <3>5. QED
        BY <3>3, <3>4
    <2>5. /\ presence' = [presence EXCEPT ![UserOf[c]] = own[c]]
          /\ ttl' = [ttl EXCEPT ![UserOf[c]] = Ttl]
      BY <1>3 DEF SetsPresence
    <2>6. Lease!Write(UserOf[c], own[c])
      <3> HIDE DEF Goto, At, Keeps, TypeInv, TypeOK
      <3>1. QED
        BY <1>1, <2>2, <2>3, <2>4, <2>5 DEF Lease!Write
    <2>7. QED
      BY <2>1, <2>6 DEF Lease!LeaseNext
  <1>4. CASE /\ Expires(c) \/ FinPresence(c)
             /\ ~UNCHANGED <<presence, ttl>>
    <2>1. /\ \A d \in Conns : Open(d)' = Open(d) /\ own'[d] = own[d]
          /\ \A d \in Conns : At(d, "setPresence")' = At(d, "setPresence")
      BY <1>4 DEF Expires, FinPresence, Open, Absent
    <2>2. Served' = Served /\ Asked' = Asked
      BY <2>1, LeaseKept
    <2>3. CASE Expires(c)
      <3>1. Lease!Renew(UserOf[c])
        BY <1>1, <1>4, <2>2, <2>3 DEF Expires, Lease!Renew
      <3>2. QED
        BY <3>1 DEF Lease!LeaseNext
    <2>4. CASE FinPresence(c)
      <3>1. Lease!Revoke(UserOf[c])
        BY <1>1, <2>2, <2>4 DEF FinPresence, Lease!Revoke
      <3>2. QED
        BY <3>1 DEF Lease!LeaseNext
    <2>5. QED
      BY <1>4, <2>3, <2>4
  <1>5. CASE UNCHANGED <<presence, ttl>>
    <2>1. \A d \in Conns : At(d, "setPresence")' => At(d, "setPresence") /\ own'[d] = own[d]
      BY DEF ServerStep, SetsPresence, Expires, AddsWatcher, GetsOnline, RemsWatcher, ReadsWatchers,
             Notifies, Notified, FinPresence, FinWatcher, FinPops, Dropped
    <2>2. QED
      BY <1>1, <1>2, <1>5, <2>1, LeaseLeave
  <1>6. QED
    BY <1>3, <1>4, <1>5
       DEF ServerStep, AddsWatcher, GetsOnline, RemsWatcher, ReadsWatchers, Notifies, Notified,
           FinWatcher, FinPops, Dropped, storeVars

LEMMA FaultLease ==
    ASSUME TypeInv, Tick \/ Crash \/ \E c \in Conns : RedisError(c)
    PROVE  Lease!LeaseNext
  <1>0. TypeInv'
    BY FaultType
  <1>1. CASE Tick
    <2>1. Served' = Served /\ Asked' = Asked
      BY <1>1 DEF Tick, Served, Asked, Open, At, connVars
    <2>2. Lease!Elapse
      BY <1>1, <2>1 DEF Tick, Lease!Elapse
    <2>3. QED
      BY <2>2 DEF Lease!LeaseNext
  <1>2. CASE Crash
    <2>1. /\ UNCHANGED <<presence, ttl>>
          /\ \A d \in Conns : ~Open(d)' /\ ~At(d, "setPresence")'
      BY <1>2 DEF Crash, Dropped, Open, At, Absent, storeVars, TypeInv, TypeOK
    <2>2. QED
      BY <1>0, <2>1, LeaseLeave
  <1>3. CASE \E c \in Conns : RedisError(c)
    <2>1. PICK c \in Conns : RedisError(c)
      BY <1>3
    <2>2. PICK D \in {{}, {c}} :
              Dropped(D) /\ pc' = [pc EXCEPT ![c] = IF D = {} THEN "finPresence" ELSE "dead"]
      BY <2>1 DEF RedisError, Goto
    <2>3. /\ UNCHANGED <<presence, ttl>>
          /\ \A d \in Conns \ {c} : pc'[d] = pc[d] /\ own'[d] = own[d]
          /\ pc'[c] \in {"finPresence", "dead"} /\ Open(c)
      BY <2>1, <2>2
         DEF RedisError, RedisAwaits, Handlers, Cleanup, Open, Absent, Dropped, storeVars, TypeInv, TypeOK
    <2>4. /\ \A d \in Conns : Open(d)' => Open(d)
          /\ \A d \in Conns : At(d, "setPresence")' => At(d, "setPresence") /\ own'[d] = own[d]
      BY <2>3 DEF At, Open
    <2>5. QED
      BY <1>0, <2>3, <2>4, LeaseLeave
  <1>4. QED
    BY <1>1, <1>2, <1>3

\* Whatever connections, errors and crashes come, presences are leases: what
\* is stored was asked for by a request still open of a live connection of the
\* user, a renewal does not bring back what has lapsed, and nothing but time
\* ends the one of a crashed server.
THEOREM PresenceIsALeaseCorrect == Spec => PresenceIsALease
  <1>1. Init => Lease!LeaseInit
    BY DEF Init, Lease!LeaseInit, Served, Asked, Open, At, Absent
  <1>2. TypeInv /\ [Next]_vars => [Lease!LeaseNext]_(Lease!leaseVars)
    <2> SUFFICES ASSUME TypeInv, [Next]_vars PROVE [Lease!LeaseNext]_(Lease!leaseVars)
      OBVIOUS
    <2>1. CASE UNCHANGED vars
      BY <2>1 DEF vars, storeVars, connVars, Lease!leaseVars, Served, Asked, Open, At
    <2>2. QED
      BY <2>1, ConnectLease, LoopLease, ServerLease, FaultLease DEF Next, ConnectStep, LoopStep
  <1>3. QED
    BY <1>1, <1>2, InitType, NextType, PTL DEF Spec, PresenceIsALease, Lease!LeaseSpec

-----------------------------------------------------------------------------
(* What is true of a user whose connections ran alone.                     *)

\* Such a user has one open connection at most.
Alone(u) == \A c, d \in Conns : UserOf[c] = u /\ UserOf[d] = u /\ Open(c) /\ Open(d) => c = d

\* Which connections are quiet or idle, and that a new one watches nothing.
HeardSound(c) ==
    /\ ~Open(c) \/ At(c, "handshake") => ~watching[c]
    /\ c \in quiet => pc[c] \in {"loop", "addWatcher", "getOnline", "remWatcher"} \cup Cleanup
    /\ c \in idle => At(c, "loop")
    /\ pc[c] \in {"addWatcher", "getOnline", "remWatcher"} => c \in quiet

\* A stored presence is the connection's, and lives as long as it is heard of.
Stored(c) ==
    pc[c] \in {"loop"} \cup (Handlers \ {"setPresence"}) =>
        /\ presence[UserOf[c]] = IF UserOf[c] \in neglected THEN None ELSE own[c]
        /\ c \notin quiet /\ pc[c] # "expire" /\ UserOf[c] \notin neglected =>
              ttl[UserOf[c]] = IF c \in idle THEN Ttl - 1 ELSE Ttl

\* The watcher set knows the user of a connection when the connection does.
WatchOf(c) ==
    IF WatchKeeper(c) THEN UserOf[c] \in watchers <=> watching[c] ELSE UserOf[c] \notin watchers

AloneInv ==
    /\ \A c \in Conns : HeardSound(c)
    /\ \A u \in Users \ disturbed :
          /\ Alone(u)
          /\ \A c \in Conns : UserOf[c] = u /\ Open(c) => Stored(c) /\ WatchOf(c)
          /\ (\A c \in Conns : UserOf[c] = u => ~Open(c)) => u \notin watchers

\* A step of one connection: the others and the other users are left alone.
Separate(c) ==
    /\ \A d \in Conns \ {c} :
          /\ pc'[d] = pc[d] /\ own'[d] = own[d] /\ watching'[d] = watching[d]
          /\ d \in quiet' <=> d \in quiet
          /\ d \in idle' <=> d \in idle
    /\ \A u \in Users \ {UserOf[c]} :
          /\ presence'[u] = presence[u] /\ ttl'[u] = ttl[u]
          /\ u \in watchers' <=> u \in watchers
          /\ u \in neglected' <=> u \in neglected
    /\ disturbed \subseteq disturbed'
    /\ Open(c) \/ Open(c)'

LEMMA SeparateKeeps ==
    ASSUME TypeInv, AloneInv, NEW c \in Conns, Separate(c), HeardSound(c)',
           UserOf[c] \notin disturbed' =>
               /\ Alone(UserOf[c])'
               /\ Open(c)' => Stored(c)'
               /\ WatchOf(c)'
    PROVE  AloneInv'
  <1>1. \A d \in Conns \ {c} : HeardSound(d)'
    BY DEF AloneInv, Separate, HeardSound, Open, At
  <1>2. ASSUME NEW u \in Users \ disturbed', u # UserOf[c]
        PROVE  /\ Alone(u)'
               /\ \A d \in Conns : UserOf[d] = u /\ Open(d)' => Stored(d)' /\ WatchOf(d)'
               /\ (\A d \in Conns : UserOf[d] = u => ~Open(d)') => u \notin watchers'
    <2>1. u \notin disturbed
      BY <1>2 DEF Separate
    <2>2. \A d \in Conns : UserOf[d] = u => (Open(d)' <=> Open(d))
      BY <1>2 DEF Separate, Open
    <2>3. Alone(u)'
      BY <1>2, <2>1, <2>2 DEF Alone, AloneInv
    <2>4. \A d \in Conns : UserOf[d] = u /\ Open(d)' => Stored(d)' /\ WatchOf(d)'
      BY <1>2, <2>1, <2>2 DEF AloneInv, Separate, Stored, WatchOf, WatchKeeper
    <2>5. QED
      BY <1>2, <2>1, <2>2, <2>3, <2>4 DEF AloneInv, Separate
  <1>3. ASSUME UserOf[c] \notin disturbed'
        PROVE  /\ Alone(UserOf[c])'
               /\ \A d \in Conns : UserOf[d] = UserOf[c] /\ Open(d)' => Stored(d)' /\ WatchOf(d)'
               /\ (\A d \in Conns : UserOf[d] = UserOf[c] => ~Open(d)') => UserOf[c] \notin watchers'
    <2>1. Alone(UserOf[c])' /\ Alone(UserOf[c])
      BY <1>3 DEF AloneInv, Separate
    <2>2. \A d \in Conns : UserOf[d] = UserOf[c] /\ Open(d)' => d = c
      BY <2>1 DEF Separate, Alone, Open
    <2>3. ~Open(c)' => UserOf[c] \notin watchers'
      BY <1>3 DEF WatchOf, WatchKeeper
    <2>4. QED
      BY <1>3, <2>1, <2>2, <2>3
  <1>4. QED
    BY <1>1, <1>2, <1>3 DEF AloneInv

\* A step of an open connection that keeps what holds of it.
LEMMA OwnStep ==
    ASSUME TypeInv, AloneInv, NEW c \in Conns, Open(c), Separate(c), UNCHANGED disturbed,
           HeardSound(c)',
           Stored(c) /\ WatchOf(c) => (Open(c)' => Stored(c)') /\ WatchOf(c)'
    PROVE  AloneInv'
  <1>1. ASSUME UserOf[c] \notin disturbed'
        PROVE  Alone(UserOf[c])' /\ (Open(c)' => Stored(c)') /\ WatchOf(c)'
    <2>1. Alone(UserOf[c]) /\ Stored(c) /\ WatchOf(c)
      BY <1>1 DEF AloneInv
    <2>2. Alone(UserOf[c])'
      BY <2>1 DEF Alone, Separate, Open
    <2>3. QED
      BY <2>1, <2>2
  <1>2. QED
    BY <1>1, SeparateKeeps

LEMMA AcceptAlone ==
    ASSUME TypeInv, AloneInv, NEW c \in Conns, Accept(c)
    PROVE  AloneInv'
  <1>1. /\ pc[c] = "new" /\ pc' = [pc EXCEPT ![c] = "handshake"] /\ ~Open(c)
        /\ UNCHANGED <<storeVars, connVars, idle, historyVars>>
    BY DEF Accept, At, Goto, Open, Absent
  <1>2. pc'[c] = "handshake" /\ \A d \in Conns \ {c} : pc'[d] = pc[d]
    BY <1>1 DEF TypeInv, TypeOK
  <1>3. Separate(c)
    BY <1>1, <1>2 DEF Accept, Separate, Open, Absent, storeVars, connVars, historyVars
  <1>4. HeardSound(c) /\ HeardSound(c)'
    BY <1>1, <1>2 DEF AloneInv, HeardSound, At, Cleanup, connVars, historyVars
  <1>5. ASSUME UserOf[c] \notin disturbed'
        PROVE  Alone(UserOf[c])' /\ (Open(c)' => Stored(c)') /\ WatchOf(c)'
    <2>1. \A d \in Conns : UserOf[d] = UserOf[c] => ~Open(d)
      BY <1>5 DEF Accept
    <2>2. UserOf[c] \notin watchers /\ ~watching[c]
      BY <1>4, <1>1, <1>5, <2>1 DEF AloneInv, HeardSound, Accept
    <2>3. \A d \in Conns : UserOf[d] = UserOf[c] /\ Open(d)' => d = c
      BY <1>2, <2>1 DEF Open
    <2>4. QED
      BY <1>1, <1>2, <2>2, <2>3
         DEF Alone, Stored, Handlers, WatchOf, WatchKeeper, Open, Absent, Cleanup, storeVars, connVars
  <1>6. QED
    BY <1>3, <1>4, <1>5, SeparateKeeps

LEMMA HandshakeAlone ==
    ASSUME TypeInv, AloneInv, NEW c \in Conns, HandshakeOk(c) \/ HandshakeFails(c)
    PROVE  AloneInv'
  <1>1. PICK l \in {"setPresence", "finPresence"} : Goto(c, l)
    BY DEF HandshakeOk, HandshakeFails
  <1>2. /\ pc[c] = "handshake" /\ pc'[c] = l /\ Open(c) /\ Open(c)'
        /\ \A d \in Conns \ {c} : pc'[d] = pc[d]
    BY <1>1 DEF HandshakeOk, HandshakeFails, At, Goto, Open, Absent, TypeInv, TypeOK
  <1>3. UNCHANGED <<storeVars, connVars, idle, historyVars, disturbed>>
    BY DEF HandshakeOk, HandshakeFails
  <1>4. Separate(c)
    BY <1>2, <1>3 DEF Separate, storeVars, connVars, historyVars
  <1>5. HeardSound(c)'
    BY <1>2, <1>3 DEF AloneInv, HeardSound, At, Cleanup, connVars, historyVars
  <1>6. WatchOf(c) => Stored(c)' /\ WatchOf(c)'
    BY <1>2, <1>3 DEF Stored, Handlers, WatchOf, WatchKeeper, Cleanup, storeVars, connVars
  <1>7. QED
    BY <1>2, <1>3, <1>4, <1>5, <1>6, OwnStep

\* What c does when it has heard from its client.
LEMMA HearsAlone ==
    ASSUME TypeInv, AloneInv, NEW c \in Conns, NEW l \in Labels \ Absent, Hears(c, l),
           UNCHANGED watching,
           \A d \in Conns \ {c} : own'[d] = own[d],
           quiet' \in {quiet, quiet \cup {c}, quiet \ {c}},
           c \in quiet' => l \in {"loop", "addWatcher", "remWatcher", "finPresence"},
           l \in {"addWatcher", "getOnline", "remWatcher"} => c \in quiet',
           l \in {"setPresence", "finPresence"} \/
               (own' = own /\ (l = "expire" \/ c \in quiet')),
           l # "handshake" /\ l \notin Cleanup \ {"finPresence"}
    PROVE  AloneInv'
  <1>1. /\ pc[c] = "loop" /\ pc'[c] = l /\ Open(c) /\ Open(c)'
        /\ \A d \in Conns \ {c} : pc'[d] = pc[d]
    BY DEF Hears, At, Goto, Open, Absent, TypeInv, TypeOK
  <1>2. UNCHANGED <<storeVars, neglected, disturbed>> /\ idle' = idle \ {c}
    BY DEF Hears
  <1>3. Separate(c)
    BY <1>1, <1>2 DEF Separate, storeVars
  <1>4. HeardSound(c)'
    BY <1>1, <1>2 DEF HeardSound, At, Cleanup
  <1>5. WatchOf(c) => WatchOf(c)'
    BY <1>1, <1>2 DEF WatchOf, WatchKeeper, Cleanup, storeVars
  <1>6. Stored(c) => Stored(c)'
    <2>1. CASE l \in {"setPresence", "finPresence"}
      BY <1>1, <2>1 DEF Stored, Handlers
    <2>2. CASE own' = own /\ (l = "expire" \/ c \in quiet')
      BY <1>1, <1>2, <2>2 DEF Stored, Handlers, storeVars
    <2>3. QED
      BY <2>1, <2>2
  <1>7. QED
    BY <1>1, <1>2, <1>3, <1>4, <1>5, <1>6, OwnStep

LEMMA LoopAlone ==
    ASSUME TypeInv, AloneInv, NEW c \in Conns, LoopStep(c)
    PROVE  AloneInv'
  <1> USE DEF Labels, Handlers, Cleanup, Absent
  <1>1. CASE \E a \in Activities \cup {NoActivity} : UpdateActivity(c, a)
    BY <1>1, HearsAlone DEF UpdateActivity, TypeInv, TypeOK
  <1>2. CASE \E s \in Statuses \cup {None} : UpdateStatus(c, s)
    BY <1>2, HearsAlone DEF UpdateStatus, TypeInv, TypeOK
  <1>3. CASE BeginWatchingUserPresence(c)
    BY <1>3, HearsAlone DEF BeginWatchingUserPresence
  <1>4. CASE EndWatchingUserPresence(c)
    BY <1>4, HearsAlone DEF EndWatchingUserPresence
  <1>5. CASE Chatter(c)
    BY <1>5, HearsAlone DEF Chatter
  <1>6. CASE Ping(c) \/ TimesOut(c)
    BY <1>6, HearsAlone DEF Ping, TimesOut
  <1>7. CASE LeaveLoop(c)
    BY <1>7, HearsAlone DEF LeaveLoop
  <1>8. QED
    BY <1>1, <1>2, <1>3, <1>4, <1>5, <1>6, <1>7 DEF LoopStep, ClientCall

\* A step of the server for connection c that leaves it open: the store may
\* change for its user only, and pc for c only.
LEMMA ServerAlone ==
    ASSUME TypeInv, AloneInv, NEW c \in Conns, ServerStep(c)
    PROVE  AloneInv'
  <1> USE DEF At, Goto, Open, Absent, Cleanup, Handlers, storeVars, registryVars, Keeps
  <1>1. Open(c) /\ HeardSound(c)
    BY DEF AloneInv, ServerStep, SetsPresence, Expires, AddsWatcher, GetsOnline, RemsWatcher,
           ReadsWatchers, Notifies, Notified, FinPresence, FinWatcher, FinPops
  <1>2. CASE SetsPresence(c)
    <2>1. Separate(c)
      BY <1>1, <1>2 DEF SetsPresence, Separate, TypeInv, TypeOK
    <2>2. HeardSound(c)' /\ (WatchOf(c) => Stored(c)' /\ WatchOf(c)')
      BY <1>1, <1>2 DEF SetsPresence, HeardSound, Stored, WatchOf, WatchKeeper, TypeInv, TypeOK
    <2>3. QED
      BY <1>1, <1>2, <2>1, <2>2, OwnStep DEF SetsPresence
  <1>3. CASE Expires(c)
    <2>1. Separate(c)
      BY <1>1, <1>3 DEF Expires, Separate, TypeInv, TypeOK
    <2>2. HeardSound(c)' /\ (WatchOf(c) => WatchOf(c)')
      BY <1>1, <1>3 DEF Expires, HeardSound, WatchOf, WatchKeeper, TypeInv, TypeOK
    <2>3. Stored(c) => Stored(c)'
      BY <1>1, <1>3 DEF Expires, HeardSound, Stored, TypeInv, TypeOK
    <2>4. QED
      BY <1>1, <1>3, <2>1, <2>2, <2>3, OwnStep DEF Expires
  <1>4. CASE AddsWatcher(c)
    <2>1. Separate(c)
      BY <1>1, <1>4 DEF AddsWatcher, Separate, TypeInv, TypeOK
    <2>2. HeardSound(c)' /\ WatchOf(c)' /\ (Stored(c) => Stored(c)')
      BY <1>1, <1>4 DEF AddsWatcher, HeardSound, Stored, WatchOf, WatchKeeper, TypeInv, TypeOK
    <2>3. QED
      BY <1>1, <1>4, <2>1, <2>2, OwnStep DEF AddsWatcher
  <1>5. CASE RemsWatcher(c)
    <2>1. Separate(c)
      BY <1>1, <1>5 DEF RemsWatcher, Separate, TypeInv, TypeOK
    <2>2. HeardSound(c)' /\ WatchOf(c)' /\ (Stored(c) => Stored(c)')
      BY <1>1, <1>5 DEF RemsWatcher, HeardSound, Stored, WatchOf, WatchKeeper, TypeInv, TypeOK
    <2>3. QED
      BY <1>1, <1>5, <2>1, <2>2, OwnStep DEF RemsWatcher
  <1>6. CASE \/ GetsOnline(c) \/ ReadsWatchers(c, "broadcast", "notify")
             \/ ReadsWatchers(c, "finBroadcast", "finNotify")
             \/ Notifies(c, "notify") \/ Notifies(c, "finNotify") \/ Notified(c)
    <2>1. UNCHANGED <<storeVars, own, watching, quiet, idle, neglected, disturbed>>
      BY <1>6 DEF GetsOnline, ReadsWatchers, Notifies, Notified
    <2>2. /\ \A d \in Conns \ {c} : pc'[d] = pc[d]
          /\ \/ pc[c] = "getOnline" /\ pc'[c] = "loop"
             \/ pc[c] \in {"broadcast", "notify"} /\ pc'[c] \in {"loop", "notify"}
             \/ pc[c] \in {"finBroadcast", "finNotify"} /\ pc'[c] = "finNotify"
          /\ pc[c] = "getOnline" => c \in quiet
      BY <1>1, <1>6 DEF GetsOnline, ReadsWatchers, Notifies, Notified, HeardSound, TypeInv, TypeOK
    <2>3. Separate(c)
      BY <1>1, <2>1, <2>2 DEF Separate
    <2>4. HeardSound(c)' /\ (Stored(c) => Stored(c)') /\ (WatchOf(c) => WatchOf(c)')
      BY <1>1, <2>1, <2>2 DEF HeardSound, Stored, WatchOf, WatchKeeper
    <2>5. QED
      BY <1>1, <2>1, <2>3, <2>4, OwnStep
  <1>7. CASE FinPresence(c)
    <2>1. Separate(c)
      BY <1>1, <1>7 DEF FinPresence, Separate, TypeInv, TypeOK
    <2>2. HeardSound(c)' /\ Stored(c)' /\ (WatchOf(c) => WatchOf(c)')
      BY <1>1, <1>7 DEF FinPresence, HeardSound, Stored, WatchOf, WatchKeeper, TypeInv, TypeOK
    <2>3. QED
      BY <1>1, <1>7, <2>1, <2>2, OwnStep DEF FinPresence
  <1>8. CASE FinWatcher(c)
    <2>1. Separate(c)
      BY <1>1, <1>8 DEF FinWatcher, Separate, TypeInv, TypeOK
    <2>2. HeardSound(c)' /\ Stored(c)' /\ WatchOf(c)'
      BY <1>1, <1>8 DEF FinWatcher, HeardSound, Stored, WatchOf, WatchKeeper, TypeInv, TypeOK
    <2>3. QED
      BY <1>1, <1>8, <2>1, <2>2, OwnStep DEF FinWatcher
  <1>9. CASE FinPops(c)
    <2>1. Separate(c)
      BY <1>1, <1>9 DEF FinPops, Dropped, Separate, TypeInv, TypeOK
    <2>2. HeardSound(c)' /\ ~Open(c)' /\ (WatchOf(c) => WatchOf(c)')
      BY <1>1, <1>9 DEF FinPops, Dropped, HeardSound, WatchOf, WatchKeeper, TypeInv, TypeOK
    <2>3. QED
      BY <1>1, <1>9, <2>1, <2>2, OwnStep DEF FinPops
  <1>10. QED
    BY <1>2, <1>3, <1>4, <1>5, <1>6, <1>7, <1>8, <1>9 DEF ServerStep

LEMMA RedisErrorAlone ==
    ASSUME TypeInv, AloneInv, NEW c \in Conns, RedisError(c)
    PROVE  AloneInv'
  <1> USE DEF Goto, Open, Absent, Cleanup
  <1>1. Open(c) /\ HeardSound(c) /\ UserOf[c] \in disturbed' /\ disturbed \subseteq disturbed'
    BY DEF AloneInv, RedisError, RedisAwaits, Handlers
  <1>2. PICK D \in {{}, {c}} :
            Dropped(D) /\ pc' = [pc EXCEPT ![c] = IF D = {} THEN "finPresence" ELSE "dead"]
    BY DEF RedisError
  <1>3. Separate(c)
    BY <1>1, <1>2 DEF Separate, Dropped, storeVars, TypeInv, TypeOK
  <1>4. HeardSound(c)'
    BY <1>1, <1>2 DEF Dropped, HeardSound, At, RedisError, RedisAwaits, Handlers, TypeInv, TypeOK
  <1>5. QED
    BY <1>1, <1>3, <1>4, SeparateKeeps

LEMMA CrashAlone ==
    ASSUME TypeInv, AloneInv, Crash
    PROVE  AloneInv'
  <1>1. \A c \in Conns : HeardSound(c)'
    BY DEF Crash, Dropped, HeardSound, At, Open, Absent, TypeInv, TypeOK
  <1>2. \A c \in Conns : ~Open(c)'
    BY DEF Crash, Open, Absent, TypeInv, TypeOK
  <1>3. ASSUME NEW u \in Users \ disturbed'
        PROVE  u \notin disturbed /\ u \notin watchers'
    <2>1. u \notin disturbed /\ \A c \in Conns : UserOf[c] = u => ~Open(c)
      BY <1>3 DEF Crash
    <2>2. QED
      BY <2>1 DEF AloneInv, Crash, Dropped, storeVars
  <1>4. QED
    BY <1>1, <1>2, <1>3 DEF AloneInv, Alone

\* A unit ends.  A connection heard of in it has renewed its presence, so that
\* a presence can lapse under a quiet one only.
LEMMA TickAlone ==
    ASSUME TypeInv, AloneInv, Tick
    PROVE  AloneInv'
  <1>1. /\ UNCHANGED <<watchers, pc, own, watching, quiet, disturbed>>
        /\ \A c \in Conns : pc[c] \in Absent \cup {"handshake", "loop"} /\ c \notin idle
        /\ \A c \in Conns : c \in idle' <=> At(c, "loop")
    BY DEF Tick, connVars
  <1>2. \A c \in Conns : HeardSound(c)'
    BY <1>1 DEF AloneInv, HeardSound, Open, At
  <1>3. ASSUME NEW u \in Users \ disturbed
        PROVE  Alone(u)' /\ ((\A c \in Conns : UserOf[c] = u => ~Open(c)') => u \notin watchers')
    BY <1>1, <1>3 DEF AloneInv, Alone, Open
  <1>4. ASSUME NEW c \in Conns, Open(c), UserOf[c] \notin disturbed
        PROVE  WatchOf(c)' /\ Stored(c)'
    <2>1. Stored(c) /\ WatchOf(c) /\ Alone(UserOf[c])
      BY <1>4 DEF AloneInv
    <2>2. WatchOf(c)'
      BY <1>1, <2>1 DEF WatchOf, WatchKeeper, Open
    <2>3. CASE pc[c] = "loop"
      <3> DEFINE u == UserOf[c]
      <3>1. /\ presence[u] = IF u \in neglected THEN None ELSE own[c]
            /\ c \notin quiet /\ u \notin neglected => ttl[u] = Ttl
        BY <1>1, <2>1, <2>3 DEF Stored
      <3>2. \A d \in Conns : UserOf[d] = u /\ d \in quiet => d = c
        <4>1. \A d \in Conns : d \in quiet => Open(d)
          BY DEF AloneInv, HeardSound, Cleanup, Open, Absent
        <4>2. QED
          BY <1>4, <2>1, <4>1 DEF Alone
      <3>3. u \in neglected' <=> u \in neglected \/ (c \in quiet /\ ttl[u] = 1)
        <4>1. quiet \subseteq Conns
          BY DEF TypeInv, TypeOK
        <4>2. QED
          BY <3>2, <4>1 DEF Tick
      <3>4. /\ ttl[u] \in 0..Ttl /\ own[c] # None /\ (presence[u] = None <=> ttl[u] = 0)
        BY DEF TypeInv, TypeOK, TimedSound
      <3>5. /\ ttl'[u] = IF ttl[u] = 0 THEN 0 ELSE ttl[u] - 1
            /\ presence'[u] = IF ttl[u] <= 1 THEN None ELSE presence[u]
        BY DEF Tick
      <3>6. presence'[u] = IF u \in neglected' THEN None ELSE own[c]
        BY <3>1, <3>3, <3>4, <3>5
      <3>7. c \notin quiet /\ u \notin neglected' => ttl'[u] = Ttl - 1
        BY <3>1, <3>3, <3>4, <3>5
      <3>8. QED
        BY <1>1, <2>2, <2>3, <3>6, <3>7 DEF Stored, At
    <2>4. CASE pc[c] # "loop"
      BY <1>1, <2>2, <2>4 DEF Stored, Absent, Handlers
    <2>5. QED
      BY <2>3, <2>4
  <1>5. QED
    BY <1>1, <1>2, <1>3, <1>4 DEF AloneInv, Open

LEMMA InitAlone == Init => AloneInv
  BY DEF Init, AloneInv, HeardSound, Alone, Open, At, Absent

LEMMA NextAlone == TypeInv /\ AloneInv /\ [Next]_vars => AloneInv'
  <1> SUFFICES ASSUME TypeInv, AloneInv, [Next]_vars PROVE AloneInv'
    OBVIOUS
  <1>1. CASE UNCHANGED vars
    BY <1>1 DEF vars, storeVars, registryVars, connVars, historyVars, AloneInv, HeardSound, Alone,
                Stored, WatchOf, WatchKeeper, Open, At
  <1>2. QED
    BY <1>1, AcceptAlone, HandshakeAlone, LoopAlone, ServerAlone, RedisErrorAlone, CrashAlone, TickAlone
       DEF Next, LoopStep

\* A user whose only connection waits in the loop has the presence it last
\* set: the 30 s pings keep the TTL from running out, and it can run out only
\* while nothing but messages that are neither pings nor updates arrive.
THEOREM PresenceKeptCorrect == Spec => []PresenceKept
  <1>1. TypeInv /\ AloneInv => PresenceKept
    BY DEF TypeInv, TypeOK, AloneInv, PresenceKept, Stored, At, Open, Absent
  <1>2. QED
    BY <1>1, InitType, InitAlone, NextType, NextAlone, PTL DEF Spec

\* Between two messages of such a user, the watcher set and the connection's
\* own flag agree.
THEOREM WatchingAgreesCorrect == Spec => []WatchingAgrees
  <1>1. TypeInv /\ AloneInv => WatchingAgrees
    BY DEF TypeInv, TypeOK, AloneInv, WatchingAgrees, WatchOf, WatchKeeper, At, Open, Absent, Cleanup
  <1>2. QED
    BY <1>1, InitType, InitAlone, NextType, NextAlone, PTL DEF Spec

-----------------------------------------------------------------------------
(* What GhostsLapse rests on, without the fairness of timers and scheduler. *)

\* A user with no open connection, before the step.
Gone(u) == \A c \in Conns : UserOf[c] = u => ~Open(c)

\* The step brings no presence of u back and lengthens none.
Fades(u) == presence'[u] \in {presence[u], None} /\ ttl'[u] <= ttl[u]

LEMMA ServerFades ==
    ASSUME TypeInv, NEW c \in Conns, ServerStep(c), NEW u \in Users, Gone(u)
    PROVE  UNCHANGED <<presence[u], ttl[u]>>
  <1>1. Open(c) /\ UserOf[c] # u
    BY DEF Gone, ServerStep, SetsPresence, Expires, AddsWatcher, GetsOnline, RemsWatcher, ReadsWatchers,
           Notifies, Notified, FinPresence, FinWatcher, FinPops, At, Open, Absent
  <1>2. QED
    BY <1>1 DEF ServerStep, SetsPresence, Expires, AddsWatcher, GetsOnline, RemsWatcher, ReadsWatchers,
                Notifies, Notified, FinPresence, FinWatcher, FinPops, Dropped, storeVars,
                TypeInv, TypeOK

LEMMA TickFades ==
    ASSUME TypeInv, Tick, NEW u \in Users
    PROVE  Fades(u) /\ (presence[u] # None => ttl'[u] < ttl[u])
  <1>1. ttl[u] \in Nat /\ (presence[u] = None <=> ttl[u] = 0)
    BY DEF TypeInv, TypeOK, TimedSound
  <1>2. /\ ttl'[u] = IF ttl[u] = 0 THEN 0 ELSE ttl[u] - 1
        /\ presence'[u] = IF ttl[u] <= 1 THEN None ELSE presence[u]
    BY DEF Tick
  <1>3. QED
    BY <1>1, <1>2 DEF Fades

LEMMA StepFades ==
    ASSUME TypeInv, Next, NEW u \in Users, Gone(u)
    PROVE  Fades(u)
  <1>1. ttl[u] \in Nat
    BY DEF TypeInv, TypeOK
  <1>2. CASE Tick
    BY <1>2, TickFades
  <1>3. CASE Crash \/ \E c \in Conns : RedisError(c)
    <2>1. UNCHANGED storeVars
      BY <1>3 DEF Crash, RedisError, Dropped
    <2>2. QED
      BY <1>1, <2>1 DEF storeVars, Fades
  <1>4. ASSUME NEW c \in Conns, ConnectStep(c) \/ LoopStep(c) PROVE Fades(u)
    <2>1. UNCHANGED storeVars
      BY <1>4 DEF ConnectStep, Accept, HandshakeOk, HandshakeFails, LoopStep, ClientCall, Hears,
                  TimesOut, UpdateActivity, UpdateStatus, BeginWatchingUserPresence,
                  EndWatchingUserPresence, Chatter, Ping, LeaveLoop
    <2>2. QED
      BY <1>1, <2>1 DEF storeVars, Fades
  <1>5. ASSUME NEW c \in Conns, ServerStep(c) PROVE Fades(u)
    BY <1>1, <1>5, ServerFades DEF Fades
  <1>6. QED
    BY <1>2, <1>3, <1>4, <1>5 DEF Next, ConnectStep, LoopStep

\* What a user leaves behind when its connections are gone, after a crash of
\* the server too, nothing refreshes: it only fades, at every unit of time,
\* and is gone with the last; so no presence outlives TTL_PRESENCE.
THEOREM GhostsOnlyFade ==
    Spec => [][\A u \in Users :
                  /\ Gone(u) => Fades(u)
                  /\ Tick /\ presence[u] # None => ttl'[u] < ttl[u]
                  /\ presence'[u] = None <=> ttl'[u] = 0]_vars
  <1> DEFINE Ghosts ==
        \A u \in Users :
            /\ Gone(u) => Fades(u)
            /\ Tick /\ presence[u] # None => ttl'[u] < ttl[u]
            /\ presence'[u] = None <=> ttl'[u] = 0
  <1>1. TypeInv /\ [Next]_vars => [Ghosts]_vars
    <2> SUFFICES ASSUME TypeInv, Next PROVE Ghosts
      OBVIOUS
    <2>1. TypeInv'
      BY NextType
    <2>2. QED
      BY <2>1, StepFades, TickFades DEF TypeInv, TimedSound
  <1> HIDE DEF Ghosts
  <1>2. Spec => [][Ghosts]_vars
    BY <1>1, InitType, NextType, PTL DEF Spec
  <1>3. QED
    BY <1>2 DEF Ghosts

\* What a unit of time waits for: a connection whose timer has run out, or one
\* whose coroutine is at an await of its own.
TimerDue(c) == c \in idle /\ At(c, "loop")
AtWork(c) == pc[c] \in Handlers \cup Cleanup
UnitOver == idle = {} /\ \A c \in Conns : pc[c] \in Absent \cup {"handshake", "loop"}

\* Time is never held up for good: when a unit cannot end, some connection has
\* its receive timeout or a step of its own to take, and needs no client for
\* it.
THEOREM TimeMovesOn == Spec => [](UnitOver \/ \E c \in Conns : TimerDue(c) \/ AtWork(c))
  <1>1. TypeInv /\ AloneInv => UnitOver \/ \E c \in Conns : TimerDue(c) \/ AtWork(c)
    BY DEF TypeInv, TypeOK, AloneInv, HeardSound, UnitOver, TimerDue, AtWork, Labels
  <1>2. QED
    BY <1>1, InitType, InitAlone, NextType, NextAlone, PTL DEF Spec

=============================================================================
