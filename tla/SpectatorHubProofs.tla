------------------------- MODULE SpectatorHubProofs -------------------------
(* Theorems about SpectatorHub, for every set of connections and users and *)
(* every assignment of users to connections.                               *)
EXTENDS SpectatorHub, TLAPS

USE UserOfAssumption, NoneAssumption, MaxFaultsAssumption, KeysLapseAssumption

-----------------------------------------------------------------------------
(* The Redis commands keep the types of the store.                         *)

LEMMA KeysInIndex ==
    ASSUME NEW u \in Users
    PROVE  WatchingKey(u) \in IndexKeys /\ WatchersKey(u) \in IndexKeys
  BY DEF WatchingKey, WatchersKey, IndexKeys

LEMMA SAddType ==
    ASSUME RedisTypeOK, NEW k \in IndexKeys, NEW u \in Users, SAdd(k, u)
    PROVE  RedisTypeOK'
  BY DEF RedisTypeOK, SAdd

LEMMA SRemType ==
    ASSUME RedisTypeOK, NEW k \in IndexKeys, NEW u \in Users, SRem(k, u)
    PROVE  RedisTypeOK'
  BY DEF RedisTypeOK, SRem

LEMMA DelType ==
    ASSUME RedisTypeOK, NEW k \in IndexKeys, Del(k)
    PROVE  RedisTypeOK'
  BY DEF RedisTypeOK, Del

LEMMA ExpireType ==
    ASSUME RedisTypeOK, NEW k \in IndexKeys, Expire(k)
    PROVE  RedisTypeOK'
  BY DEF RedisTypeOK, Expire

LEMMA PlayingType ==
    ASSUME RedisTypeOK, NEW u \in Users, SetPlaying(u) \/ RemovePlaying(u)
    PROVE  RedisTypeOK'
  BY DEF RedisTypeOK, SetPlaying, RemovePlaying

LEMMA LapseType ==
    ASSUME RedisTypeOK, Lapse
    PROVE  RedisTypeOK' /\ disturbed' \subseteq disturbed \cup Users
  <1>1. CASE \E u \in Users :
                PlayingLapses(u) /\ UNCHANGED disturbed
    BY <1>1 DEF RedisTypeOK, PlayingLapses
  <1>2. CASE \E u \in Users :
                IndexLapses(WatchingKey(u)) /\ disturbed' = disturbed \cup {u}
    BY <1>2, KeysInIndex DEF RedisTypeOK, IndexLapses
  <1>3. CASE \E u \in Users :
                /\ IndexLapses(WatchersKey(u))
                /\ disturbed' = disturbed \cup index[WatchersKey(u)]
    BY <1>3, KeysInIndex DEF RedisTypeOK, IndexLapses
  <1>4. QED
    BY <1>1, <1>2, <1>3 DEF Lapse

-----------------------------------------------------------------------------
(* Type correctness.                                                       *)

LEMMA DroppedType ==
    ASSUME TypeOK, NEW D, Dropped(D)
    PROVE  isPlaying' \in [Conns -> BOOLEAN] /\ targets' \in [Conns -> SUBSET Users]
  BY DEF TypeOK, Dropped

LEMMA OwesType ==
    ASSUME TypeOK, NEW c \in Conns
    PROVE  Owes(c) \subseteq IndexKeys
  BY KeysInIndex DEF Owes, TypeOK

\* The initial states are well typed.
LEMMA InitType == Init => TypeOK
  BY DEF Init, TypeOK, RedisInit, RedisTypeOK, Labels, Absent

\* Every step of one connection keeps the types.
LEMMA ConnectionType ==
    ASSUME TypeOK, NEW c \in Conns,
           \/ Accept(c) \/ HandshakeOk(c) \/ HandshakeFails(c)
           \/ ClientCall(c) \/ ServerStep(c) \/ RedisError(c)
    PROVE  TypeOK'
  <1> USE DEF TypeOK, Goto, At, Labels, Absent, Serving, PlayCalls, WatchCalls,
              Cleanup, FinallyLabel, historyVars
  <1>1. CASE Accept(c)
    BY <1>1 DEF Accept, redisVars, RedisTypeOK
  <1>2. CASE HandshakeOk(c) \/ HandshakeFails(c)
    BY <1>2 DEF HandshakeOk, HandshakeFails, redisVars, RedisTypeOK
  <1>3. CASE ClientCall(c)
    <2>1. CASE BeginPlaySession(c) \/ EndPlaySession(c)
      BY <2>1 DEF BeginPlaySession, EndPlaySession, redisVars, RedisTypeOK
    <2>2. CASE SendFrameData(c) \/ LeaveLoop(c)
      BY <2>2 DEF SendFrameData, LeaveLoop, redisVars, RedisTypeOK
    <2>3. ASSUME NEW t \in Users, StartWatchingUser(c, t) \/ EndWatchingUser(c, t)
          PROVE  TypeOK'
      BY <2>3 DEF StartWatchingUser, EndWatchingUser, redisVars, RedisTypeOK
    <2>4. QED
      BY <1>3, <2>1, <2>2, <2>3 DEF ClientCall
  <1>4. CASE RestoreWatches(c)
    BY <1>4 DEF RestoreWatches, redisVars, RedisTypeOK
  <1>5. CASE HandlerStep(c)
    <2>1. CASE SetsPlaying(c) \/ RemovesPlaying(c)
      BY <2>1, PlayingType DEF SetsPlaying, RemovesPlaying, Command
    <2>2. CASE Broadcasts(c) \/ GetsPlaying(c)
      BY <2>2 DEF Broadcasts, GetsPlaying, Command, redisVars, RedisTypeOK
    <2>3. CASE AddsWatching(c) \/ AddsWatchers(c)
      BY <2>3, SAddType, KeysInIndex DEF AddsWatching, AddsWatchers, Command
    <2>4. CASE ExpiresWatching(c) \/ ExpiresWatchers(c)
      BY <2>4, ExpireType, KeysInIndex DEF ExpiresWatching, ExpiresWatchers, Command
    <2>5. CASE RemsWatching(c) \/ RemsWatchers(c)
      BY <2>5, SRemType, KeysInIndex DEF RemsWatching, RemsWatchers, Command
    <2>6. QED
      BY <1>5, <2>1, <2>2, <2>3, <2>4, <2>5 DEF HandlerStep
  <1>6. CASE CleanupStep(c)
    <2>1. CASE FinRemovesPlaying(c) \/ FinBroadcasts(c)
      BY <2>1, PlayingType DEF FinRemovesPlaying, FinBroadcasts, Command, redisVars, RedisTypeOK
    <2>2. CASE FinReadsWatching(c)
      BY <2>2, KeysInIndex DEF FinReadsWatching, redisVars, RedisTypeOK
    <2>3. CASE FinRemsWatchers(c)
      BY <2>3, SRemType, KeysInIndex DEF FinRemsWatchers
    <2>4. CASE FinDelsWatching(c)
      BY <2>4, DelType, KeysInIndex DEF FinDelsWatching, Command
    <2>5. CASE FinPops(c)
      BY <2>5 DEF FinPops, Dropped, redisVars, RedisTypeOK
    <2>6. QED
      BY <1>6, <2>1, <2>2, <2>3, <2>4, <2>5 DEF CleanupStep
  <1>7. CASE RedisError(c)
    <2>1. isPlaying' \in [Conns -> BOOLEAN] /\ targets' \in [Conns -> SUBSET Users]
      BY <1>7, DroppedType DEF RedisError
    <2>2. pc' \in [Conns -> Labels]
      BY <1>7 DEF RedisError
    <2>3. faults' \in 0..MaxFaults /\ disturbed' \in SUBSET Users
      BY <1>7 DEF RedisError
    <2>4. unremoved' \in SUBSET Conns /\ unexpired' \in SUBSET IndexKeys
      BY <1>7, OwesType DEF RedisError
    <2>5. QED
      BY <1>7, <2>1, <2>2, <2>3, <2>4 DEF RedisError, redisVars, RedisTypeOK
  <1>8. QED
    BY <1>1, <1>2, <1>3, <1>4, <1>5, <1>6, <1>7 DEF ServerStep

LEMMA StepType == TypeOK /\ [Next]_vars => TypeOK'
  <1> SUFFICES ASSUME TypeOK, [Next]_vars PROVE TypeOK'
    OBVIOUS
  <1>1. CASE \E c \in Conns :
                \/ Accept(c) \/ HandshakeOk(c) \/ HandshakeFails(c)
                \/ ClientCall(c) \/ ServerStep(c) \/ RedisError(c)
    BY <1>1, ConnectionType
  <1>2. CASE Crash
    <2>1. unexpired' \in SUBSET IndexKeys
      BY <1>2, OwesType DEF Crash, TypeOK
    <2>2. QED
      BY <1>2, <2>1 DEF Crash, Dropped, TypeOK, Labels, Absent, redisVars, RedisTypeOK
  <1>3. CASE Lapse
    BY <1>3, LapseType DEF TypeOK, Lapse, hubVars
  <1>4. CASE UNCHANGED vars
    BY <1>4 DEF vars, hubVars, redisVars, historyVars, TypeOK, RedisTypeOK
  <1>5. QED
    BY <1>1, <1>2, <1>3, <1>4 DEF Next

\* Every state the hub and its Redis keys go through is well typed.
THEOREM TypeCorrect == Spec => []TypeOK
  BY InitType, StepType, PTL DEF Spec

-----------------------------------------------------------------------------
(* The registries.                                                         *)

\* A step of a connection that is neither its registration, nor its removal
\* from the registries, nor an error, leaves the registries alone and the
\* connection open.
ConnStep(c) ==
    \/ Accept(c) \/ HandshakeOk(c) \/ HandshakeFails(c)
    \/ ClientCall(c) \/ ServerStep(c) \/ RedisError(c)

LEMMA OrdinaryStep ==
    ASSUME TypeOK, NEW c \in Conns, ConnStep(c),
           ~Accept(c), ~FinPops(c), ~RedisError(c)
    PROVE  /\ UNCHANGED <<connections, userConnections, faults, historyVars>>
           /\ pc[c] \notin Absent
           /\ \E l \in Labels \ Absent : pc' = [pc EXCEPT ![c] = l]
  <1> USE DEF Goto, At, Labels, Absent, Serving, PlayCalls, WatchCalls, Cleanup,
              FinallyLabel
  <1>1. CASE HandshakeOk(c) \/ HandshakeFails(c)
    BY <1>1 DEF HandshakeOk, HandshakeFails
  <1>2. CASE ClientCall(c)
    BY <1>2 DEF ClientCall, BeginPlaySession, SendFrameData, EndPlaySession,
                StartWatchingUser, EndWatchingUser, LeaveLoop
  <1>3. CASE RestoreWatches(c)
    BY <1>3 DEF RestoreWatches
  <1>4. CASE HandlerStep(c)
    BY <1>4 DEF HandlerStep, SetsPlaying, RemovesPlaying, Broadcasts, GetsPlaying,
                AddsWatching, AddsWatchers, ExpiresWatching, ExpiresWatchers,
                RemsWatching, RemsWatchers, Command
  <1>5. CASE CleanupStep(c)
    BY <1>5 DEF CleanupStep, FinRemovesPlaying, FinBroadcasts, FinReadsWatching,
                FinRemsWatchers, FinDelsWatching, Command
  <1>6. QED
    BY <1>1, <1>2, <1>3, <1>4, <1>5 DEF ConnStep, ServerStep

LEMMA RegistryStep ==
    TypeOK /\ RegistrySound /\ NoLeak /\ [Next]_vars => RegistrySound' /\ NoLeak'
  <1> SUFFICES ASSUME TypeOK, RegistrySound, NoLeak, [Next]_vars
               PROVE  RegistrySound' /\ NoLeak'
    OBVIOUS
  <1> USE DEF RegistrySound, NoLeak, TypeOK, Open, At, Goto
  <1>1. ASSUME NEW c \in Conns, ConnStep(c)
        PROVE  RegistrySound' /\ NoLeak'
    <2>1. CASE Accept(c)
      BY <2>1 DEF Accept, Absent
    <2>2. CASE FinPops(c)
      BY <2>2 DEF FinPops
    <2>3. CASE RedisError(c)
      <3>1. UNCHANGED <<connections, userConnections>>
        BY <2>3 DEF RedisError
      <3>2. PICK l \in {"dead", "finPlaying", "finRead"} : pc' = [pc EXCEPT ![c] = l]
        BY <2>3 DEF RedisError, FinallyLabel
      <3>3. QED
        BY <3>1, <3>2 DEF Absent
    <2>4. CASE ~Accept(c) /\ ~FinPops(c) /\ ~RedisError(c)
      BY <1>1, <2>4, OrdinaryStep
    <2>5. QED
      BY <2>1, <2>2, <2>3, <2>4
  <1>2. CASE Crash
    BY <1>2 DEF Crash
  <1>3. CASE Lapse
    BY <1>3 DEF Lapse, hubVars
  <1>4. CASE UNCHANGED vars
    BY <1>4 DEF vars, hubVars
  <1>5. QED
    BY <1>1, <1>2, <1>3, <1>4 DEF Next, ConnStep

\* The id a user's entry holds is that of a registered connection of that
\* user, open or ended by an error in its finally block, for any interleaving
\* of connections, errors and crashes.
THEOREM RegistryCorrect == Spec => []RegistrySound
  <1>1. Init => RegistrySound /\ NoLeak
    BY DEF Init, RegistrySound, NoLeak
  <1>2. QED
    BY <1>1, TypeCorrect, RegistryStep, PTL DEF Spec

\* A connection outlives its coroutine in the registry only if a command of
\* its own finally block failed; nothing else that goes wrong leaks one.
THEOREM NoLeakCorrect == Spec => []NoLeak
  <1>1. Init => RegistrySound /\ NoLeak
    BY DEF Init, RegistrySound, NoLeak
  <1>2. QED
    BY <1>1, TypeCorrect, RegistryStep, PTL DEF Spec

-----------------------------------------------------------------------------
(* The playing keys.                                                       *)

\* PlayingBacked, with what makes it inductive: the key is written only by a
\* connection that is playing, and an absent connection is not.
PlayInv ==
    /\ PlayingBacked
    /\ \A c \in Conns : At(c, "setPlaying") => isPlaying[c]
    /\ \A c \in Conns : isPlaying[c] => Open(c)

\* What one connection's step does to another: nothing.
LEMMA OthersKeep ==
    ASSUME TypeOK, NEW c \in Conns, ConnStep(c), NEW d \in Conns, d # c
    PROVE  pc'[d] = pc[d] /\ isPlaying'[d] = isPlaying[d] /\ targets'[d] = targets[d]
  <1> USE DEF TypeOK, Goto
  <1>1. CASE Accept(c) \/ HandshakeOk(c) \/ HandshakeFails(c) \/ RestoreWatches(c)
    BY <1>1 DEF Accept, HandshakeOk, HandshakeFails, RestoreWatches
  <1>2. CASE ClientCall(c)
    BY <1>2 DEF ClientCall, BeginPlaySession, SendFrameData, EndPlaySession,
                StartWatchingUser, EndWatchingUser, LeaveLoop
  <1>3. CASE HandlerStep(c)
    BY <1>3 DEF HandlerStep, SetsPlaying, RemovesPlaying, Broadcasts, GetsPlaying,
                AddsWatching, AddsWatchers, ExpiresWatching, ExpiresWatchers,
                RemsWatching, RemsWatchers, Command
  <1>4. CASE CleanupStep(c)
    BY <1>4 DEF CleanupStep, FinRemovesPlaying, FinBroadcasts, FinReadsWatching,
                FinRemsWatchers, FinDelsWatching, FinPops, Dropped, Command
  <1>5. CASE RedisError(c)
    BY <1>5 DEF RedisError, Dropped
  <1>6. QED
    BY <1>1, <1>2, <1>3, <1>4, <1>5 DEF ConnStep, ServerStep

\* A step of c changes the playing set by SETEX or DEL of its own user only.
LEMMA PlayingSteps ==
    ASSUME TypeOK, NEW c \in Conns, ConnStep(c)
    PROVE  \/ At(c, "setPlaying") /\ playing' = playing \cup {UserOf[c]}
           \/ playing' = playing \ {UserOf[c]}
           \/ /\ playing' = playing
              /\ ~At(c, "setPlaying") \/ RedisError(c)
              /\ pc[c] \notin {"removePlaying", "finPlaying"} \/ RedisError(c)
  <1> USE DEF TypeOK, Goto, At, redisVars
  <1>1. CASE Accept(c) \/ HandshakeOk(c) \/ HandshakeFails(c) \/ RestoreWatches(c)
    BY <1>1 DEF Accept, HandshakeOk, HandshakeFails, RestoreWatches
  <1>2. CASE ClientCall(c)
    BY <1>2 DEF ClientCall, BeginPlaySession, SendFrameData, EndPlaySession,
                StartWatchingUser, EndWatchingUser, LeaveLoop
  <1>3. CASE HandlerStep(c)
    BY <1>3 DEF HandlerStep, SetsPlaying, RemovesPlaying, Broadcasts, GetsPlaying,
                AddsWatching, AddsWatchers, ExpiresWatching, ExpiresWatchers,
                RemsWatching, RemsWatchers, Command, SetPlaying, RemovePlaying,
                SAdd, SRem, Expire
  <1>4. CASE CleanupStep(c)
    BY <1>4 DEF CleanupStep, FinRemovesPlaying, FinBroadcasts, FinReadsWatching,
                FinRemsWatchers, FinDelsWatching, FinPops, Command, RemovePlaying,
                SRem, Del
  <1>5. CASE RedisError(c)
    BY <1>5 DEF RedisError
  <1>6. QED
    BY <1>1, <1>2, <1>3, <1>4, <1>5 DEF ConnStep, ServerStep

\* How a step of c moves c itself, as far as its play session goes.
LEMMA SessionSteps ==
    ASSUME TypeOK, PlayInv, NEW c \in Conns, ConnStep(c)
    PROVE  /\ At(c, "setPlaying")' => isPlaying'[c]
           /\ isPlaying'[c] => Open(c)'
           /\ WillRemovePlaying(c) /\ ~WillRemovePlaying(c)' =>
                 playing' = playing \ {UserOf[c]} \/ RedisError(c)
           /\ At(c, "setPlaying") => WillRemovePlaying(c)' \/ RedisError(c)
  <1>0. /\ At(c, "setPlaying") => isPlaying[c]
        /\ isPlaying[c] => Open(c)
    BY DEF PlayInv
  <1> HIDE DEF PlayInv
  <1> USE <1>0 DEF TypeOK, Goto, At, Open, WillRemovePlaying, Absent, Cleanup,
              FinallyLabel
  <1>1. CASE Accept(c) \/ HandshakeOk(c) \/ HandshakeFails(c) \/ RestoreWatches(c)
    BY <1>1 DEF Accept, HandshakeOk, HandshakeFails, RestoreWatches
  <1>2. CASE ClientCall(c)
    BY <1>2 DEF ClientCall, BeginPlaySession, SendFrameData, EndPlaySession,
                StartWatchingUser, EndWatchingUser, LeaveLoop
  <1>3. CASE HandlerStep(c)
    <2>1. CASE SetsPlaying(c) \/ RemovesPlaying(c) \/ Broadcasts(c) \/ GetsPlaying(c)
      BY <2>1 DEF SetsPlaying, RemovesPlaying, Broadcasts, GetsPlaying, Command,
                  SetPlaying, RemovePlaying
    <2>2. CASE AddsWatching(c) \/ AddsWatchers(c) \/ ExpiresWatching(c) \/ ExpiresWatchers(c)
      BY <2>2 DEF AddsWatching, AddsWatchers, ExpiresWatching, ExpiresWatchers, Command
    <2>3. CASE RemsWatching(c) \/ RemsWatchers(c)
      BY <2>3 DEF RemsWatching, RemsWatchers, Command
    <2>4. QED
      BY <1>3, <2>1, <2>2, <2>3 DEF HandlerStep
  <1>4. CASE CleanupStep(c)
    <2>1. CASE FinRemovesPlaying(c) \/ FinBroadcasts(c) \/ FinDelsWatching(c)
      BY <2>1 DEF FinRemovesPlaying, FinBroadcasts, FinDelsWatching, Command,
                  RemovePlaying
    <2>2. CASE FinReadsWatching(c) \/ FinRemsWatchers(c)
      BY <2>2 DEF FinReadsWatching, FinRemsWatchers
    <2>3. CASE FinPops(c)
      BY <2>3 DEF FinPops, Dropped
    <2>4. QED
      BY <1>4, <2>1, <2>2, <2>3 DEF CleanupStep
  <1>5. CASE RedisError(c)
    BY <1>5 DEF RedisError, Dropped
  <1>6. QED
    BY <1>1, <1>2, <1>3, <1>4, <1>5 DEF ConnStep, ServerStep

\* What a step records of the removals and expiries it prevents.
LEMMA HistoryStep ==
    ASSUME TypeOK, NEW c \in Conns, ConnStep(c)
    PROVE  /\ unremoved \subseteq unremoved' /\ unexpired \subseteq unexpired'
           /\ RedisError(c) =>
                 /\ pc[c] \in {"removePlaying", "finPlaying"} => c \in unremoved'
                 /\ unexpired' = unexpired \cup Owes(c)
  <1>1. CASE RedisError(c)
    BY <1>1 DEF RedisError
  <1>2. CASE (Accept(c) \/ FinPops(c)) /\ ~RedisError(c)
    BY <1>2 DEF Accept, FinPops, historyVars
  <1>3. CASE ~Accept(c) /\ ~FinPops(c) /\ ~RedisError(c)
    BY <1>3, OrdinaryStep DEF historyVars
  <1>4. QED
    BY <1>1, <1>2, <1>3

\* After an error elsewhere the finally block still removes the key, and a
\* connection about to set it is one of those.
LEMMA ErrorStep ==
    ASSUME TypeOK, PlayInv, NEW c \in Conns, RedisError(c), WillRemovePlaying(c)
    PROVE  WillRemovePlaying(c)' \/ c \in unremoved'
  <1>1. CASE pc[c] \in {"removePlaying", "finPlaying"}
    BY <1>1 DEF RedisError
  <1>2. CASE pc[c] \notin {"removePlaying", "finPlaying"}
    <2>1. isPlaying[c] /\ pc[c] \notin Cleanup
      BY <1>2 DEF WillRemovePlaying, At
    <2>2. isPlaying'[c] /\ pc' = [pc EXCEPT ![c] = "finPlaying"]
      BY <2>1 DEF RedisError, Dropped, Goto, FinallyLabel
    <2>3. QED
      BY <2>2 DEF WillRemovePlaying, TypeOK
  <1>3. QED
    BY <1>1, <1>2

LEMMA PlayStep == TypeOK /\ PlayInv /\ [Next]_vars => PlayInv'
  <1> SUFFICES ASSUME TypeOK, PlayInv, [Next]_vars PROVE PlayInv'
    OBVIOUS
  <1>1. ASSUME NEW c \in Conns, ConnStep(c)
        PROVE  PlayInv'
    <2>1. unremoved \subseteq unremoved' /\ (RedisError(c) => playing' = playing)
      BY <1>1, HistoryStep DEF RedisError, redisVars
    <2>2. ASSUME NEW u \in playing'
          PROVE  \E d \in Conns : UserOf[d] = u /\ (WillRemovePlaying(d)' \/ d \in unremoved')
      <3>1. CASE u \notin playing
        BY <1>1, <2>1, <2>2, <3>1, PlayingSteps, SessionSteps
      <3>2. CASE u \in playing
        <4>1. PICK d \in Conns : UserOf[d] = u /\ (WillRemovePlaying(d) \/ d \in unremoved)
          BY <3>2 DEF PlayInv, PlayingBacked
        <4>2. CASE d \in unremoved
          BY <2>1, <4>1, <4>2
        <4>3. CASE d # c /\ WillRemovePlaying(d)
          BY <1>1, <4>1, <4>3, OthersKeep DEF WillRemovePlaying, At
        <4>4. CASE d = c /\ WillRemovePlaying(c) /\ RedisError(c)
          BY <4>1, <4>4, ErrorStep
        <4>5. CASE d = c /\ WillRemovePlaying(c) /\ ~RedisError(c)
          <5>1. WillRemovePlaying(c)' \/ playing' = playing \ {UserOf[c]}
            BY <1>1, <4>5, SessionSteps
          <5>2. QED
            BY <2>2, <4>1, <4>5, <5>1
        <4>6. QED
          BY <4>1, <4>2, <4>3, <4>4, <4>5
      <3>3. QED
        BY <3>1, <3>2
    <2>3. ASSUME NEW d \in Conns
          PROVE  /\ At(d, "setPlaying")' => isPlaying'[d]
                 /\ isPlaying'[d] => Open(d)'
      <3>1. CASE d = c
        BY <1>1, <3>1, SessionSteps
      <3>2. CASE d # c
        BY <1>1, <3>2, OthersKeep DEF PlayInv, At, Open
      <3>3. QED
        BY <3>1, <3>2
    <2>4. QED
      BY <2>2, <2>3 DEF PlayInv, PlayingBacked, At
  <1>2. CASE Crash
    <2>1. playing' = playing /\ unremoved' = unremoved \cup {c \in Conns : WillRemovePlaying(c)}
      BY <1>2 DEF Crash, redisVars
    <2>2. \A c \in Conns : ~isPlaying'[c] /\ pc'[c] # "setPlaying"
      BY <1>2 DEF Crash, Dropped, TypeOK, Open, Absent
    <2>3. QED
      BY <2>1, <2>2 DEF PlayInv, PlayingBacked, At
  <1>3. CASE Lapse
    <2>1. playing' \subseteq playing
      BY <1>3 DEF Lapse, PlayingLapses, IndexLapses
    <2>2. UNCHANGED <<hubVars, unremoved>>
      BY <1>3 DEF Lapse
    <2>3. QED
      BY <2>1, <2>2 DEF PlayInv, PlayingBacked, hubVars, At, Open, WillRemovePlaying
  <1>4. CASE UNCHANGED vars
    BY <1>4 DEF vars, hubVars, redisVars, historyVars, PlayInv, PlayingBacked, At, Open,
                WillRemovePlaying
  <1>5. QED
    BY <1>1, <1>2, <1>3, <1>4 DEF Next, ConnStep

LEMMA InitPlay == Init => PlayInv
  BY DEF Init, RedisInit, PlayInv, PlayingBacked, At

\* A playing key is orphaned only by an error of its own removal or by a crash
\* before it, however a user's connections overlap and whatever else fails.
THEOREM PlayingBackedCorrect == Spec => []PlayingBacked
  <1>1. PlayInv => PlayingBacked
    BY DEF PlayInv
  <1>2. QED
    BY <1>1, InitPlay, TypeCorrect, PlayStep, PTL DEF Spec

-----------------------------------------------------------------------------
(* The watch index.                                                        *)

Own(u) == index[WatchingKey(u)]
Seen(u) == {t \in Users : u \in index[WatchersKey(t)]}

LEMMA KeysDiffer ==
    ASSUME NEW u \in Users, NEW v \in Users
    PROVE  /\ WatchingKey(u) # WatchersKey(v)
           /\ WatchingKey(u) = WatchingKey(v) => u = v
           /\ WatchersKey(u) = WatchersKey(v) => u = v
  BY DEF WatchingKey, WatchersKey

\* What each command does to the two halves of any user v.
LEMMA SAddOwn ==
    ASSUME RedisTypeOK, NEW u \in Users, NEW t \in Users, SAdd(WatchingKey(u), t),
           NEW v \in Users
    PROVE  /\ Own(v)' = IF v = u THEN Own(u) \cup {t} ELSE Own(v)
           /\ Seen(v)' = Seen(v)
  BY KeysDiffer, KeysInIndex DEF RedisTypeOK, SAdd, Own, Seen

LEMMA SAddSeen ==
    ASSUME RedisTypeOK, NEW u \in Users, NEW t \in Users, SAdd(WatchersKey(t), u),
           NEW v \in Users
    PROVE  /\ Seen(v)' = IF v = u THEN Seen(u) \cup {t} ELSE Seen(v)
           /\ Own(v)' = Own(v)
  BY KeysDiffer, KeysInIndex DEF RedisTypeOK, SAdd, Own, Seen

LEMMA SRemOwn ==
    ASSUME RedisTypeOK, NEW u \in Users, NEW t \in Users, SRem(WatchingKey(u), t),
           NEW v \in Users
    PROVE  /\ Own(v)' = IF v = u THEN Own(u) \ {t} ELSE Own(v)
           /\ Seen(v)' = Seen(v)
  BY KeysDiffer, KeysInIndex DEF RedisTypeOK, SRem, Own, Seen

LEMMA SRemSeen ==
    ASSUME RedisTypeOK, NEW u \in Users, NEW t \in Users, SRem(WatchersKey(t), u),
           NEW v \in Users
    PROVE  /\ Seen(v)' = IF v = u THEN Seen(u) \ {t} ELSE Seen(v)
           /\ Own(v)' = Own(v)
  BY KeysDiffer, KeysInIndex DEF RedisTypeOK, SRem, Own, Seen

LEMMA DelOwn ==
    ASSUME RedisTypeOK, NEW u \in Users, Del(WatchingKey(u)), NEW v \in Users
    PROVE  /\ Own(v)' = IF v = u THEN {} ELSE Own(v)
           /\ Seen(v)' = Seen(v)
  BY KeysDiffer, KeysInIndex DEF RedisTypeOK, Del, Own, Seen

\* The two halves for the user of c, at each await c can be suspended at.
IndexShape(c) ==
    LET own == Own(UserOf[c])
        seen == Seen(UserOf[c])
    IN  /\ pc[c] \in {"addWatching", "remWatching", "ttlWatchers"} =>
              \E t \in Users : targets[c] = {t}
        /\ pc[c] \in {"ttlWatching", "addWatchers"} =>
              \E t \in Users : targets[c] = {t} /\ own = seen \cup {t}
        /\ At(c, "remWatchers") =>
              \E t \in Users : targets[c] = {t} /\ own = seen \ {t}
        /\ pc[c] \in {"finPlaying", "finBroadcast", "finRead"} => seen \subseteq own
        /\ At(c, "finSrem") => seen \subseteq targets[c]
        /\ At(c, "finDel") => seen = {}
        /\ At(c, "finPop") => own = {} /\ seen = {}
        /\ pc[c] \notin MidIndex => own = seen

Alone(u) ==
    \A c, d \in Conns :
        UserOf[c] = u /\ UserOf[d] = u /\ Open(c) /\ Open(d) => c = d

Gone(u) == \A c \in Conns : UserOf[c] = u => ~Open(c)

\* The inductive invariant: an undisturbed user has at most one connection
\* open, whose await tells what its halves of the index look like, and
\* nothing in the index without one.
IndexInv ==
    \A u \in Users \ disturbed :
        /\ Alone(u)
        /\ \A c \in Conns : UserOf[c] = u /\ Open(c) => IndexShape(c)
        /\ Gone(u) => Own(u) = {} /\ Seen(u) = {}

\* A step of c leaves the halves of every other user alone.
LEMMA IndexFrame ==
    ASSUME TypeOK, NEW c \in Conns, ConnStep(c), NEW v \in Users, v # UserOf[c]
    PROVE  Own(v)' = Own(v) /\ Seen(v)' = Seen(v)
  <1>0. RedisTypeOK
    BY DEF TypeOK
  <1>1. CASE UNCHANGED index
    BY <1>1 DEF Own, Seen
  <1>2. CASE AddsWatching(c) \/ AddsWatchers(c)
    BY <1>0, <1>2, SAddOwn, SAddSeen DEF AddsWatching, AddsWatchers, Command, TypeOK
  <1>3. CASE RemsWatching(c) \/ RemsWatchers(c) \/ FinRemsWatchers(c)
    BY <1>0, <1>3, SRemOwn, SRemSeen
       DEF RemsWatching, RemsWatchers, FinRemsWatchers, Command, TypeOK
  <1>4. CASE FinDelsWatching(c)
    BY <1>0, <1>4, DelOwn DEF FinDelsWatching, Command, TypeOK
  <1>5. \/ UNCHANGED index
        \/ AddsWatching(c) \/ AddsWatchers(c)
        \/ RemsWatching(c) \/ RemsWatchers(c) \/ FinRemsWatchers(c)
        \/ FinDelsWatching(c)
    BY DEF ConnStep, Accept, HandshakeOk, HandshakeFails, ClientCall,
           BeginPlaySession, SendFrameData, EndPlaySession, StartWatchingUser,
           EndWatchingUser, LeaveLoop, ServerStep, RestoreWatches, HandlerStep,
           SetsPlaying, RemovesPlaying, Broadcasts, GetsPlaying, ExpiresWatching,
           ExpiresWatchers, CleanupStep, FinRemovesPlaying, FinBroadcasts,
           FinReadsWatching, FinPops, RedisError, Command, SetPlaying,
           RemovePlaying, Expire, redisVars
  <1>6. QED
    BY <1>1, <1>2, <1>3, <1>4, <1>5

\* A step of c inside its calls and its cleanup carries the shape on.
LEMMA ShapeStep ==
    ASSUME TypeOK, NEW c \in Conns, ConnStep(c), IndexShape(c),
           ~Accept(c), ~FinPops(c), ~RedisError(c)
    PROVE  IndexShape(c)'
  <1>0. RedisTypeOK /\ UserOf[c] \in Users
    BY DEF TypeOK
  <1> USE DEF TypeOK, IndexShape, MidIndex, Cleanup, Goto, At
  <1>1. CASE HandshakeOk(c) \/ HandshakeFails(c) \/ RestoreWatches(c)
    BY <1>1 DEF HandshakeOk, HandshakeFails, RestoreWatches, FinallyLabel,
                redisVars, Own, Seen
  <1>2. CASE ClientCall(c)
    <2>1. CASE BeginPlaySession(c) \/ SendFrameData(c) \/ EndPlaySession(c) \/ LeaveLoop(c)
      BY <2>1 DEF BeginPlaySession, SendFrameData, EndPlaySession, LeaveLoop,
                  FinallyLabel, redisVars, Own, Seen
    <2>2. ASSUME NEW t \in Users, StartWatchingUser(c, t) \/ EndWatchingUser(c, t)
          PROVE  IndexShape(c)'
      BY <2>2 DEF StartWatchingUser, EndWatchingUser, redisVars, Own, Seen
    <2>3. QED
      BY <1>2, <2>1, <2>2 DEF ClientCall
  <1>3. CASE HandlerStep(c)
    <2>1. CASE SetsPlaying(c) \/ RemovesPlaying(c) \/ Broadcasts(c) \/ GetsPlaying(c)
      BY <2>1 DEF SetsPlaying, RemovesPlaying, Broadcasts, GetsPlaying, Command,
                  SetPlaying, RemovePlaying, redisVars, Own, Seen
    <2>2. CASE AddsWatching(c)
      BY <1>0, <2>2, SAddOwn DEF AddsWatching, Command
    <2>3. CASE AddsWatchers(c)
      BY <1>0, <2>3, SAddSeen DEF AddsWatchers, Command
    <2>4. CASE ExpiresWatching(c) \/ ExpiresWatchers(c)
      BY <2>4 DEF ExpiresWatching, ExpiresWatchers, Command, Expire, Own, Seen
    <2>5. CASE RemsWatching(c)
      BY <1>0, <2>5, SRemOwn DEF RemsWatching, Command
    <2>6. CASE RemsWatchers(c)
      BY <1>0, <2>6, SRemSeen DEF RemsWatchers
    <2>7. QED
      BY <1>3, <2>1, <2>2, <2>3, <2>4, <2>5, <2>6 DEF HandlerStep
  <1>4. CASE CleanupStep(c)
    <2>1. CASE FinRemovesPlaying(c) \/ FinBroadcasts(c)
      BY <2>1 DEF FinRemovesPlaying, FinBroadcasts, Command, RemovePlaying,
                  redisVars, Own, Seen
    <2>2. CASE FinReadsWatching(c)
      BY <2>2 DEF FinReadsWatching, redisVars, Own, Seen
    <2>3. CASE FinRemsWatchers(c)
      BY <1>0, <2>3, SRemSeen DEF FinRemsWatchers
    <2>4. CASE FinDelsWatching(c)
      BY <1>0, <2>4, DelOwn DEF FinDelsWatching, Command
    <2>5. QED
      BY <1>4, <2>1, <2>2, <2>3, <2>4 DEF CleanupStep
  <1>5. QED
    BY <1>1, <1>2, <1>3, <1>4 DEF ConnStep, ServerStep

\* An error in a handler other than remove_watcher's second half: what the
\* finally block finds is an index of which watching:{u} names every entry.
LEMMA ErrorShape ==
    ASSUME TypeOK, NEW c \in Conns, IndexShape(c), RedisError(c),
           pc[c] \notin IndexSpoilers
    PROVE  /\ Open(c) /\ IndexShape(c)'
           /\ \E l \in {"finPlaying", "finRead"} : pc' = [pc EXCEPT ![c] = l]
  <1>1. PICK l \in {"finPlaying", "finRead"} : pc' = [pc EXCEPT ![c] = l]
    BY DEF RedisError, IndexSpoilers, Goto, FinallyLabel
  <1>2. UNCHANGED index /\ Seen(UserOf[c]) \subseteq Own(UserOf[c])
    BY DEF RedisError, RedisAwaits, PlayCalls, WatchCalls, IndexSpoilers, IndexShape, MidIndex,
           redisVars
  <1>3. Open(c)
    BY DEF RedisError, RedisAwaits, PlayCalls, WatchCalls, IndexSpoilers, Cleanup, Open, Absent
  <1>4. QED
    BY <1>1, <1>2, <1>3 DEF IndexShape, MidIndex, Cleanup, Own, Seen, At, TypeOK

LEMMA IndexStep == TypeOK /\ IndexInv /\ [Next]_vars => IndexInv'
  <1> SUFFICES ASSUME TypeOK, IndexInv, [Next]_vars PROVE IndexInv'
    OBVIOUS
  <1>1. ASSUME NEW c \in Conns, ConnStep(c)
        PROVE  IndexInv'
    <2> SUFFICES ASSUME NEW u \in Users, u \notin disturbed'
                 PROVE  /\ Alone(u)'
                        /\ \A d \in Conns : UserOf[d] = u /\ Open(d)' => IndexShape(d)'
                        /\ Gone(u)' => Own(u)' = {} /\ Seen(u)' = {}
      BY DEF IndexInv
    <2>1. u \notin disturbed
      <3>1. CASE Accept(c) \/ FinPops(c) \/ RedisError(c)
        BY <3>1 DEF Accept, FinPops, RedisError, historyVars
      <3>2. CASE ~Accept(c) /\ ~FinPops(c) /\ ~RedisError(c)
        BY <1>1, <3>2, OrdinaryStep DEF historyVars
      <3>3. QED
        BY <3>1, <3>2
    <2>2. /\ Alone(u)
          /\ \A d \in Conns : UserOf[d] = u /\ Open(d) => IndexShape(d)
          /\ Gone(u) => Own(u) = {} /\ Seen(u) = {}
      BY <2>1 DEF IndexInv
    <2>3. CASE u # UserOf[c]
      <3>1. Own(u)' = Own(u) /\ Seen(u)' = Seen(u)
        BY <1>1, <2>3, IndexFrame
      <3>2. \A d \in Conns : UserOf[d] = u =>
               pc'[d] = pc[d] /\ targets'[d] = targets[d]
        BY <1>1, <2>3, OthersKeep
      <3>3. QED
        BY <2>2, <3>1, <3>2 DEF Alone, Gone, Open, IndexShape, At
    <2>4. CASE u = UserOf[c] /\ Accept(c)
      <3>1. Gone(u)
        BY <2>4 DEF Accept, Gone
      <3>2. Own(u)' = {} /\ Seen(u)' = {}
        BY <2>2, <2>4, <3>1 DEF Accept, redisVars, Own, Seen
      <3>3. pc' = [pc EXCEPT ![c] = "handshake"]
        BY <2>4 DEF Accept, Goto
      <3>4. \A d \in Conns : UserOf[d] = u /\ Open(d)' => d = c
        BY <3>1, <3>3 DEF Gone, Open, TypeOK
      <3>5. IndexShape(c)'
        BY <2>4, <3>2, <3>3 DEF IndexShape, MidIndex, Cleanup, At, TypeOK
      <3>6. Open(c)'
        BY <3>3 DEF Open, Absent, TypeOK
      <3>7. QED
        BY <2>4, <3>4, <3>5, <3>6 DEF Alone, Gone
    <2>5. CASE u = UserOf[c] /\ FinPops(c)
      <3>1. At(c, "finPop") /\ Open(c)
        BY <2>5 DEF FinPops, At, Open, Absent
      <3>2. Own(u)' = {} /\ Seen(u)' = {}
        BY <2>2, <2>5, <3>1 DEF FinPops, IndexShape, redisVars, Own, Seen
      <3>3. pc' = [pc EXCEPT ![c] = "closed"]
        BY <2>5 DEF FinPops, Goto
      <3>4. Gone(u)'
        BY <2>2, <2>5, <3>1, <3>3 DEF Gone, Alone, Open, Absent, TypeOK
      <3>5. QED
        BY <3>2, <3>4 DEF Alone, Gone
    <2>6. CASE u = UserOf[c] /\ ~Accept(c) /\ ~FinPops(c)
      <3>1. CASE RedisError(c)
        <4>1. pc[c] \notin IndexSpoilers
          BY <2>6, <3>1 DEF RedisError
        <4>2. Open(c)
          BY <3>1, <4>1 DEF RedisError, RedisAwaits, PlayCalls, WatchCalls, IndexSpoilers, Cleanup,
                            Open, Absent
        <4>3. /\ IndexShape(c)'
              /\ \E l \in {"finPlaying", "finRead"} : pc' = [pc EXCEPT ![c] = l]
          BY <2>2, <2>6, <3>1, <4>1, <4>2, ErrorShape
        <4>4. Open(c)' /\ \A d \in Conns : UserOf[d] = u /\ Open(d)' => d = c
          BY <2>2, <2>6, <4>2, <4>3 DEF Alone, Open, Absent, TypeOK
        <4>5. QED
          BY <2>6, <4>3, <4>4 DEF Alone, Gone
      <3> SUFFICES ASSUME ~RedisError(c)
                   PROVE  /\ Alone(u)'
                          /\ \A d \in Conns : UserOf[d] = u /\ Open(d)' => IndexShape(d)'
                          /\ Gone(u)' => Own(u)' = {} /\ Seen(u)' = {}
        BY <3>1
      <3>2. PICK l \in Labels \ Absent : pc' = [pc EXCEPT ![c] = l]
        BY <1>1, <2>6, OrdinaryStep
      <3>3. Open(c) /\ Open(c)'
        BY <1>1, <2>6, <3>2, OrdinaryStep DEF Open, TypeOK
      <3>4. IndexShape(c)'
        BY <1>1, <2>2, <2>6, <3>3, ShapeStep
      <3>5. \A d \in Conns : UserOf[d] = u /\ Open(d)' => d = c
        BY <2>2, <2>6, <3>2, <3>3 DEF Alone, Open, TypeOK
      <3>6. QED
        BY <2>6, <3>3, <3>4, <3>5 DEF Alone, Gone
    <2>7. QED
      BY <2>3, <2>4, <2>5, <2>6
  <1>2. CASE Crash
    <2>1. \A u \in Users : u \notin disturbed' => u \notin disturbed /\ Gone(u)
      BY <1>2 DEF Crash, Gone
    <2>2. \A u \in Users : Own(u)' = Own(u) /\ Seen(u)' = Seen(u) /\ Gone(u)'
      BY <1>2 DEF Crash, redisVars, Own, Seen, Gone, Open, Absent, TypeOK
    <2>3. QED
      BY <2>1, <2>2 DEF IndexInv, Alone, Gone
  <1>3. CASE Lapse
    <2>1. UNCHANGED <<pc, targets>>
      BY <1>3 DEF Lapse, hubVars
    <2>2. ASSUME NEW u \in Users, u \notin disturbed'
          PROVE  u \notin disturbed /\ Own(u)' = Own(u) /\ Seen(u)' = Seen(u)
      <3>1. ASSUME NEW v \in Users, PlayingLapses(v), UNCHANGED disturbed
            PROVE  u \notin disturbed /\ Own(u)' = Own(u) /\ Seen(u)' = Seen(u)
        BY <2>2, <3>1 DEF PlayingLapses, Own, Seen
      <3>2. ASSUME NEW v \in Users, IndexLapses(WatchingKey(v)),
                   disturbed' = disturbed \cup {v}
            PROVE  u \notin disturbed /\ Own(u)' = Own(u) /\ Seen(u)' = Seen(u)
        BY <2>2, <3>2, KeysDiffer, KeysInIndex
           DEF IndexLapses, Own, Seen, TypeOK, RedisTypeOK
      <3>3. ASSUME NEW v \in Users, IndexLapses(WatchersKey(v)),
                   disturbed' = disturbed \cup index[WatchersKey(v)]
            PROVE  u \notin disturbed /\ Own(u)' = Own(u) /\ Seen(u)' = Seen(u)
        BY <2>2, <3>3, KeysDiffer, KeysInIndex
           DEF IndexLapses, Own, Seen, TypeOK, RedisTypeOK
      <3>4. QED
        BY <1>3, <3>1, <3>2, <3>3 DEF Lapse
    <2>3. QED
      BY <2>1, <2>2 DEF IndexInv, Alone, Gone, Open, IndexShape, At
  <1>4. CASE UNCHANGED vars
    BY <1>4 DEF vars, hubVars, redisVars, historyVars, IndexInv, Alone, Gone, Open, IndexShape,
                At, Own, Seen
  <1>5. QED
    BY <1>1, <1>2, <1>3, <1>4 DEF Next, ConnStep

LEMMA InitIndex == Init => IndexInv
  BY KeysInIndex DEF Init, RedisInit, IndexInv, Alone, Gone, Open, Absent, Own, Seen

\* The index is bidirectional between the calls of every user whose
\* connections ran one at a time, also after an error inside add_watcher.
THEOREM IndexAgreesCorrect == Spec => []IndexAgrees
  <1>1. IndexInv => IndexAgrees
    <2> SUFFICES ASSUME IndexInv, NEW u \in Users \ disturbed,
                        \A c \in Conns : UserOf[c] = u => pc[c] \notin MidIndex
                 PROVE  WatchesAgree(u)
      BY DEF IndexAgrees
    <2>1. Own(u) = Seen(u)
      BY DEF IndexInv, Gone, IndexShape
    <2>2. QED
      BY <2>1 DEF WatchesAgree, Own, Seen
  <1>2. QED
    BY <1>1, InitIndex, TypeCorrect, IndexStep, PTL DEF Spec

-----------------------------------------------------------------------------
(* Times to live.                                                          *)

\* add_watcher is about one target.
OneTarget(c) ==
    pc[c] \in {"addWatching", "ttlWatching", "addWatchers", "ttlWatchers"} =>
        \E t \in Users : targets[c] = {t}

EternalInv ==
    /\ NoEternalKey
    /\ \A c \in Conns : OneTarget(c)

LEMMA EternalConn ==
    ASSUME TypeOK, NEW c \in Conns, ConnStep(c), OneTarget(c), ~RedisError(c)
    PROVE  /\ OneTarget(c)'
           /\ \A k \in eternal' : k \in Owes(c)' \/ (k \in eternal /\ k \notin Owes(c))
  <1>0. RedisTypeOK /\ UserOf[c] \in Users
    BY DEF TypeOK
  <1> USE DEF TypeOK, OneTarget, Owes, Goto, At
  <1>1. CASE Accept(c) \/ HandshakeOk(c) \/ HandshakeFails(c) \/ RestoreWatches(c)
    BY <1>1 DEF Accept, HandshakeOk, HandshakeFails, RestoreWatches, FinallyLabel, redisVars
  <1>2. CASE ClientCall(c)
    BY <1>2 DEF ClientCall, BeginPlaySession, SendFrameData, EndPlaySession, LeaveLoop,
                StartWatchingUser, EndWatchingUser, FinallyLabel, redisVars
  <1>3. CASE HandlerStep(c)
    <2>1. CASE SetsPlaying(c) \/ RemovesPlaying(c) \/ Broadcasts(c) \/ GetsPlaying(c)
      BY <2>1 DEF SetsPlaying, RemovesPlaying, Broadcasts, GetsPlaying, Command,
                  SetPlaying, RemovePlaying, redisVars
    <2>2. CASE AddsWatching(c) \/ AddsWatchers(c)
      BY <2>2 DEF AddsWatching, AddsWatchers, Command, SAdd
    <2>3. CASE ExpiresWatching(c) \/ ExpiresWatchers(c)
      BY <2>3 DEF ExpiresWatching, ExpiresWatchers, Command, Expire
    <2>4. CASE RemsWatching(c) \/ RemsWatchers(c)
      BY <2>4 DEF RemsWatching, RemsWatchers, Command, SRem
    <2>5. QED
      BY <1>3, <2>1, <2>2, <2>3, <2>4 DEF HandlerStep
  <1>4. CASE CleanupStep(c)
    BY <1>4 DEF CleanupStep, FinRemovesPlaying, FinBroadcasts, FinReadsWatching,
                FinRemsWatchers, FinDelsWatching, FinPops, Dropped, Command,
                RemovePlaying, SRem, Del, redisVars
  <1>5. QED
    BY <1>1, <1>2, <1>3, <1>4 DEF ConnStep, ServerStep

LEMMA EternalStep == TypeOK /\ EternalInv /\ [Next]_vars => EternalInv'
  <1> SUFFICES ASSUME TypeOK, EternalInv, [Next]_vars PROVE EternalInv'
    OBVIOUS
  <1>1. ASSUME NEW c \in Conns, ConnStep(c)
        PROVE  EternalInv'
    <2>1. ASSUME NEW d \in Conns PROVE OneTarget(d)'
      <3>1. CASE d # c
        BY <1>1, <3>1, OthersKeep DEF EternalInv, OneTarget
      <3>2. CASE d = c /\ ~RedisError(c)
        BY <1>1, <3>2, EternalConn DEF EternalInv
      <3>3. CASE d = c /\ RedisError(c)
        BY <3>3 DEF RedisError, OneTarget, TypeOK, Goto, FinallyLabel
      <3>4. QED
        BY <3>1, <3>2, <3>3
    <2>2. ASSUME NEW k \in eternal'
          PROVE  k \in unexpired' \/ \E d \in Conns : k \in Owes(d)'
      <3>1. unexpired \subseteq unexpired' /\ (RedisError(c) => Owes(c) \subseteq unexpired')
        BY <1>1, HistoryStep
      <3>2. CASE k \in Owes(c)'
        BY <3>2
      <3>3. CASE RedisError(c) /\ k \in Owes(c)
        BY <3>1, <3>3
      <3>4. CASE k \notin Owes(c)' /\ ~(RedisError(c) /\ k \in Owes(c))
        <4>1. k \in eternal /\ k \notin Owes(c)
          <5>1. CASE RedisError(c)
            BY <2>2, <3>4, <5>1 DEF RedisError, redisVars
          <5>2. CASE ~RedisError(c)
            BY <1>1, <2>2, <3>4, <5>2, EternalConn DEF EternalInv
          <5>3. QED
            BY <5>1, <5>2
        <4>2. CASE k \in unexpired
          BY <3>1, <4>2
        <4>3. CASE k \notin unexpired
          <5>1. PICK d \in Conns \ {c} : k \in Owes(d)
            BY <4>1, <4>3 DEF EternalInv, NoEternalKey
          <5>2. k \in Owes(d)'
            BY <1>1, <5>1, OthersKeep DEF Owes, At
          <5>3. QED
            BY <5>2
        <4>4. QED
          BY <4>2, <4>3
      <3>5. QED
        BY <3>2, <3>3, <3>4
    <2>3. QED
      BY <2>1, <2>2 DEF EternalInv, NoEternalKey
  <1>2. CASE Crash
    <2>1. NoEternalKey'
      BY <1>2 DEF Crash, EternalInv, NoEternalKey, redisVars
    <2>2. QED
      BY <1>2, <2>1 DEF Crash, EternalInv, OneTarget, TypeOK, Open, Absent
  <1>3. CASE Lapse
    <2>1. eternal' = eternal /\ UNCHANGED <<pc, targets, unexpired>>
      BY <1>3 DEF Lapse, PlayingLapses, IndexLapses, hubVars
    <2>2. QED
      BY <2>1 DEF EternalInv, NoEternalKey, OneTarget, Owes, At
  <1>4. CASE UNCHANGED vars
    BY <1>4 DEF vars, hubVars, redisVars, historyVars, EternalInv, NoEternalKey, OneTarget, Owes, At
  <1>5. QED
    BY <1>1, <1>2, <1>3, <1>4 DEF Next, ConnStep

\* The only keys with no TTL are those about to be given one and those whose
\* EXPIRE an error or a crash prevented.
THEOREM NoEternalKeyCorrect == Spec => []NoEternalKey
  <1>1. Init => EternalInv
    BY DEF Init, RedisInit, EternalInv, NoEternalKey, OneTarget
  <1>2. EternalInv => NoEternalKey
    BY DEF EternalInv
  <1>3. QED
    BY <1>1, <1>2, TypeCorrect, EternalStep, PTL DEF Spec

-----------------------------------------------------------------------------
(* What CleanupCompletes rests on, without the scheduler's fairness.       *)

\* The awaits at which a connection still has a target to process.
TargetLabels == {"addWatching", "ttlWatching", "addWatchers", "ttlWatchers",
                 "remWatching", "remWatchers", "finSrem"}
HasTarget(c) == pc[c] \in TargetLabels => targets[c] # {}

LEMMA TargetConn ==
    ASSUME TypeOK, NEW c \in Conns, ConnStep(c), HasTarget(c)
    PROVE  HasTarget(c)'
  <1> USE DEF TypeOK, HasTarget, TargetLabels, Goto, At
  <1>1. CASE Accept(c) \/ HandshakeOk(c) \/ HandshakeFails(c) \/ RestoreWatches(c)
    BY <1>1 DEF Accept, HandshakeOk, HandshakeFails, RestoreWatches, FinallyLabel
  <1>2. CASE ClientCall(c)
    BY <1>2 DEF ClientCall, BeginPlaySession, SendFrameData, EndPlaySession,
                StartWatchingUser, EndWatchingUser, LeaveLoop, FinallyLabel
  <1>3. CASE HandlerStep(c)
    BY <1>3 DEF HandlerStep, SetsPlaying, RemovesPlaying, Broadcasts, GetsPlaying,
                AddsWatching, AddsWatchers, ExpiresWatching, ExpiresWatchers,
                RemsWatching, RemsWatchers, Command
  <1>4. CASE CleanupStep(c)
    BY <1>4, KeysInIndex
       DEF CleanupStep, FinRemovesPlaying, FinBroadcasts, FinReadsWatching,
           FinRemsWatchers, FinDelsWatching, FinPops, Command, RedisTypeOK
  <1>5. CASE RedisError(c)
    BY <1>5 DEF RedisError, FinallyLabel
  <1>6. QED
    BY <1>1, <1>2, <1>3, <1>4, <1>5 DEF ConnStep, ServerStep

TargetsLeft == \A c \in Conns : HasTarget(c)

LEMMA TargetStep == TypeOK /\ TargetsLeft /\ [Next]_vars => TargetsLeft'
  <1> SUFFICES ASSUME TypeOK, \A c \in Conns : HasTarget(c), [Next]_vars
               PROVE  \A c \in Conns : HasTarget(c)'
    BY DEF TargetsLeft
  <1>1. ASSUME NEW c \in Conns, ConnStep(c)
        PROVE  \A d \in Conns : HasTarget(d)'
    BY <1>1, TargetConn, OthersKeep DEF HasTarget
  <1>2. CASE Crash
    BY <1>2 DEF Crash, HasTarget, TargetLabels, TypeOK, Open, Absent
  <1>3. CASE Lapse \/ UNCHANGED vars
    BY <1>3 DEF Lapse, vars, hubVars, HasTarget
  <1>4. QED
    BY <1>1, <1>2, <1>3 DEF Next, ConnStep

\* Wherever a handler or the finally block is about to process a target there
\* is one, so a coroutine is never held up by a loop that has run dry.
THEOREM TargetsAtHand == Spec => []TargetsLeft
  <1>1. Init => TargetsLeft
    BY DEF Init, TargetsLeft, HasTarget, TargetLabels
  <1>2. QED
    BY <1>1, TypeCorrect, TargetStep, PTL DEF Spec

\* The order of the finally block.
Behind(k, l) ==
    \/ k = "finPlaying" /\ l = "finBroadcast"
    \/ k = "finBroadcast" /\ l = "finRead"
    \/ k = "finRead" /\ l \in {"finSrem", "finDel"}
    \/ k = "finSrem" /\ l = "finDel"
    \/ k = "finDel" /\ l = "finPop"
    \/ k = "finPop" /\ l = "closed"

\* One step of the world: c, in its finally block, stays where it is, comes
\* to the next of its awaits, has one watched user less to take care of, or
\* is ended by an error or a crash.
CleanupGoesOn(c) ==
    pc[c] \in Cleanup =>
        \/ pc'[c] = pc[c] /\ targets'[c] = targets[c]
        \/ Behind(pc[c], pc'[c])
        \/ /\ pc[c] = "finSrem" /\ pc'[c] = "finSrem"
           /\ \E t \in targets[c] : targets'[c] = targets[c] \ {t}
        \/ faults' = faults + 1 /\ pc'[c] = "dead"

LEMMA CleanupConn ==
    ASSUME TypeOK, NEW c \in Conns, ConnStep(c)
    PROVE  /\ CleanupGoesOn(c)
           /\ CleanupStep(c) => pc[c] \in Cleanup /\ <<pc'[c], targets'[c]>> # <<pc[c], targets[c]>>
  <1> USE DEF TypeOK, CleanupGoesOn, Behind, Goto, At, Cleanup
  <1>1. CASE Accept(c) \/ HandshakeOk(c) \/ HandshakeFails(c) \/ RestoreWatches(c)
    <2>1. pc[c] \notin Cleanup
      BY <1>1 DEF Accept, HandshakeOk, HandshakeFails, RestoreWatches
    <2>2. ~CleanupStep(c)
      BY <2>1 DEF CleanupStep, FinRemovesPlaying, FinBroadcasts, FinReadsWatching,
                  FinRemsWatchers, FinDelsWatching, FinPops, Command
    <2>3. QED
      BY <2>1, <2>2
  <1>2. CASE ClientCall(c) \/ HandlerStep(c)
    <2>1. pc[c] \notin Cleanup
      BY <1>2 DEF ClientCall, BeginPlaySession, SendFrameData, EndPlaySession,
                  StartWatchingUser, EndWatchingUser, LeaveLoop,
                  HandlerStep, SetsPlaying, RemovesPlaying, Broadcasts, GetsPlaying,
                  AddsWatching, AddsWatchers, ExpiresWatching, ExpiresWatchers,
                  RemsWatching, RemsWatchers, Command
    <2>2. ~CleanupStep(c)
      BY <2>1 DEF CleanupStep, FinRemovesPlaying, FinBroadcasts, FinReadsWatching,
                  FinRemsWatchers, FinDelsWatching, FinPops, Command
    <2>3. QED
      BY <2>1, <2>2
  <1>3. CASE CleanupStep(c)
    <2>1. CASE FinRemovesPlaying(c) \/ FinBroadcasts(c) \/ FinDelsWatching(c)
      BY <2>1 DEF FinRemovesPlaying, FinBroadcasts, FinDelsWatching, Command
    <2>2. CASE FinReadsWatching(c)
      BY <2>2 DEF FinReadsWatching
    <2>3. CASE FinRemsWatchers(c)
      BY <2>3 DEF FinRemsWatchers
    <2>4. CASE FinPops(c)
      BY <2>4 DEF FinPops
    <2>5. QED
      BY <1>3, <2>1, <2>2, <2>3, <2>4 DEF CleanupStep
  <1>4. CASE RedisError(c) /\ ~CleanupStep(c)
    BY <1>4 DEF RedisError
  <1>5. QED
    BY <1>1, <1>2, <1>3, <1>4 DEF ConnStep, ServerStep

\* A finally block only moves forward, through each of its awaits once and
\* through its loop once per user watched, and each step the server takes for
\* it is such a move: under a fair scheduler it ends.
THEOREM CleanupAdvances ==
    Spec => [][\A c \in Conns :
                  /\ CleanupGoesOn(c)
                  /\ CleanupStep(c) => <<pc'[c], targets'[c]>> # <<pc[c], targets[c]>>]_vars
  <1> DEFINE Advance ==
        \A c \in Conns :
            /\ CleanupGoesOn(c)
            /\ CleanupStep(c) => <<pc'[c], targets'[c]>> # <<pc[c], targets[c]>>
  <1>1. TypeOK /\ [Next]_vars => [Advance]_vars
    <2> SUFFICES ASSUME TypeOK, Next PROVE Advance
      OBVIOUS
    <2>1. ASSUME NEW c \in Conns, CleanupStep(c)
          PROVE  <<pc'[c], targets'[c]>> # <<pc[c], targets[c]>>
      BY <2>1, CleanupConn DEF ConnStep, ServerStep
    <2>2. ASSUME NEW c \in Conns, ConnStep(c), NEW d \in Conns
          PROVE  CleanupGoesOn(d)
      <3>1. CASE d = c
        BY <2>2, <3>1, CleanupConn
      <3>2. CASE d # c
        BY <2>2, <3>2, OthersKeep DEF CleanupGoesOn
      <3>3. QED
        BY <3>1, <3>2
    <2>3. ASSUME Crash, NEW d \in Conns
          PROVE  CleanupGoesOn(d)
      BY <2>3 DEF Crash, CleanupGoesOn, Open, Absent, Cleanup, TypeOK
    <2>4. ASSUME Lapse, NEW d \in Conns
          PROVE  CleanupGoesOn(d)
      BY <2>4 DEF Lapse, CleanupGoesOn, hubVars
    <2>5. QED
      BY <2>1, <2>2, <2>3, <2>4 DEF Next, ConnStep
  <1> HIDE DEF Advance
  <1>2. Spec => [][Advance]_vars
    BY <1>1, TypeCorrect, PTL DEF Spec
  <1>3. QED
    BY <1>2 DEF Advance

=============================================================================
