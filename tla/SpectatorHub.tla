---------------------------- MODULE SpectatorHub ----------------------------
(***************************************************************************)
(* The spectator hub (app/api/hubs/spectator.py): one coroutine per        *)
(* WebSocket connection, all of them on one event loop, sharing two        *)
(* in-memory registries and the Redis state of HubState.                   *)
(*                                                                         *)
(* A coroutine gives way only at an await, so pc[c] names the await that   *)
(* connection c is suspended at, and an action runs c from there to its    *)
(* next await.  An awaited Redis command takes effect in the step that     *)
(* leaves its await.  Two things are left out because no code reads what   *)
(* they write: conn.watching_users, a copy of the user's half of the       *)
(* index, and the frames and notifications sent (the awaits before them    *)
(* are here).                                                              *)
(***************************************************************************)
EXTENDS HubState

CONSTANTS
    Conns,                  \* connection ids, one per negotiated WebSocket
    UserOf,                 \* the user a connection is registered under
    None,                   \* no connection
    MaxFaults,              \* bound on Redis errors and server crashes
    KeysLapse               \* whether the behaviours outlast a TTL (1 h, 2 h)

ASSUME UserOfAssumption == UserOf \in [Conns -> Users]
ASSUME NoneAssumption == None \notin Conns
ASSUME MaxFaultsAssumption == MaxFaults \in Nat
ASSUME KeysLapseAssumption == KeysLapse \in BOOLEAN

VARIABLES
    connections,            \* ids in the registry of live connections
    userConnections,        \* user_connections: user -> connection id
    pc,                     \* the await each connection's coroutine is at
    isPlaying,              \* conn.is_playing
    targets,                \* targets the index operation still has to process
    faults,                 \* Redis errors and crashes so far
    disturbed,              \* history: users whose watch calls did not run alone
    unremoved,              \* history: connections that ended owing a remove_playing
    unexpired               \* history: keys a connection ended owing an EXPIRE

hubVars == <<connections, userConnections, pc, isPlaying, targets>>
historyVars == <<disturbed, unremoved, unexpired>>
vars == <<redisVars, hubVars, faults, historyVars>>

-----------------------------------------------------------------------------
(* Where a coroutine can be.                                               *)

Absent == {"new", "closed", "dead"}
Serving == {"handshake", "restore", "loop"}
PlayCalls == {"setPlaying", "removePlaying", "broadcast"}
WatchCalls == {"addWatching", "ttlWatching", "addWatchers", "ttlWatchers",
               "getPlaying", "remWatching", "remWatchers"}
Cleanup == {"finPlaying", "finBroadcast", "finRead", "finSrem", "finDel", "finPop"}
Labels == Absent \cup Serving \cup PlayCalls \cup WatchCalls \cup Cleanup

\* Labels at which the previous or the next await is a Redis command.
RedisAwaits == {"restore"} \cup PlayCalls \cup WatchCalls \cup Cleanup

Open(c) == pc[c] \notin Absent
Goto(c, l) == pc' = [pc EXCEPT ![c] = l]
At(c, l) == pc[c] = l

\* `finally:` starts with remove_playing only when the connection is playing.
FinallyLabel(c) == IF isPlaying[c] THEN "finPlaying" ELSE "finRead"

TypeOK ==
    /\ RedisTypeOK
    /\ connections \in SUBSET Conns
    /\ userConnections \in [Users -> Conns \cup {None}]
    /\ pc \in [Conns -> Labels]
    /\ isPlaying \in [Conns -> BOOLEAN]
    /\ targets \in [Conns -> SUBSET Users]
    /\ faults \in 0..MaxFaults
    /\ disturbed \in SUBSET Users
    /\ unremoved \in SUBSET Conns
    /\ unexpired \in SUBSET IndexKeys

Init ==
    /\ RedisInit
    /\ connections = {}
    /\ userConnections = [u \in Users |-> None]
    /\ pc = [c \in Conns |-> "new"]
    /\ isPlaying = [c \in Conns |-> FALSE]
    /\ targets = [c \in Conns |-> {}]
    /\ faults = 0
    /\ disturbed = {} /\ unremoved = {} /\ unexpired = {}

-----------------------------------------------------------------------------
(* Connecting.                                                             *)

\* Faulty variant: the registry maps the user to itself.
AcceptSwapped(c) ==
    /\ At(c, "new")
    /\ connections' = connections \cup {c}
    /\ userConnections' = [userConnections EXCEPT ![UserOf[c]] = UserOf[c]]
    /\ Goto(c, "handshake")
    /\ UNCHANGED <<redisVars, isPlaying, targets, faults, historyVars>>

\* accept() and the registration of the connection, which comes before its
\* handshake.  A user with another open connection is disturbed from here on.
Accept(c) ==
    /\ At(c, "new")
    /\ connections' = connections \cup {c}
    /\ userConnections' = [userConnections EXCEPT ![UserOf[c]] = c]
    /\ Goto(c, "handshake")
    /\ disturbed' = IF \E d \in Conns : Open(d) /\ UserOf[d] = UserOf[c]
                      THEN disturbed \cup {UserOf[c]} ELSE disturbed
    /\ UNCHANGED <<redisVars, isPlaying, targets, faults, unremoved, unexpired>>

HandshakeOk(c) ==
    /\ At(c, "handshake")
    /\ Goto(c, "restore")
    /\ UNCHANGED <<redisVars, connections, userConnections, isPlaying,
                   targets, faults, historyVars>>

\* Faulty variant: the handshake is outside the try.
HandshakeFailsOutsideTry(c) ==
    /\ At(c, "handshake")
    /\ Goto(c, "closed")
    /\ UNCHANGED <<redisVars, connections, userConnections, isPlaying,
                   targets, faults, historyVars>>

\* A bad handshake, or a client gone before it: `return` from inside the try.
HandshakeFails(c) ==
    /\ At(c, "handshake")
    /\ Goto(c, FinallyLabel(c))
    /\ UNCHANGED <<redisVars, connections, userConnections, isPlaying,
                   targets, faults, historyVars>>

\* get_watching, into the connection's local set.
RestoreWatches(c) ==
    /\ At(c, "restore")
    /\ Goto(c, "loop")
    /\ UNCHANGED <<redisVars, connections, userConnections, isPlaying,
                   targets, faults, historyVars>>

-----------------------------------------------------------------------------
(* handle_message, run by the message loop one message at a time.          *)

BeginPlaySession(c) ==
    /\ At(c, "loop")
    /\ isPlaying' = [isPlaying EXCEPT ![c] = TRUE]
    /\ Goto(c, "setPlaying")
    /\ UNCHANGED <<redisVars, connections, userConnections, targets, faults, historyVars>>

SendFrameData(c) ==
    /\ At(c, "loop")
    /\ Goto(c, "broadcast")
    /\ UNCHANGED <<redisVars, connections, userConnections, isPlaying,
                   targets, faults, historyVars>>

EndPlaySession(c) ==
    /\ At(c, "loop")
    /\ isPlaying' = [isPlaying EXCEPT ![c] = FALSE]
    /\ Goto(c, "removePlaying")
    /\ UNCHANGED <<redisVars, connections, userConnections, targets, faults, historyVars>>

StartWatchingUser(c, t) ==
    /\ At(c, "loop")
    /\ targets' = [targets EXCEPT ![c] = {t}]
    /\ Goto(c, "addWatching")
    /\ UNCHANGED <<redisVars, connections, userConnections, isPlaying,
                   faults, historyVars>>

EndWatchingUser(c, t) ==
    /\ At(c, "loop")
    /\ targets' = [targets EXCEPT ![c] = {t}]
    /\ Goto(c, "remWatching")
    /\ UNCHANGED <<redisVars, connections, userConnections, isPlaying,
                   faults, historyVars>>

\* A disconnect message, a message that does not decode, or a failing send:
\* the loop or the handler is left and the finally block entered.
LeaveLoop(c) ==
    /\ At(c, "loop")
    /\ Goto(c, FinallyLabel(c))
    /\ UNCHANGED <<redisVars, connections, userConnections, isPlaying,
                   targets, faults, historyVars>>

ClientCall(c) ==
    \/ BeginPlaySession(c)
    \/ SendFrameData(c)
    \/ EndPlaySession(c)
    \/ \E t \in Users : StartWatchingUser(c, t) \/ EndWatchingUser(c, t)
    \/ LeaveLoop(c)

-----------------------------------------------------------------------------
(* The awaited Redis commands of the handlers.                             *)

\* c runs command `cmd` at label `here` and is at label `there` after it.
Command(c, here, cmd, there) ==
    /\ At(c, here)
    /\ cmd
    /\ Goto(c, there)
    /\ UNCHANGED <<connections, userConnections, isPlaying, targets, faults, historyVars>>

SetsPlaying(c) ==
    Command(c, "setPlaying", SetPlaying(UserOf[c]), "broadcast")

RemovesPlaying(c) ==
    Command(c, "removePlaying", RemovePlaying(UserOf[c]), "broadcast")

\* _broadcast_to_watchers: get_watchers, then a send to each watcher whose
\* user has a registered connection; a failing send is caught.
Broadcasts(c) ==
    Command(c, "broadcast", UNCHANGED redisVars, "loop")

\* Faulty variant: no EXPIRE on the second key.
ExpiresWatchersNever(c) ==
    Command(c, "ttlWatchers", UNCHANGED redisVars, "getPlaying")

\* add_watcher: SADD and EXPIRE on either half of the index, in this order.
AddsWatching(c) ==
    Command(c, "addWatching",
            \E t \in targets[c] : SAdd(WatchingKey(UserOf[c]), t), "ttlWatching")

ExpiresWatching(c) ==
    Command(c, "ttlWatching", Expire(WatchingKey(UserOf[c])), "addWatchers")

AddsWatchers(c) ==
    Command(c, "addWatchers",
            \E t \in targets[c] : SAdd(WatchersKey(t), UserOf[c]), "ttlWatchers")

ExpiresWatchers(c) ==
    Command(c, "ttlWatchers",
            \E t \in targets[c] : Expire(WatchersKey(t)), "getPlaying")

\* get_playing and the notifications to the watcher and to its target.
GetsPlaying(c) ==
    /\ At(c, "getPlaying")
    /\ targets' = [targets EXCEPT ![c] = {}]
    /\ Goto(c, "loop")
    /\ UNCHANGED <<redisVars, connections, userConnections, isPlaying,
                   faults, historyVars>>

\* remove_watcher: SREM on either half.
RemsWatching(c) ==
    Command(c, "remWatching",
            \E t \in targets[c] : SRem(WatchingKey(UserOf[c]), t), "remWatchers")

RemsWatchers(c) ==
    /\ At(c, "remWatchers")
    /\ \E t \in targets[c] : SRem(WatchersKey(t), UserOf[c])
    /\ targets' = [targets EXCEPT ![c] = {}]
    /\ Goto(c, "loop")
    /\ UNCHANGED <<connections, userConnections, isPlaying, faults, historyVars>>

HandlerStep(c) ==
    \/ SetsPlaying(c) \/ RemovesPlaying(c) \/ Broadcasts(c)
    \/ AddsWatching(c) \/ ExpiresWatching(c)
    \/ AddsWatchers(c) \/ ExpiresWatchers(c) \/ GetsPlaying(c)
    \/ RemsWatching(c) \/ RemsWatchers(c)

-----------------------------------------------------------------------------
(* The finally block.                                                      *)

FinRemovesPlaying(c) ==
    Command(c, "finPlaying", RemovePlaying(UserOf[c]), "finBroadcast")

FinBroadcasts(c) ==
    Command(c, "finBroadcast", UNCHANGED redisVars, "finRead")

\* Faulty variant: the user's own key is deleted without a look at it.
FinReadsNothing(c) ==
    Command(c, "finRead", UNCHANGED redisVars, "finDel")

\* clear_user_watches: SMEMBERS of what the user watches, ...
FinReadsWatching(c) ==
    /\ At(c, "finRead")
    /\ targets' = [targets EXCEPT ![c] = index[WatchingKey(UserOf[c])]]
    /\ Goto(c, IF targets'[c] = {} THEN "finDel" ELSE "finSrem")
    /\ UNCHANGED <<redisVars, connections, userConnections, isPlaying,
                   faults, historyVars>>

\* Faulty variant: the loop does not advance.
FinRemsWatchersForever(c) ==
    /\ At(c, "finSrem")
    /\ \E t \in targets[c] : SRem(WatchersKey(t), UserOf[c])
    /\ UNCHANGED <<hubVars, faults, historyVars>>

\* ... an SREM for each of them, in the order the set happens to iterate, ...
FinRemsWatchers(c) ==
    /\ At(c, "finSrem")
    /\ \E t \in targets[c] :
          /\ SRem(WatchersKey(t), UserOf[c])
          /\ targets' = [targets EXCEPT ![c] = @ \ {t}]
    /\ Goto(c, IF targets'[c] = {} THEN "finDel" ELSE "finSrem")
    /\ UNCHANGED <<connections, userConnections, isPlaying, faults, historyVars>>

\* ... and a DEL of the user's own key.
FinDelsWatching(c) ==
    Command(c, "finDel", Del(WatchingKey(UserOf[c])), "finPop")

\* The connection objects of the coroutines in D go with them.
Dropped(D) ==
    /\ isPlaying' = [c \in Conns |-> IF c \in D THEN FALSE ELSE isPlaying[c]]
    /\ targets' = [c \in Conns |-> IF c \in D THEN {} ELSE targets[c]]

\* Faulty variant: only the connection registry is cleaned.
FinPopsConnection(c) ==
    /\ At(c, "finPop")
    /\ connections' = connections \ {c}
    /\ Goto(c, "closed")
    /\ Dropped({c})
    /\ UNCHANGED <<redisVars, userConnections, faults, historyVars>>

\* Both registries lose their entry in one step: no await between the pops,
\* and the user's entry goes whichever connection it designates.
FinPops(c) ==
    /\ At(c, "finPop")
    /\ userConnections' = [userConnections EXCEPT ![UserOf[c]] = None]
    /\ connections' = connections \ {c}
    /\ Goto(c, "closed")
    /\ Dropped({c})
    /\ UNCHANGED <<redisVars, faults, historyVars>>

CleanupStep(c) ==
    \/ FinRemovesPlaying(c) \/ FinBroadcasts(c) \/ FinReadsWatching(c)
    \/ FinRemsWatchers(c) \/ FinDelsWatching(c) \/ FinPops(c)

-----------------------------------------------------------------------------
(* Failures.                                                               *)

\* c has a remove_playing still to do: in EndPlaySession, or at the start of
\* the finally block if the session is not ended before.
WillRemovePlaying(c) ==
    \/ At(c, "removePlaying")
    \/ isPlaying[c] /\ pc[c] \notin Cleanup \ {"finPlaying"}

\* The keys whose EXPIRE is the next command of c.
Owes(c) ==
    IF At(c, "ttlWatching") THEN {WatchingKey(UserOf[c])}
    ELSE IF At(c, "ttlWatchers") THEN {WatchersKey(t) : t \in targets[c]}
    ELSE {}

\* An error in remove_watcher leaves one half behind, and one in the finally
\* block what it had still to clear; after any other the finally block clears
\* the user's watches in full.
IndexSpoilers == {"remWatchers"} \cup Cleanup

\* Faulty variant: after an error the finally block does without remove_playing.
RedisErrorForgetsPlaying(c) ==
    /\ faults < MaxFaults
    /\ pc[c] \in RedisAwaits
    /\ faults' = faults + 1
    /\ disturbed' = disturbed \cup {UserOf[c]}
    /\ Goto(c, IF pc[c] \in Cleanup THEN "dead" ELSE "finRead")
    /\ Dropped(IF pc[c] \in Cleanup THEN {c} ELSE {})
    /\ UNCHANGED <<redisVars, connections, userConnections, unremoved, unexpired>>

\* A Redis command raises.  In the handlers that leads to the finally block;
\* in the finally block it ends the coroutine with the pops not done.  At
\* "finPop" the DEL was executed and its reply lost.
RedisError(c) ==
    /\ faults < MaxFaults
    /\ pc[c] \in RedisAwaits
    /\ faults' = faults + 1
    /\ disturbed' = IF pc[c] \in IndexSpoilers THEN disturbed \cup {UserOf[c]} ELSE disturbed
    /\ unremoved' = IF pc[c] \in {"removePlaying", "finPlaying"} THEN unremoved \cup {c}
                    ELSE unremoved
    /\ unexpired' = unexpired \cup Owes(c)
    /\ IF pc[c] \in Cleanup
         THEN Goto(c, "dead") /\ Dropped({c})
         ELSE Goto(c, FinallyLabel(c)) /\ Dropped({})
    /\ UNCHANGED <<redisVars, connections, userConnections>>

\* The server process dies: its coroutines and registries are gone, Redis
\* keeps what it has.
Crash ==
    /\ faults < MaxFaults
    /\ \E c \in Conns : Open(c)
    /\ faults' = faults + 1
    /\ disturbed' = disturbed \cup {UserOf[c] : c \in {d \in Conns : Open(d)}}
    /\ unremoved' = unremoved \cup {c \in Conns : WillRemovePlaying(c)}
    /\ unexpired' = unexpired \cup UNION {Owes(c) : c \in Conns}
    /\ pc' = [c \in Conns |-> IF Open(c) THEN "dead" ELSE pc[c]]
    /\ connections' = {}
    /\ userConnections' = [u \in Users |-> None]
    /\ Dropped(Conns)
    /\ UNCHANGED redisVars

\* A TTL runs out (2 h for playing, 1 h for the index); both halves of the
\* index lapse on their own clocks.
Lapse ==
    /\ KeysLapse
    /\ \/ \E u \in Users :
             PlayingLapses(u) /\ UNCHANGED disturbed
       \/ \E u \in Users :
             IndexLapses(WatchingKey(u)) /\ disturbed' = disturbed \cup {u}
       \/ \E u \in Users :
             /\ IndexLapses(WatchersKey(u))
             /\ disturbed' = disturbed \cup index[WatchersKey(u)]
    /\ UNCHANGED <<hubVars, faults, unremoved, unexpired>>

-----------------------------------------------------------------------------

\* What the server does on its own once a connection is suspended at an await
\* of its own (not at one for the client).
ServerStep(c) == RestoreWatches(c) \/ HandlerStep(c) \/ CleanupStep(c)

Next ==
    \/ \E c \in Conns :
          \/ Accept(c) \/ HandshakeOk(c) \/ HandshakeFails(c)
          \/ ClientCall(c) \/ ServerStep(c) \/ RedisError(c)
    \/ Crash
    \/ Lapse

Spec == Init /\ [][Next]_vars

\* The event loop resumes every coroutine whose await has completed.
FairSpec == Spec /\ \A c \in Conns : WF_vars(ServerStep(c))
-----------------------------------------------------------------------------
(* Properties.                                                             *)

\* A connection stays registered after its coroutine has ended only if a
\* Redis command of its own finally block failed (spectator.py:229-244): a
\* failed handshake, an error in a handler, a lapsed key or another connection
\* of the user leaks nothing.
NoLeak ==
    \A c \in connections : Open(c) \/ At(c, "dead")

\* An entry of user_connections designates a registered connection of that
\* user, open or ended by an error in its finally block, whatever the order in
\* which the user's connections come and go: _send_to_user finds no id that
\* the registry of connections does not know, nor one of another user.
RegistrySound ==
    \A u \in Users :
        userConnections[u] # None =>
            /\ userConnections[u] \in connections
            /\ UserOf[userConnections[u]] = u
            /\ Open(userConnections[u]) \/ At(userConnections[u], "dead")

\* A playing key has a connection of its user behind it that will remove it,
\* or one whose removal failed or which a crash ended before it: errors
\* anywhere else, lapses and overlapping connections orphan no key.  So a
\* playing key does NOT survive a disconnect, brief or not: the finally block
\* removes it (spectator.py:231).  The docstring at spectator.py:104-105 says
\* the opposite, as StateSurvivesDisconnect shows; what the code achieves is
\* stated here.
PlayingBacked ==
    \A u \in playing :
        \E c \in Conns : UserOf[c] = u /\ (WillRemovePlaying(c) \/ c \in unremoved)

\* The labels between two commands that change the index of one user, and
\* those of a finally block that may have a half-done call to clear up.
MidIndex == {"ttlWatching", "addWatchers", "remWatchers"} \cup (Cleanup \ {"finPop"})

WatchesAgree(u) ==
    \A t \in Users : t \in index[WatchingKey(u)] <=> u \in index[WatchersKey(t)]

\* add_watcher "maintains bidirectional index" (hub_state.py:286): for a user
\* whose connections were open one at a time, and whose keys did not lapse,
\* watching:{u} and the watchers:{t} are inverse to each other between two
\* calls and after the connection, also when an error cut an add_watcher in
\* two: the finally block clears up both halves of what it had begun.
IndexAgrees ==
    \A u \in Users \ disturbed :
        (\A c \in Conns : UserOf[c] = u => pc[c] \notin MidIndex) => WatchesAgree(u)

\* An index key without a TTL is one whose EXPIRE is the next command of the
\* connection that created it, or one whose EXPIRE an error or a crash
\* prevented: nothing else, in no order of calls and lapses, lets a key
\* outlive its TTL.
NoEternalKey ==
    \A k \in eternal : k \in unexpired \/ \E c \in Conns : k \in Owes(c)

\* A cleanup that has started ends, however large the set it has to clear.
CleanupCompletes ==
    \A c \in Conns : pc[c] \in Cleanup ~> ~Open(c)

\* What hub_state.py:286 says of add_watcher with no further condition: the
\* index is bidirectional whenever no call of the service is under way.
BidirectionalIndex ==
    (faults = 0 /\ \A c \in Conns : pc[c] \notin MidIndex) =>
        \A u \in Users : WatchesAgree(u)

\* "State is persisted to Redis for: Playing users (survives brief
\* disconnects), Watch relationships (can be restored on reconnect)"
\* (spectator.py:104-106, read back at :137-141): the end of a connection
\* takes neither the playing key of its user nor what the user watches.
StateSurvivesDisconnect ==
    [][\A c \in Conns :
          CleanupStep(c) =>
              /\ UserOf[c] \in playing => UserOf[c] \in playing'
              /\ index[WatchingKey(UserOf[c])] \subseteq index'[WatchingKey(UserOf[c])]]_vars
=============================================================================
