---------------------------- MODULE MetadataHub -----------------------------
(***************************************************************************)
(* The metadata hub (app/api/hubs/metadata.py) on the message loop of      *)
(* hubs/base.py, with the presence part of HubStateService: a presence     *)
(* string per user that lives Ttl units, and one set of watchers that      *)
(* never lapses.  As in SpectatorHub, pc[c] names the await connection c   *)
(* is suspended at and a Redis command takes effect in the step that       *)
(* leaves its await.                                                       *)
(*                                                                         *)
(* Time passes in units of the loop's receive timeout (30 s): Tick ends a  *)
(* unit, and a connection that has waited through one must time out        *)
(* before the next ends.  Redis commands and sends end in the unit they    *)
(* start in.  What a client is told is left out: the awaits of the sends   *)
(* are here, their contents are not.                                       *)
(***************************************************************************)
EXTENDS Naturals, FiniteSets

CONSTANTS
    Users,                  \* user ids
    Conns,                  \* connection ids
    UserOf,                 \* the user a connection is registered under
    Activities, Statuses,   \* what a presence consists of
    Online,                 \* UserStatus.ONLINE, the default
    NoActivity,             \* activity None
    None,                   \* no connection, no presence
    Ttl,                    \* TTL_PRESENCE in units of the receive timeout
    MaxFaults               \* bound on Redis errors and server crashes

ASSUME UserOfAssumption == UserOf \in [Conns -> Users]
ASSUME OnlineAssumption == Online \in Statuses
ASSUME TtlAssumption == Ttl \in Nat /\ Ttl >= 2
ASSUME MaxFaultsAssumption == MaxFaults \in Nat

VARIABLES
    presence,               \* hub:presence:{u}: [activity, status] or None
    ttl,                    \* [Users -> 0..Ttl], what is left of its time to live
    watchers,               \* hub:presence_watchers
    connections,            \* ids in the registry of live connections
    userConnections,        \* user_connections: user -> connection id
    pc,                     \* the await each connection's coroutine is at
    own,                    \* [conn.activity, conn.status]
    watching,               \* conn.watching_presence
    toNotify,               \* watchers the broadcast under way has still to send to
    idle,                   \* connections that have waited for a whole unit
    quiet,                  \* history: last heard of with no effect on the TTL
    neglected,              \* history: presence lapsed under a quiet connection
    left,                   \* history: what an ended connection did not remove
    faults,                 \* Redis errors and crashes so far
    disturbed               \* history: users whose connections did not run alone

storeVars == <<presence, ttl, watchers>>
registryVars == <<connections, userConnections>>
connVars == <<own, watching, toNotify>>
historyVars == <<quiet, neglected, left>>
vars == <<storeVars, registryVars, pc, connVars, idle, historyVars, faults,
          disturbed>>

Absent == {"new", "closed", "dead"}
Handlers == {"setPresence", "broadcast", "notify", "addWatcher", "getOnline",
             "remWatcher", "expire"}
Cleanup == {"finPresence", "finWatcher", "finBroadcast", "finNotify"}
Labels == Absent \cup {"handshake", "loop"} \cup Handlers \cup Cleanup
RedisAwaits == (Handlers \cup Cleanup) \ {"notify", "finNotify"}

Open(c) == pc[c] \notin Absent
At(c, l) == pc[c] = l
Goto(c, l) == pc' = [pc EXCEPT ![c] = l]
Presences == [activity : Activities \cup {NoActivity}, status : Statuses]
Fresh == [activity |-> NoActivity, status |-> Online]

ASSUME NoneAssumption == None \notin Conns \cup Presences \cup Statuses

TypeOK ==
    /\ presence \in [Users -> Presences \cup {None}]
    /\ ttl \in [Users -> 0..Ttl]
    /\ watchers \in SUBSET Users
    /\ connections \in SUBSET Conns
    /\ userConnections \in [Users -> Conns \cup {None}]
    /\ pc \in [Conns -> Labels]
    /\ own \in [Conns -> Presences]
    /\ watching \in [Conns -> BOOLEAN]
    /\ toNotify \in [Conns -> SUBSET Users]
    /\ idle \in SUBSET Conns
    /\ quiet \in SUBSET Conns
    /\ neglected \in SUBSET Users
    /\ left \in [Conns -> SUBSET {"presence", "watcher"}]
    /\ faults \in 0..MaxFaults
    /\ disturbed \in SUBSET Users

Init ==
    /\ presence = [u \in Users |-> None]
    /\ ttl = [u \in Users |-> 0]
    /\ watchers = {}
    /\ connections = {}
    /\ userConnections = [u \in Users |-> None]
    /\ pc = [c \in Conns |-> "new"]
    /\ own = [c \in Conns |-> Fresh]
    /\ watching = [c \in Conns |-> FALSE]
    /\ toNotify = [c \in Conns |-> {}]
    /\ idle = {} /\ quiet = {} /\ neglected = {}
    /\ left = [c \in Conns |-> {}]
    /\ faults = 0
    /\ disturbed = {}

-----------------------------------------------------------------------------
(* Connecting.                                                             *)

\* accept(), and both registries before the handshake.
Accept(c) ==
    /\ At(c, "new")
    /\ connections' = connections \cup {c}
    /\ userConnections' = [userConnections EXCEPT ![UserOf[c]] = c]
    /\ Goto(c, "handshake")
    /\ disturbed' = IF \E d \in Conns : Open(d) /\ UserOf[d] = UserOf[c]
                      THEN disturbed \cup {UserOf[c]} ELSE disturbed
    /\ UNCHANGED <<storeVars, connVars, idle, historyVars, faults>>

\* The handshake is answered, and the initial presence stored next.
HandshakeOk(c) ==
    /\ At(c, "handshake")
    /\ Goto(c, "setPresence")
    /\ UNCHANGED <<storeVars, registryVars, connVars, idle, historyVars,
                   faults, disturbed>>

\* A bad handshake or a client gone: the finally block, which removes the
\* presence although none was stored.
HandshakeFails(c) ==
    /\ At(c, "handshake")
    /\ Goto(c, "finPresence")
    /\ UNCHANGED <<storeVars, registryVars, connVars, idle, historyVars,
                   faults, disturbed>>

-----------------------------------------------------------------------------
(* The message loop and handle_message, one message at a time.             *)

\* Connection c has heard from its client: its wait starts anew, and its next
\* await is l.  Messages that write no presence leave the TTL alone.
Hears(c, l) ==
    /\ At(c, "loop")
    /\ Goto(c, l)
    /\ idle' = idle \ {c}
    /\ UNCHANGED <<storeVars, registryVars, toNotify, neglected, left, faults, disturbed>>

UpdateActivity(c, a) ==
    /\ Hears(c, "setPresence")
    /\ own' = [own EXCEPT ![c].activity = a]
    /\ quiet' = quiet \ {c}
    /\ UNCHANGED watching

\* Faulty variant: a value that is no UserStatus is stored as it comes.
UpdateStatusRaw(c, s) ==
    /\ Hears(c, "setPresence")
    /\ own' = [own EXCEPT ![c].status = s]
    /\ quiet' = quiet \ {c}
    /\ UNCHANGED watching

\* No argument, or none that is a UserStatus (None): back to ONLINE.
UpdateStatus(c, s) ==
    /\ Hears(c, "setPresence")
    /\ own' = [own EXCEPT ![c].status = IF s = None THEN Online ELSE s]
    /\ quiet' = quiet \ {c}
    /\ UNCHANGED watching

BeginWatchingUserPresence(c) ==
    Hears(c, "addWatcher") /\ quiet' = quiet \cup {c} /\ UNCHANGED <<own, watching>>

EndWatchingUserPresence(c) ==
    Hears(c, "remWatcher") /\ quiet' = quiet \cup {c} /\ UNCHANGED <<own, watching>>

\* GetChangesSince, an unknown target, a frame of the other protocol or one
\* that does not parse: no await but a send to the client itself.
Chatter(c) ==
    Hears(c, "loop") /\ quiet' = quiet \cup {c} /\ UNCHANGED <<own, watching>>

\* A client's ping, or the receive timeout: on_ping, then a ping is sent.
Ping(c) ==
    Hears(c, "expire") /\ quiet' = quiet \ {c} /\ UNCHANGED <<own, watching>>

\* Faulty variant: the timeout sends its ping and leaves the TTL alone.
TimesOutSilently(c) ==
    /\ c \in idle
    /\ Hears(c, "loop") /\ quiet' = quiet \ {c} /\ UNCHANGED <<own, watching>>

TimesOut(c) ==
    /\ c \in idle
    /\ Hears(c, "expire") /\ quiet' = quiet \ {c} /\ UNCHANGED <<own, watching>>

\* A disconnect, an argument that does not decode or a send that fails.
LeaveLoop(c) ==
    Hears(c, "finPresence") /\ UNCHANGED <<own, watching, quiet>>

ClientCall(c) ==
    \/ \E a \in Activities \cup {NoActivity} : UpdateActivity(c, a)
    \/ \E s \in Statuses \cup {None} : UpdateStatus(c, s)
    \/ BeginWatchingUserPresence(c) \/ EndWatchingUserPresence(c)
    \/ Chatter(c) \/ Ping(c) \/ LeaveLoop(c)

-----------------------------------------------------------------------------
(* The Redis commands of the handlers and of the finally block.            *)

Keeps(c) == UNCHANGED <<registryVars, own, idle, quiet, left, faults, disturbed>>

\* set_presence: SETEX, value and TTL together.
SetsPresence(c) ==
    /\ At(c, "setPresence")
    /\ presence' = [presence EXCEPT ![UserOf[c]] = own[c]]
    /\ ttl' = [ttl EXCEPT ![UserOf[c]] = Ttl]
    /\ neglected' = neglected \ {UserOf[c]}
    /\ Goto(c, "broadcast")
    /\ Keeps(c) /\ UNCHANGED <<watchers, watching, toNotify>>

\* Faulty variant: the renewal stores the presence again.
ExpiresRevives(c) ==
    /\ At(c, "expire")
    /\ presence' = [presence EXCEPT ![UserOf[c]] = own[c]]
    /\ ttl' = [ttl EXCEPT ![UserOf[c]] = Ttl]
    /\ Goto(c, "loop")
    /\ Keeps(c) /\ UNCHANGED <<watchers, watching, toNotify, neglected>>

\* refresh_presence_ttl: EXPIRE does nothing to a key that has lapsed, and
\* nobody looks at what it returns.
Expires(c) ==
    /\ At(c, "expire")
    /\ ttl' = IF presence[UserOf[c]] = None THEN ttl
              ELSE [ttl EXCEPT ![UserOf[c]] = Ttl]
    /\ Goto(c, "loop")
    /\ Keeps(c) /\ UNCHANGED <<presence, watchers, watching, toNotify, neglected>>

\* _broadcast_presence_update: SMEMBERS of the watchers, ...
ReadsWatchers(c, here, there) ==
    /\ At(c, here)
    /\ toNotify' = [toNotify EXCEPT ![c] = watchers]
    /\ Goto(c, there)
    /\ Keeps(c) /\ UNCHANGED <<storeVars, watching, neglected>>

\* ... and a send to the connection each is registered under at that moment;
\* a failing send is caught.
Notifies(c, here) ==
    /\ At(c, here)
    /\ \E w \in toNotify[c] : toNotify' = [toNotify EXCEPT ![c] = @ \ {w}]
    /\ Keeps(c) /\ UNCHANGED <<storeVars, pc, watching, neglected>>

Notified(c) ==
    /\ At(c, "notify")
    /\ toNotify[c] = {}
    /\ Goto(c, "loop")
    /\ Keeps(c) /\ UNCHANGED <<storeVars, watching, toNotify, neglected>>

AddsWatcher(c) ==
    /\ At(c, "addWatcher")
    /\ watchers' = watchers \cup {UserOf[c]}
    /\ watching' = [watching EXCEPT ![c] = TRUE]
    /\ Goto(c, "getOnline")
    /\ Keeps(c) /\ UNCHANGED <<presence, ttl, toNotify, neglected>>

\* get_all_online_users (SCAN, MGET), each sent to the client itself.
GetsOnline(c) ==
    /\ At(c, "getOnline")
    /\ Goto(c, "loop")
    /\ Keeps(c) /\ UNCHANGED <<storeVars, watching, toNotify, neglected>>

\* Faulty variant: the connection's flag stays set.
RemsWatcherOnly(c) ==
    /\ At(c, "remWatcher")
    /\ watchers' = watchers \ {UserOf[c]}
    /\ Goto(c, "loop")
    /\ Keeps(c) /\ UNCHANGED <<presence, ttl, watching, toNotify, neglected>>

RemsWatcher(c) ==
    /\ At(c, "remWatcher")
    /\ watchers' = watchers \ {UserOf[c]}
    /\ watching' = [watching EXCEPT ![c] = FALSE]
    /\ Goto(c, "loop")
    /\ Keeps(c) /\ UNCHANGED <<presence, ttl, toNotify, neglected>>

FinPresence(c) ==
    /\ At(c, "finPresence")
    /\ presence' = [presence EXCEPT ![UserOf[c]] = None]
    /\ ttl' = [ttl EXCEPT ![UserOf[c]] = 0]
    /\ Goto(c, "finWatcher")
    /\ Keeps(c) /\ UNCHANGED <<watchers, watching, toNotify, neglected>>

\* Faulty variant: the finally block keeps the user among the watchers.
FinWatcherSkipped(c) ==
    /\ At(c, "finWatcher")
    /\ Goto(c, "finBroadcast")
    /\ Keeps(c) /\ UNCHANGED <<storeVars, watching, toNotify, neglected>>

FinWatcher(c) ==
    /\ At(c, "finWatcher")
    /\ watchers' = watchers \ {UserOf[c]}
    /\ Goto(c, "finBroadcast")
    /\ Keeps(c) /\ UNCHANGED <<presence, ttl, watching, toNotify, neglected>>

\* What the connections in D held goes with them.
Dropped(D) ==
    /\ own' = [c \in Conns |-> IF c \in D THEN Fresh ELSE own[c]]
    /\ watching' = [c \in Conns |-> IF c \in D THEN FALSE ELSE watching[c]]
    /\ toNotify' = [c \in Conns |-> IF c \in D THEN {} ELSE toNotify[c]]
    /\ idle' = idle \ D
    /\ quiet' = quiet \ D
    /\ UNCHANGED <<storeVars, neglected>>

\* Both registries lose their entry, the user's whichever it designates.
FinPops(c) ==
    /\ At(c, "finNotify")
    /\ toNotify[c] = {}
    /\ userConnections' = [userConnections EXCEPT ![UserOf[c]] = None]
    /\ connections' = connections \ {c}
    /\ Goto(c, "closed")
    /\ Dropped({c})
    /\ UNCHANGED <<left, faults, disturbed>>

ServerStep(c) ==
    \/ SetsPresence(c) \/ Expires(c)
    \/ AddsWatcher(c) \/ GetsOnline(c) \/ RemsWatcher(c)
    \/ ReadsWatchers(c, "broadcast", "notify")
    \/ Notifies(c, "notify") \/ Notified(c)
    \/ FinPresence(c) \/ FinWatcher(c)
    \/ ReadsWatchers(c, "finBroadcast", "finNotify")
    \/ Notifies(c, "finNotify") \/ FinPops(c)

-----------------------------------------------------------------------------
(* Time and failures.                                                      *)

\* Faulty variant: the presence is stored without a time to live.
TickForever ==
    /\ idle = {}
    /\ \A c \in Conns : pc[c] \in Absent \cup {"handshake", "loop"}
    /\ idle' = {c \in Conns : At(c, "loop")}
    /\ UNCHANGED <<storeVars, registryVars, pc, connVars, historyVars, faults, disturbed>>

\* A unit ends.  A connection in the loop has then waited at least part of it.
Tick ==
    /\ idle = {}
    /\ \A c \in Conns : pc[c] \in Absent \cup {"handshake", "loop"}
    /\ idle' = {c \in Conns : At(c, "loop")}
    /\ ttl' = [u \in Users |-> IF ttl[u] = 0 THEN 0 ELSE ttl[u] - 1]
    /\ presence' = [u \in Users |-> IF ttl[u] <= 1 THEN None ELSE presence[u]]
    /\ neglected' = neglected \cup {UserOf[c] : c \in {d \in quiet : ttl[UserOf[d]] = 1}}
    /\ UNCHANGED <<watchers, registryVars, pc, connVars, quiet, left, faults, disturbed>>

\* What the finally block of c has still to remove.
Undone(c) ==
    {x \in {"presence", "watcher"} :
        /\ Open(c)
        /\ pc[c] \in Cleanup => pc[c] = "finPresence" \/ (x = "watcher" /\ pc[c] = "finWatcher")}

\* A Redis command raises: in the handlers that leads to the finally block,
\* in the finally block it ends the coroutine with the pops not done.
RedisError(c) ==
    /\ faults < MaxFaults
    /\ pc[c] \in RedisAwaits
    /\ faults' = faults + 1
    /\ disturbed' = disturbed \cup {UserOf[c]}
    /\ IF pc[c] \in Cleanup
         THEN /\ Goto(c, "dead") /\ Dropped({c})
              /\ left' = [left EXCEPT ![c] = @ \cup Undone(c)]
         ELSE Goto(c, "finPresence") /\ Dropped({}) /\ UNCHANGED left
    /\ UNCHANGED registryVars

\* The server process dies; Redis keeps what it has.
Crash ==
    /\ faults < MaxFaults
    /\ \E c \in Conns : Open(c)
    /\ faults' = faults + 1
    /\ disturbed' = disturbed \cup {UserOf[c] : c \in {d \in Conns : Open(d)}}
    /\ pc' = [c \in Conns |-> IF Open(c) THEN "dead" ELSE pc[c]]
    /\ left' = [c \in Conns |-> left[c] \cup Undone(c)]
    /\ connections' = {}
    /\ userConnections' = [u \in Users |-> None]
    /\ Dropped(Conns)

-----------------------------------------------------------------------------

Next ==
    \/ \E c \in Conns :
          \/ Accept(c) \/ HandshakeOk(c) \/ HandshakeFails(c)
          \/ ClientCall(c) \/ TimesOut(c) \/ ServerStep(c)
          \/ RedisError(c)
    \/ Tick
    \/ Crash

Spec == Init /\ [][Next]_vars

\* The event loop resumes a coroutine whose await has completed, its timer
\* fires, and time passes.
FairSpec ==
    /\ Spec
    /\ WF_vars(Tick)
    /\ \A c \in Conns : WF_vars(ServerStep(c)) /\ WF_vars(TimesOut(c))
-----------------------------------------------------------------------------
(* Properties.                                                             *)

\* A user whose one connection waits in the loop has the presence that
\* connection last set: the 30 s pings keep the 5 minutes from lapsing, and
\* only messages that are neither pings nor updates, arriving faster than the
\* timeout, let them lapse; then the presence is gone, and no ping brings it
\* back, until the next update.
PresenceKept ==
    \A c \in Conns :
        At(c, "loop") /\ UserOf[c] \notin disturbed =>
            presence[UserOf[c]] = IF UserOf[c] \in neglected THEN None ELSE own[c]

\* For such a user the watcher set and the connection's flag agree between
\* two messages.
WatchingAgrees ==
    \A c \in Conns :
        At(c, "loop") /\ UserOf[c] \notin disturbed =>
            (UserOf[c] \in watchers <=> watching[c])

\* A presence, and an entry in the set of watchers that never lapses, has an
\* open connection of its user behind it whose finally block has still to
\* remove it, or one that ended with that removal not done: by an error of the
\* removal itself, or of the one before it, or by a crash.  So every disconnect
\* the server sees through removes them, overlapping connections included, and
\* the presence does not, as metadata.py:152-154 says of it, survive a brief
\* disconnect: it survives a failure.
PresenceBacked ==
    /\ \A u \in Users : presence[u] # None =>
          \E c \in Conns : UserOf[c] = u /\ "presence" \in Undone(c) \cup left[c]
    /\ \A u \in watchers :
          \E c \in Conns : UserOf[c] = u /\ "watcher" \in Undone(c) \cup left[c]

\* A presence nobody is left to refresh ends, also after a crash.
GhostsLapse ==
    \A u \in Users :
        (presence[u] # None /\ \A c \in Conns : UserOf[c] = u => ~Open(c))
            ~> (presence[u] = None \/ \E c \in Conns : UserOf[c] = u /\ Open(c))

\* The hub implements the lease its store promises, to the users it serves:
\* above all, no ping brings back a presence that has lapsed.
Served == {UserOf[c] : c \in {d \in Conns : Open(d)}}

Asked == {<<UserOf[c], own[c]>> : c \in {d \in Conns : At(d, "setPresence")}}

Lease == INSTANCE PresenceLease WITH
    Owners <- Users,
    Values <- Presences,
    served <- Served,
    asked <- Asked,
    record <- presence,
    lease <- ttl

PresenceIsALease == Lease!LeaseSpec
=============================================================================
