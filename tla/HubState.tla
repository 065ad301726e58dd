------------------------------ MODULE HubState ------------------------------
(***************************************************************************)
(* The spectator hub's part of the Redis store behind HubStateService      *)
(* (app/services/hub_state.py): the hub:playing:{user} strings and the     *)
(* two halves of the watch index, hub:watching:{watcher} and               *)
(* hub:watchers:{target}.  Every action below is ONE Redis command, the    *)
(* unit of atomicity the service has: each of its methods is a sequence of *)
(* awaited commands, and the hub that calls it interleaves between them.   *)
(*                                                                         *)
(* A key's value is the set of user ids in it; Redis has no empty sets, so *)
(* {} is an absent key.  The time to live is abstracted to whether the key *)
(* has one: `eternal` holds the keys that exist with none, and a key that  *)
(* has one may lapse at any moment.                                        *)
(***************************************************************************)
EXTENDS Naturals, FiniteSets

CONSTANT Users              \* user ids

VARIABLES
    playing,                \* users whose hub:playing: key exists
    index,                  \* [IndexKeys -> SUBSET Users]
    eternal                 \* index keys that exist and have no TTL

redisVars == <<playing, index, eternal>>

WatchingKey(u) == <<"watching", u>>
WatchersKey(u) == <<"watchers", u>>
IndexKeys == {"watching", "watchers"} \X Users

RedisTypeOK ==
    /\ playing \in SUBSET Users
    /\ index \in [IndexKeys -> SUBSET Users]
    /\ eternal \in SUBSET IndexKeys

RedisInit ==
    /\ playing = {}
    /\ index = [k \in IndexKeys |-> {}]
    /\ eternal = {}

-----------------------------------------------------------------------------
(* SETEX and DEL on hub:playing:{u}; SETEX sets value and TTL together.    *)

SetPlaying(u) ==
    /\ playing' = playing \cup {u}
    /\ UNCHANGED <<index, eternal>>

RemovePlaying(u) ==
    /\ playing' = playing \ {u}
    /\ UNCHANGED <<index, eternal>>

(* SADD creates an absent key with no TTL and keeps the TTL of one that    *)
(* exists; EXPIRE gives an existing key a TTL and ignores an absent one.   *)

SAdd(k, u) ==
    /\ index' = [index EXCEPT ![k] = @ \cup {u}]
    /\ eternal' = IF index[k] = {} THEN eternal \cup {k} ELSE eternal
    /\ UNCHANGED playing

Expire(k) ==
    /\ eternal' = eternal \ {k}
    /\ UNCHANGED <<playing, index>>

(* SREM of the last member removes the key, and so does DEL.               *)

SRem(k, u) ==
    /\ index' = [index EXCEPT ![k] = @ \ {u}]
    /\ eternal' = IF index[k] \subseteq {u} THEN eternal \ {k} ELSE eternal
    /\ UNCHANGED playing

Del(k) ==
    /\ index' = [index EXCEPT ![k] = {}]
    /\ eternal' = eternal \ {k}
    /\ UNCHANGED playing

(* The TTL of a key runs out.                                              *)

PlayingLapses(u) ==
    /\ u \in playing
    /\ playing' = playing \ {u}
    /\ UNCHANGED <<index, eternal>>

IndexLapses(k) ==
    /\ index[k] # {}
    /\ k \notin eternal
    /\ index' = [index EXCEPT ![k] = {}]
    /\ UNCHANGED <<playing, eternal>>
=============================================================================
