-------------------------------- MODULE Wire --------------------------------
(***************************************************************************)
(* What is read from the messages of the hub protocol: the frames of       *)
(* Frames, and the objects invocations carry in them, which WireModels     *)
(* writes and reads.                                                       *)
(***************************************************************************)
EXTENDS Frames, WireModels

-----------------------------------------------------------------------------
(* The objects a sender may have, class by class.                          *)

Names == {"v"} \X STRING
Scalars == {Zero} \cup Names
Lists(s) == Len(s) \in Nat /\ DOMAIN s = 1 .. Len(s)

\* What a field may hold; Inner says what its objects are.
Fits(Inner(_, _), f, x) ==
    \/ x = Nil /\ f.default = Nil /\ f.kind # "model"
    \/ f.kind \in {"plain", "enum", "time", "span"} /\ x \in Scalars
    \/ f.kind = "stats" /\ x \in {"keys"} \X SUBSET STRING
    \/ /\ f.kind = "list" /\ x = <<"list", x[2]>> /\ Lists(x[2])
       /\ \A i \in DOMAIN x[2] : Inner(f.of, x[2][i])
    \/ f.kind \in {"model", "modelOpt"} /\ Inner(f.of, x)

\* An activity has the fields of its type, if the server knows that.
FitsActivity(x) ==
    /\ x \in [DOMAIN NoActivity -> {Nil} \cup Scalars]
    /\ x.activity_type \in {Nil} \cup Names
    /\ \A n \in DOMAIN x \ {"activity_type"} :
          /\ x[n] \in Scalars
          /\ x.activity_type \in {"v"} \X ActivityTypes /\ n \notin ToSet(Written(x.activity_type[2])) =>
                x[n] = Zero

Object(Inner(_, _), class, v) ==
    /\ v = <<"object", class, v[3]>>
    /\ class = "UserActivity" => FitsActivity(v[3])
    /\ class # "UserActivity" =>
          /\ DOMAIN v[3] = FieldNames(class)
          /\ \A i \in DOMAIN Classes[class] :
                Fits(Inner, Classes[class][i], v[3][Classes[class][i].name])

ObjectFlat(class, v) == Object(LAMBDA of, x : FALSE, class, v)
ObjectInner(class, v) == Object(ObjectFlat, class, v)
ObjectOf(class, v) == Object(ObjectInner, class, v)

ASSUME ObjectsAssumption ==
    \A stream \in Streams : \A i \in DOMAIN stream :
        stream[i].type = "invocation" =>
            /\ \E class \in DOMAIN Classes : ObjectOf(class, stream[i].object)
            /\ stream[i].positions \in Nat

-----------------------------------------------------------------------------
(* What an invocation carries.                                             *)

\* The array an invocation carries, as long as its sender's version makes it.
Argument(message) ==
    LET array == SerializeArgument(message.object) IN
    IF array = Nil THEN Nil
    ELSE IF message.positions < Len(array[2]) THEN <<"list", SubSeq(array[2], 1, message.positions)>>
    ELSE array

\* The object a hub reads from an invocation.
ReadObject(message) == FromMsgpack(message.object[2], Argument(message))

-----------------------------------------------------------------------------
(* Properties.                                                             *)

\* What a field can keep on the way: not a time, nor the statistics the
\* server has no name for, nor an enum member it does not know, which raises.
Canon(Inner(_), f, x) ==
    CASE f.kind = "enum" /\ x = Alien -> Raises
      [] f.kind = "stats" -> <<"keys", x[2] \ {"alien"}>>
      [] f.kind = "time" -> Nil
      [] f.kind = "list" /\ x # Nil ->
           LET items == [i \in DOMAIN x[2] |-> Inner(x[2][i])]
           IN  IF Raises \in ToSet(items) THEN Raises ELSE <<"list", items>>
      [] f.kind \in {"model", "modelOpt"} /\ x # Nil -> Inner(x)
      [] OTHER -> x

Place(class, n) == CHOOSE i \in DOMAIN Classes[class] : Classes[class][i].name = n

\* What an object keeps in so many positions; an activity of a type the server
\* does not know is none.
Reduce(Inner(_), v, positions) ==
    IF v[2] = "UserActivity" THEN
        IF v[3].activity_type \in {"v"} \X ActivityTypes /\ positions >= 2 THEN v ELSE Nil
    ELSE Build(v[2], [n \in FieldNames(v[2]) |->
             LET f == Classes[v[2]][Place(v[2], n)] IN
             IF Place(v[2], n) <= positions THEN Canon(Inner, f, v[3][n]) ELSE Missing(f)])

EssenceFlat(v) == Reduce(LAMBDA x : x, v, Len(Classes[v[2]]))
EssenceInner(v) == Reduce(EssenceFlat, v, Len(Classes[v[2]]))
Essence(v, positions) == Reduce(EssenceInner, v, positions)

\* An object read from its array is the one that was written, each field in
\* its own place, and one from a peer whose version has fewer positions is
\* that object with the defaults in the others (to_msgpack and from_msgpack
\* of every model).
ObjectsSurvive ==
    stage = "done" =>
        \A k \in DOMAIN inbox :
            LET message == outbox[inbox[k]] IN
            message.type = "invocation" =>
                ReadObject(message) = Essence(message.object, message.positions)

\* The same object as a dictionary of its fields.
Dict(Inner(_), v) ==
    <<"dict", [n \in DOMAIN v[3] |->
        CASE v[3][n][1] = "object" -> Inner(v[3][n])
          [] v[3][n][1] = "list" -> <<"list", [i \in DOMAIN v[3][n][2] |-> Inner(v[3][n][2][i])]>>
          [] OTHER -> v[3][n]]>>

DictFlat(v) == Dict(LAMBDA x : x, v)
DictInner(v) == Dict(DictFlat, v)
AsDict(v) == Dict(DictInner, v)

\* Fields that take a zero in a dictionary for a missing value: the ruleset
\* osu!, a cursor at the edge, a download just begun, the match type PLAYLISTS.
Slips == {<<"SpectatorState", "beatmap_id">>, <<"SpectatorState", "ruleset_id">>,
          <<"LegacyReplayFrame", "mouse_x">>, <<"LegacyReplayFrame", "mouse_y">>,
          <<"BeatmapAvailability", "download_progress">>,
          <<"MultiplayerRoomUser", "match_state">>, <<"MultiplayerRoomUser", "ruleset_id">>,
          <<"MultiplayerRoomUser", "beatmap_id">>, <<"MultiplayerRoomSettings", "name">>,
          <<"MultiplayerRoomSettings", "match_type">>, <<"MultiplayerRoom", "match_state">>,
          <<"MultiplayerPlaylistItemStats", "total_score_distribution">>,
          <<"MultiplayerRoomScoreSetEvent", "new_rank">>}

\* What is read of a field x from an array and from a dictionary is the same
\* but for a field of Slips where it is zero, the statistics a dictionary
\* keeps, and a duration, which is lost in a dictionary: that may only give
\* its seconds.
AlikeField(Inner(_, _, _), class, f, x, array, dict) ==
    \/ array = dict
    \/ x = Zero /\ <<class, f.name>> \in Slips
    \/ f.kind = "stats" /\ dict = x
    \/ f.kind = "span" /\ dict = Zero
    \/ /\ f.kind = "list" /\ DOMAIN array[2] = DOMAIN x[2] /\ DOMAIN dict[2] = DOMAIN x[2]
       /\ \A k \in DOMAIN x[2] : Inner(x[2][k], array[2][k], dict[2][k])
    \/ f.kind \in {"model", "modelOpt"} /\ Inner(x, array, dict)

\* And of an object v, but for an activity of no type where there is none.
Alike(Inner(_, _, _), v, array, dict) ==
    \/ array = dict
    \/ v[2] = "UserActivity" /\ array = Nil /\ dict[3].activity_type = Nil
    \/ /\ v[2] # "UserActivity" /\ Raises \notin {array, dict}
       /\ \A i \in DOMAIN Classes[v[2]] :
             LET f == Classes[v[2]][i]
             IN  AlikeField(Inner, v[2], f, v[3][f.name], array[3][f.name], dict[3][f.name])

Same(v, array, dict) == array = dict
AlikeFlat(v, array, dict) == Alike(Same, v, array, dict)
AlikeInner(v, array, dict) == Alike(AlikeFlat, v, array, dict)

\* An object reads the same from a dictionary as from an array, except as
\* Alike says at any depth (`a or b or default` in from_msgpack).
FormsAgree ==
    stage = "done" =>
        \A k \in DOMAIN inbox :
            LET v == outbox[inbox[k]].object
                array == FromMsgpack(v[2], ToMsgpack(v))
                dict == FromMsgpack(v[2], AsDict(v))
            IN  outbox[inbox[k]].type = "invocation" => Alike(AlikeInner, v, array, dict)

=============================================================================
