----------------------------- MODULE WireModels -----------------------------
(***************************************************************************)
(* The models of the hub protocol (app/protocol/models.py): how an object  *)
(* is written as an array of positions, and read back from such an array   *)
(* or from a dictionary.                                                   *)
(*                                                                         *)
(* Values carry a tag: <<"nil">>, <<"zero">> (0, "", False, an empty       *)
(* dictionary, no time), <<"v", name>> for any other scalar,               *)
(* <<"ticks", x>> for the number of ticks in the duration x, <<"seconds",  *)
(* n>> for the duration of n seconds, <<"keys", set>> for statistics,      *)
(* <<"list", items>>, <<"dict", fields>> and <<"object", class, fields>>.  *)
(* The scalar a field is filled with is named for the field, so a value    *)
(* read into another field shows.                                          *)
(***************************************************************************)
EXTENDS Naturals, Sequences, SequencesExt

Nil == <<"nil">>
Zero == <<"zero">>
Value(name) == <<"v", name>>
Alien == Value("alien")             \* a member or a flag the server does not know
Ticks(x) == <<"ticks", x>>
Seconds(n) == <<"seconds", n>>
Raises == <<"raises">>              \* ValueError
Falsy(v) == v \in {Nil, Zero, <<"keys", {}>>, <<"list", <<>>>>}

-----------------------------------------------------------------------------
(* Fields.  A class is the sequence of its fields in the order to_msgpack  *)
(* writes them; `at` is the position from_msgpack reads the field at, from *)
(* 0, `default` what it takes when the position or the key is missing.  In *)
(* a dictionary `data.get(a) or data.get(b) or default` takes any falsy    *)
(* value for a missing one, and a field that `keeps` does not.             *)

Field(kind, name, of, at, default, keeps) ==
    [kind |-> kind, name |-> name, of |-> of, at |-> at, default |-> default, keeps |-> keeps]

Num(name, at) == Field("plain", name, "", at, Zero, FALSE)
Opt(name, at) == Field("plain", name, "", at, Nil, FALSE)
Own(name, at) == Field("plain", name, "", at, Value("default"), FALSE)
Enum(name, at) == Field("enum", name, "", at, Zero, TRUE)
EnumOr(name, at, default) == Field("enum", name, "", at, default, FALSE)
EnumOpt(name, at) == Field("enum", name, "", at, Nil, TRUE)
Stats(name, at) == Field("stats", name, "", at, <<"keys", {}>>, FALSE)
List(name, of, at) == Field("list", name, of, at, <<"list", <<>>>>, FALSE)
ListOpt(name, of, at) == Field("list", name, of, at, Nil, TRUE)
Model(name, of, at) == Field("model", name, of, at, Nil, FALSE)
ModelOpt(name, of, at) == Field("modelOpt", name, of, at, Nil, FALSE)
Time(name, at) == Field("time", name, "", at, Nil, FALSE)
Span(name, at) == Field("span", name, "", at, Zero, FALSE)

APIMod == <<Num("acronym", 0), Num("settings", 1)>>

SpectatorState ==
    <<Opt("beatmap_id", 0), Opt("ruleset_id", 1), List("mods", "APIMod", 2),
      Enum("state", 3), Stats("maximum_statistics", 4)>>

ScoreProcessorStatistics ==
    <<Num("base_score", 0), Num("maximum_base_score", 1), Num("accuracy_judgement_count", 2),
      Num("combo_portion", 3), Num("bonus_portion", 4)>>

\* Faulty variant: two positions are read in each other's place.
FrameHeaderSwapped ==
    <<Num("total_score", 0), Num("accuracy", 1), Num("combo", 3), Num("max_combo", 2),
      Stats("statistics", 4), Model("score_processor_statistics", "ScoreProcessorStatistics", 5),
      Time("received_time", 6), ListOpt("mods", "APIMod", 7)>>

FrameHeader ==
    <<Num("total_score", 0), Num("accuracy", 1), Num("combo", 2), Num("max_combo", 3),
      Stats("statistics", 4), Model("score_processor_statistics", "ScoreProcessorStatistics", 5),
      Time("received_time", 6), ListOpt("mods", "APIMod", 7)>>

\* The buttons are flags, which keep the bits they have no name for.
LegacyReplayFrame ==
    <<Num("time", 0), Opt("mouse_x", 1), Opt("mouse_y", 2), Num("button_state", 3)>>

FrameDataBundle == <<Model("header", "FrameHeader", 0), List("frames", "LegacyReplayFrame", 1)>>

SpectatorUser == <<Num("online_id", 0), Num("username", 1)>>

BeatmapAvailability == <<Enum("state", 0), Opt("download_progress", 1)>>

MultiplayerRoomUser ==
    <<Num("user_id", 0), Enum("state", 1), Model("beatmap_availability", "BeatmapAvailability", 2),
      List("mods", "APIMod", 3), Opt("match_state", 4), Opt("ruleset_id", 5),
      Opt("beatmap_id", 6), Num("voted_to_skip_intro", 7)>>

MultiplayerRoomSettings ==
    <<Own("name", 0), Num("playlist_item_id", 1), Num("password", 2),
      EnumOr("match_type", 3, Value("default")), Enum("queue_mode", 4),
      Span("auto_start_duration", 5), Num("auto_skip", 6)>>

MultiplayerPlaylistItem ==
    <<Num("id", 0), Num("owner_id", 1), Num("beatmap_id", 2), Num("beatmap_checksum", 3),
      Num("ruleset_id", 4), List("required_mods", "APIMod", 5), List("allowed_mods", "APIMod", 6),
      Num("expired", 7), Num("playlist_order", 8), Time("played_at", 9),
      Num("star_rating", 10), Num("freestyle", 11)>>

MultiplayerRoom ==
    <<Num("room_id", 0), Enum("state", 1), Model("settings", "MultiplayerRoomSettings", 2),
      List("users", "MultiplayerRoomUser", 3), ModelOpt("host", "MultiplayerRoomUser", 4),
      Opt("match_state", 5), List("playlist", "MultiplayerPlaylistItem", 6),
      Num("active_countdowns", 7), Num("channel_id", 8)>>

BeatmapUpdates == <<Num("beatmap_set_ids", 0), Num("last_processed_queue_id", 1)>>

\* Faulty variant: OFFLINE, which is 0, is read as no status.
UserPresenceOr ==
    <<ModelOpt("activity", "UserActivity", 0), EnumOr("status", 1, Nil)>>

UserPresence == <<ModelOpt("activity", "UserActivity", 0), EnumOpt("status", 1)>>

DailyChallengeInfo == <<Num("room_id", 0)>>

MultiplayerPlaylistItemStats ==
    <<Num("playlist_item_id", 0), Own("total_score_distribution", 1),
      Num("cumulative_score", 2), Num("last_processed_score_id", 3)>>

MultiplayerRoomScoreSetEvent ==
    <<Num("room_id", 0), Num("playlist_item_id", 1), Num("score_id", 2), Num("user_id", 3),
      Num("total_score", 4), Opt("new_rank", 5)>>

\* The fields of UserActivity, a union: which of them are written, and in
\* what order, depends on its type.
UserActivity ==
    <<Num("beatmap_id", 0), Num("beatmap_display_title", 1), Num("ruleset_id", 2),
      Num("ruleset_playing_verb", 3), Num("score_id", 4), Num("player_name", 5),
      Num("room_id", 6), Num("room_name", 7)>>

InGame == {"IN_SOLO_GAME", "IN_MULTIPLAYER_GAME", "IN_PLAYLIST_GAME",
           "SPECTATING_MULTIPLAYER_GAME", "PLAYING_DAILY_CHALLENGE"}
Editing == {"EDITING_BEATMAP", "MODDING_BEATMAP", "TESTING_BEATMAP"}
Watching == {"WATCHING_REPLAY", "SPECTATING_USER"}
Bare == {"CHOOSING_BEATMAP", "SEARCHING_FOR_LOBBY", "IN_DAILY_CHALLENGE_LOBBY"}
ActivityTypes == InGame \cup Editing \cup Watching \cup Bare \cup {"IN_LOBBY"}

Written(type) ==
    CASE type \in InGame -> <<"beatmap_id", "beatmap_display_title", "ruleset_id", "ruleset_playing_verb">>
      [] type \in Editing -> <<"beatmap_id", "beatmap_display_title">>
      [] type \in Watching -> <<"score_id", "player_name", "beatmap_id", "beatmap_display_title">>
      [] type = "IN_LOBBY" -> <<"room_id", "room_name">>
      [] OTHER -> <<>>

Classes ==
    [APIMod |-> APIMod, SpectatorState |-> SpectatorState,
     ScoreProcessorStatistics |-> ScoreProcessorStatistics, FrameHeader |-> FrameHeader,
     LegacyReplayFrame |-> LegacyReplayFrame, FrameDataBundle |-> FrameDataBundle,
     SpectatorUser |-> SpectatorUser, BeatmapAvailability |-> BeatmapAvailability,
     MultiplayerRoomUser |-> MultiplayerRoomUser,
     MultiplayerRoomSettings |-> MultiplayerRoomSettings,
     MultiplayerPlaylistItem |-> MultiplayerPlaylistItem, MultiplayerRoom |-> MultiplayerRoom,
     BeatmapUpdates |-> BeatmapUpdates, UserPresence |-> UserPresence,
     UserActivity |-> UserActivity, DailyChallengeInfo |-> DailyChallengeInfo,
     MultiplayerPlaylistItemStats |-> MultiplayerPlaylistItemStats,
     MultiplayerRoomScoreSetEvent |-> MultiplayerRoomScoreSetEvent]

FieldNames(class) == {f.name : f \in ToSet(Classes[class])}
FieldOf(class, name) == CHOOSE f \in ToSet(Classes[class]) : f.name = name

-----------------------------------------------------------------------------
(* Classes nest three deep: a room has users, who have mods.  So writing,  *)
(* reading and the defaults are there for the objects that hold no others, *)
(* for those that hold these, and for all.                                 *)

\* The to_msgpack of every class: one position for each field, Inner for the
\* objects a field holds.  Statistics of names the server does not know are
\* dropped, a header is stamped with the time of its writing, and a duration
\* is a number of ticks.
Encode(Inner(_), f, x) ==
    CASE f.kind = "stats" -> <<"keys", x[2] \ {"alien"}>>
      [] f.kind = "time" /\ x = Nil /\ f.name = "received_time" -> Value("now")
      [] f.kind = "span" /\ x # Zero -> Ticks(x)
      [] f.kind = "list" /\ x # Nil -> <<"list", [i \in DOMAIN x[2] |-> Inner(x[2][i])]>>
      [] f.kind \in {"model", "modelOpt"} /\ x # Nil -> Inner(x)
      [] OTHER -> x

\* UserActivity.to_msgpack: the type, and the fields that go with it.
WriteActivity(x) ==
    IF x.activity_type = Nil THEN Nil
    ELSE LET names == Written(x.activity_type[2]) IN
         <<"list", <<x.activity_type, <<"list", [i \in DOMAIN names |-> x[names[i]]]>> >> >>

Write(Inner(_), v) ==
    IF v[2] = "UserActivity" THEN WriteActivity(v[3])
    ELSE LET fs == Classes[v[2]] IN
         <<"list", [i \in DOMAIN fs |-> Encode(Inner, fs[i], v[3][fs[i].name])]>>

WriteFlat(v) == Write(LAMBDA x : x, v)
WriteInner(v) == Write(WriteFlat, v)
ToMsgpack(v) == Write(WriteInner, v)

\* serialize_argument: objects become arrays, in a list or a dictionary too.
Serialized(v) == IF v[1] = "object" THEN ToMsgpack(v) ELSE v
SerializeArgument(v) ==
    CASE v[1] = "list" -> <<"list", [i \in DOMAIN v[2] |-> Serialized(v[2][i])]>>
      [] v[1] = "dict" -> <<"dict", [n \in DOMAIN v[2] |-> Serialized(v[2][n])]>>
      [] OTHER -> Serialized(v)

-----------------------------------------------------------------------------
(* Reading.                                                                *)

\* The object of a class, unless reading one of its fields raised.
Build(class, fields) ==
    IF \E n \in DOMAIN fields : fields[n] = Raises THEN Raises
    ELSE <<"object", class, fields>>

\* What a field takes when it is missing: the dataclass's own default.
Default(Inner(_), f) ==
    IF f.kind # "model" THEN f.default
    ELSE <<"object", f.of, [n \in FieldNames(f.of) |-> Inner(FieldOf(f.of, n))]>>

MissingFlat(f) == Default(LAMBDA g : g.default, f)
Missing(f) == Default(MissingFlat, f)

NoActivity == [n \in FieldNames("UserActivity") \cup {"activity_type"} |->
                 IF n = "activity_type" THEN Nil ELSE Zero]

\* UserActivity.from_msgpack: a type the server does not know is no activity,
\* or, in a dictionary, an activity of no type.
ReadActivity(d) ==
    IF d = Nil THEN Nil
    ELSE IF d[1] = "list" THEN
        IF Len(d[2]) < 2 THEN Nil
        ELSE LET type == d[2][1][2]
                 given == d[2][2][2]
             IN  IF type \notin ActivityTypes THEN Nil
                 ELSE <<"object", "UserActivity",
                        [n \in DOMAIN NoActivity |->
                           IF n = "activity_type" THEN Value(type)
                           ELSE IF \E i \in DOMAIN given \cap DOMAIN Written(type) : Written(type)[i] = n
                           THEN given[CHOOSE i \in DOMAIN given : Written(type)[i] = n]
                           ELSE Zero]>>
    ELSE <<"object", "UserActivity",
           [n \in DOMAIN NoActivity |->
              IF n \notin DOMAIN d[2] THEN NoActivity[n]
              ELSE IF n = "activity_type" /\ d[2][n] \notin {Value(t) : t \in ActivityTypes} THEN Nil
              ELSE IF Falsy(d[2][n]) THEN NoActivity[n] ELSE d[2][n]]>>

\* How a class reads a field's value v from an array or a dictionary.  An enum
\* raises on a number it does not have; a hit result is looked up in arrays
\* only, where it is a number.  Times are not read back.  A duration is a
\* number of ticks in an array and of seconds in a dictionary, where anything
\* but a number is none.
Decode(Inner(_, _), form, f, v) ==
    CASE f.kind = "enum" /\ v = Alien -> Raises
      [] f.kind = "stats" /\ form = "list" /\ "alien" \in v[2] -> Raises
      [] f.kind = "list" /\ v[1] = "list" ->
           LET items == [i \in DOMAIN v[2] |-> Inner(f.of, v[2][i])]
           IN  IF Raises \in ToSet(items) THEN Raises ELSE <<"list", items>>
      [] f.kind = "list" /\ v[1] # "list" /\ Falsy(v) -> Missing(f)
      [] f.kind \in {"model", "modelOpt"} /\ Falsy(v) -> Missing(f)
      [] f.kind \in {"model", "modelOpt"} /\ ~Falsy(v) -> Inner(f.of, v)
      [] f.kind = "time" -> Nil
      [] f.kind = "span" /\ form = "list" -> IF Falsy(v) THEN Zero ELSE v[2]
      [] f.kind = "span" /\ form = "dict" -> IF v[1] = "ticks" THEN Seconds(v) ELSE Zero
      [] OTHER -> v

Given(f, d) == IF d[1] = "list" THEN f.at < Len(d[2])
               ELSE f.name \in DOMAIN d[2] /\ (f.keeps \/ ~Falsy(d[2][f.name]))
Got(f, d) == IF d[1] = "list" THEN d[2][f.at + 1] ELSE d[2][f.name]

\* The from_msgpack of every class.
Read(Inner(_, _), class, d) ==
    IF class = "UserActivity" THEN ReadActivity(d)
    ELSE Build(class, [n \in FieldNames(class) |->
           LET f == FieldOf(class, n) IN
           IF Given(f, d) THEN Decode(Inner, d[1], f, Got(f, d)) ELSE Missing(f)])

ReadFlat(class, d) == Read(LAMBDA of, v : v, class, d)
ReadInner(class, d) == Read(ReadFlat, class, d)
FromMsgpack(class, d) == Read(ReadInner, class, d)

=============================================================================
