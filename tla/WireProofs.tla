----------------------------- MODULE WireProofs -----------------------------
(***************************************************************************)
(* Proofs about Wire, for every object that fits the classes of            *)
(* WireModels: that it is read from its array as it was written            *)
(* (Objects_Survive), and from a dictionary alike (Forms_Agree).           *)
(*                                                                         *)
(* The classes come first: each satisfies what its readers and writers     *)
(* rely on (ClassSound).  Then the three depths at which WireModels writes *)
(* and reads are made one definition with the depth as a parameter, so     *)
(* that what holds of the objects within one can be proved of it           *)
(* (ArraysRise, DictsRise), from no depth up.                              *)
(***************************************************************************)
EXTENDS Wire, FramesProofs

-----------------------------------------------------------------------------
(* Values and classes.                                                     *)

\* What the readers and writers of a class rely on in one of its fields.
FieldSound(class, f) ==
    /\ f.kind \in {"plain", "enum", "stats", "list", "model", "modelOpt", "time", "span"}
    /\ f.kind \in {"list", "model", "modelOpt"} => f.of \in DOMAIN Classes
    /\ f.kind = "stats" => f.default = <<"keys", {}>>
    /\ f.kind = "list" => f.default = <<"list", <<>>>> \/ (f.default = Nil /\ f.keeps = TRUE)
    /\ f.kind = "model" => f.of # "UserActivity"
    /\ f.kind \in {"modelOpt", "time"} => f.default = Nil
    /\ f.kind = "span" => f.default = Zero
    /\ f.kind \in {"plain", "enum"} => f.default \in {Nil, Zero, Value("default")}
    /\ f.kind \in {"plain", "enum"} /\ f.default \notin {Nil, Zero} => <<class, f.name>> \in Slips
    /\ f.kind \in {"plain", "enum"} /\ f.default = Nil => f.keeps = TRUE \/ <<class, f.name>> \in Slips

\* The field of a name that is read at a position.
Sound(class, f, name, at) == FieldSound(class, f) /\ f.name = name /\ f.at = at

\* The positions are those the fields are written to, and no two have a name.
ClassSound(class, fs) ==
    /\ DOMAIN fs = 1 .. Len(fs) /\ Len(fs) \in Nat \ {0}
    /\ \A i \in DOMAIN fs : fs[i].at = i - 1 /\ FieldSound(class, fs[i])
    /\ \A i, j \in DOMAIN fs : fs[i].name = fs[j].name => i = j

\* The classes.
LEMMA ClassNames ==
    DOMAIN Classes =
        {"APIMod", "SpectatorState", "ScoreProcessorStatistics", "FrameHeader", "LegacyReplayFrame",
         "FrameDataBundle", "SpectatorUser", "BeatmapAvailability", "MultiplayerRoomUser",
         "MultiplayerRoomSettings", "MultiplayerPlaylistItem", "MultiplayerRoom", "BeatmapUpdates",
         "UserPresence", "UserActivity", "DailyChallengeInfo", "MultiplayerPlaylistItemStats",
         "MultiplayerRoomScoreSetEvent"}
  BY DEF Classes

\* A field with a scalar that is zero when missing.
LEMMA NumSound ==
    ASSUME NEW class, NEW name, NEW at
    PROVE  Sound(class, Num(name, at), name, at)
<1> DEFINE f == Num(name, at)
<1>1. /\ f.kind = "plain" /\ f.name = name /\ f.at = at /\ f.default = Zero
      /\ f.keeps = FALSE
  BY DEF Num, Field
<1> HIDE DEF f
<1>2. Sound(class, f, name, at)
  BY <1>1 DEF FieldSound, Sound, Nil, Zero
<1> QED BY <1>2 DEF f

\* A field with a scalar that may be missing, and takes a zero for that.
LEMMA OptSound ==
    ASSUME NEW class, NEW name, NEW at,
           <<class, name>> \in Slips
    PROVE  Sound(class, Opt(name, at), name, at)
<1> DEFINE f == Opt(name, at)
<1>1. /\ f.kind = "plain" /\ f.name = name /\ f.at = at /\ f.default = Nil
      /\ f.keeps = FALSE
  BY DEF Opt, Field
<1> HIDE DEF f
<1>2. Sound(class, f, name, at)
  BY <1>1 DEF FieldSound, Sound, Nil, Zero
<1> QED BY <1>2 DEF f

\* A field with a scalar with a default of its own, which a zero is taken for.
LEMMA OwnSound ==
    ASSUME NEW class, NEW name, NEW at,
           <<class, name>> \in Slips
    PROVE  Sound(class, Own(name, at), name, at)
<1> DEFINE f == Own(name, at)
<1>1. /\ f.kind = "plain" /\ f.name = name /\ f.at = at /\ f.default = Value("default")
      /\ f.keeps = FALSE
  BY DEF Own, Field
<1> HIDE DEF f
<1>2. Sound(class, f, name, at)
  BY <1>1 DEF FieldSound, Sound, Nil, Zero
<1> QED BY <1>2 DEF f

\* A field with an enum that is zero when missing.
LEMMA EnumSound ==
    ASSUME NEW class, NEW name, NEW at
    PROVE  Sound(class, Enum(name, at), name, at)
<1> DEFINE f == Enum(name, at)
<1>1. /\ f.kind = "enum" /\ f.name = name /\ f.at = at /\ f.default = Zero
      /\ f.keeps = TRUE
  BY DEF Enum, Field
<1> HIDE DEF f
<1>2. Sound(class, f, name, at)
  BY <1>1 DEF FieldSound, Sound, Nil, Zero
<1> QED BY <1>2 DEF f

\* A field with an enum with a default of its own, which a zero is taken for.
LEMMA EnumOrSound ==
    ASSUME NEW class, NEW name, NEW at, NEW default \in {Nil, Zero, Value("default")},
           <<class, name>> \in Slips
    PROVE  Sound(class, EnumOr(name, at, default), name, at)
<1> DEFINE f == EnumOr(name, at, default)
<1>1. /\ f.kind = "enum" /\ f.name = name /\ f.at = at /\ f.default = default
      /\ f.keeps = FALSE
  BY DEF EnumOr, Field
<1> HIDE DEF f
<1>2. Sound(class, f, name, at)
  BY <1>1 DEF FieldSound, Sound, Nil, Zero
<1> QED BY <1>2 DEF f

\* A field with an enum that may be missing.
LEMMA EnumOptSound ==
    ASSUME NEW class, NEW name, NEW at
    PROVE  Sound(class, EnumOpt(name, at), name, at)
<1> DEFINE f == EnumOpt(name, at)
<1>1. /\ f.kind = "enum" /\ f.name = name /\ f.at = at /\ f.default = Nil
      /\ f.keeps = TRUE
  BY DEF EnumOpt, Field
<1> HIDE DEF f
<1>2. Sound(class, f, name, at)
  BY <1>1 DEF FieldSound, Sound, Nil, Zero
<1> QED BY <1>2 DEF f

\* A field with statistics.
LEMMA StatsSound ==
    ASSUME NEW class, NEW name, NEW at
    PROVE  Sound(class, Stats(name, at), name, at)
<1> DEFINE f == Stats(name, at)
<1>1. /\ f.kind = "stats" /\ f.name = name /\ f.at = at /\ f.default = <<"keys", {}>>
      /\ f.keeps = FALSE
  BY DEF Stats, Field
<1> HIDE DEF f
<1>2. Sound(class, f, name, at)
  BY <1>1 DEF FieldSound, Sound, Nil, Zero
<1> QED BY <1>2 DEF f

\* A field with a list of objects.
LEMMA ListSound ==
    ASSUME NEW class, NEW name, NEW of, NEW at,
           of \in DOMAIN Classes
    PROVE  Sound(class, List(name, of, at), name, at)
<1> DEFINE f == List(name, of, at)
<1>1. /\ f.kind = "list" /\ f.name = name /\ f.at = at /\ f.default = <<"list", <<>>>>
      /\ f.keeps = FALSE /\ f.of = of
  BY DEF List, Field
<1> HIDE DEF f
<1>2. Sound(class, f, name, at)
  BY <1>1 DEF FieldSound, Sound, Nil, Zero
<1> QED BY <1>2 DEF f

\* A field with a list of objects that may be missing.
LEMMA ListOptSound ==
    ASSUME NEW class, NEW name, NEW of, NEW at,
           of \in DOMAIN Classes
    PROVE  Sound(class, ListOpt(name, of, at), name, at)
<1> DEFINE f == ListOpt(name, of, at)
<1>1. /\ f.kind = "list" /\ f.name = name /\ f.at = at /\ f.default = Nil
      /\ f.keeps = TRUE /\ f.of = of
  BY DEF ListOpt, Field
<1> HIDE DEF f
<1>2. Sound(class, f, name, at)
  BY <1>1 DEF FieldSound, Sound, Nil, Zero
<1> QED BY <1>2 DEF f

\* A field with an object.
LEMMA ModelSound ==
    ASSUME NEW class, NEW name, NEW of, NEW at,
           of \in DOMAIN Classes \ {"UserActivity"}
    PROVE  Sound(class, Model(name, of, at), name, at)
<1> DEFINE f == Model(name, of, at)
<1>1. /\ f.kind = "model" /\ f.name = name /\ f.at = at /\ f.default = Nil
      /\ f.keeps = FALSE /\ f.of = of
  BY DEF Model, Field
<1> HIDE DEF f
<1>2. Sound(class, f, name, at)
  BY <1>1 DEF FieldSound, Sound, Nil, Zero
<1> QED BY <1>2 DEF f

\* A field with an object that may be missing.
LEMMA ModelOptSound ==
    ASSUME NEW class, NEW name, NEW of, NEW at,
           of \in DOMAIN Classes
    PROVE  Sound(class, ModelOpt(name, of, at), name, at)
<1> DEFINE f == ModelOpt(name, of, at)
<1>1. /\ f.kind = "modelOpt" /\ f.name = name /\ f.at = at /\ f.default = Nil
      /\ f.keeps = FALSE /\ f.of = of
  BY DEF ModelOpt, Field
<1> HIDE DEF f
<1>2. Sound(class, f, name, at)
  BY <1>1 DEF FieldSound, Sound, Nil, Zero
<1> QED BY <1>2 DEF f

\* A field with a time.
LEMMA TimeSound ==
    ASSUME NEW class, NEW name, NEW at
    PROVE  Sound(class, Time(name, at), name, at)
<1> DEFINE f == Time(name, at)
<1>1. /\ f.kind = "time" /\ f.name = name /\ f.at = at /\ f.default = Nil
      /\ f.keeps = FALSE
  BY DEF Time, Field
<1> HIDE DEF f
<1>2. Sound(class, f, name, at)
  BY <1>1 DEF FieldSound, Sound, Nil, Zero
<1> QED BY <1>2 DEF f

\* A field with a duration.
LEMMA SpanSound ==
    ASSUME NEW class, NEW name, NEW at
    PROVE  Sound(class, Span(name, at), name, at)
<1> DEFINE f == Span(name, at)
<1>1. /\ f.kind = "span" /\ f.name = name /\ f.at = at /\ f.default = Zero
      /\ f.keeps = FALSE
  BY DEF Span, Field
<1> HIDE DEF f
<1>2. Sound(class, f, name, at)
  BY <1>1 DEF FieldSound, Sound, Nil, Zero
<1> QED BY <1>2 DEF f

\* Each field of APIMod is read where it is written.
LEMMA APIModSound == ClassSound("APIMod", APIMod)
<1> DEFINE fs == APIMod
           Is(i, name) == Sound("APIMod", fs[i], name, i - 1)
<1>1. /\ DOMAIN fs = 1 .. 2 /\ Len(fs) = 2 /\ fs[1] = Num("acronym", 0)
      /\ fs[2] = Num("settings", 1)
  BY DEF APIMod
<1> HIDE DEF fs
<1>2. /\ Is(1, "acronym") /\ Is(2, "settings")
  BY <1>1, NumSound
<1>3. ClassSound("APIMod", fs)
  BY <1>1, <1>2 DEF Sound, ClassSound
<1> QED BY <1>3 DEF fs

\* Each field of SpectatorState is read where it is written.
LEMMA SpectatorStateSound == ClassSound("SpectatorState", SpectatorState)
<1> DEFINE fs == SpectatorState
           Is(i, name) == Sound("SpectatorState", fs[i], name, i - 1)
<1>1. /\ DOMAIN fs = 1 .. 5 /\ Len(fs) = 5 /\ fs[1] = Opt("beatmap_id", 0)
      /\ fs[2] = Opt("ruleset_id", 1) /\ fs[3] = List("mods", "APIMod", 2)
      /\ fs[4] = Enum("state", 3) /\ fs[5] = Stats("maximum_statistics", 4)
  BY DEF SpectatorState
<1> HIDE DEF fs
<1>2. /\ <<"SpectatorState", "beatmap_id">> \in Slips
      /\ <<"SpectatorState", "ruleset_id">> \in Slips
  BY DEF Slips
<1>3. /\ Is(1, "beatmap_id") /\ Is(2, "ruleset_id") /\ Is(3, "mods") /\ Is(4, "state")
      /\ Is(5, "maximum_statistics")
  BY <1>1, <1>2, EnumSound, ListSound, OptSound, StatsSound, ClassNames
<1>4. ClassSound("SpectatorState", fs)
  BY <1>1, <1>3 DEF Sound, ClassSound
<1> QED BY <1>4 DEF fs

\* Each field of ScoreProcessorStatistics is read where it is written.
LEMMA ScoreProcessorStatisticsSound == ClassSound("ScoreProcessorStatistics", ScoreProcessorStatistics)
<1> DEFINE fs == ScoreProcessorStatistics
           Is(i, name) == Sound("ScoreProcessorStatistics", fs[i], name, i - 1)
<1>1. /\ DOMAIN fs = 1 .. 5 /\ Len(fs) = 5 /\ fs[1] = Num("base_score", 0)
      /\ fs[2] = Num("maximum_base_score", 1) /\ fs[3] = Num("accuracy_judgement_count", 2)
      /\ fs[4] = Num("combo_portion", 3) /\ fs[5] = Num("bonus_portion", 4)
  BY DEF ScoreProcessorStatistics
<1> HIDE DEF fs
<1>2. /\ Is(1, "base_score") /\ Is(2, "maximum_base_score")
      /\ Is(3, "accuracy_judgement_count") /\ Is(4, "combo_portion") /\ Is(5, "bonus_portion")
  BY <1>1, NumSound
<1>3. ClassSound("ScoreProcessorStatistics", fs)
  BY <1>1, <1>2 DEF Sound, ClassSound
<1> QED BY <1>3 DEF fs

\* Each field of FrameHeader is read where it is written.
LEMMA FrameHeaderSound == ClassSound("FrameHeader", FrameHeader)
<1> DEFINE fs == FrameHeader
           Is(i, name) == Sound("FrameHeader", fs[i], name, i - 1)
<1>1. /\ DOMAIN fs = 1 .. 8 /\ Len(fs) = 8 /\ fs[1] = Num("total_score", 0)
      /\ fs[2] = Num("accuracy", 1) /\ fs[3] = Num("combo", 2) /\ fs[4] = Num("max_combo", 3)
      /\ fs[5] = Stats("statistics", 4)
      /\ fs[6] = Model("score_processor_statistics", "ScoreProcessorStatistics", 5)
      /\ fs[7] = Time("received_time", 6) /\ fs[8] = ListOpt("mods", "APIMod", 7)
  BY DEF FrameHeader
<1> HIDE DEF fs
<1>2. /\ Is(1, "total_score") /\ Is(2, "accuracy") /\ Is(3, "combo") /\ Is(4, "max_combo")
      /\ Is(5, "statistics") /\ Is(6, "score_processor_statistics") /\ Is(7, "received_time")
      /\ Is(8, "mods")
  BY <1>1, ListOptSound, ModelSound, NumSound, StatsSound, TimeSound, ClassNames
<1>3. ClassSound("FrameHeader", fs)
  BY <1>1, <1>2 DEF Sound, ClassSound
<1> QED BY <1>3 DEF fs

\* Each field of LegacyReplayFrame is read where it is written.
LEMMA LegacyReplayFrameSound == ClassSound("LegacyReplayFrame", LegacyReplayFrame)
<1> DEFINE fs == LegacyReplayFrame
           Is(i, name) == Sound("LegacyReplayFrame", fs[i], name, i - 1)
<1>1. /\ DOMAIN fs = 1 .. 4 /\ Len(fs) = 4 /\ fs[1] = Num("time", 0)
      /\ fs[2] = Opt("mouse_x", 1) /\ fs[3] = Opt("mouse_y", 2)
      /\ fs[4] = Num("button_state", 3)
  BY DEF LegacyReplayFrame
<1> HIDE DEF fs
<1>2. /\ <<"LegacyReplayFrame", "mouse_x">> \in Slips
      /\ <<"LegacyReplayFrame", "mouse_y">> \in Slips
  BY DEF Slips
<1>3. /\ Is(1, "time") /\ Is(2, "mouse_x") /\ Is(3, "mouse_y") /\ Is(4, "button_state")
  BY <1>1, <1>2, NumSound, OptSound
<1>4. ClassSound("LegacyReplayFrame", fs)
  BY <1>1, <1>3 DEF Sound, ClassSound
<1> QED BY <1>4 DEF fs

\* Each field of FrameDataBundle is read where it is written.
LEMMA FrameDataBundleSound == ClassSound("FrameDataBundle", FrameDataBundle)
<1> DEFINE fs == FrameDataBundle
           Is(i, name) == Sound("FrameDataBundle", fs[i], name, i - 1)
<1>1. /\ DOMAIN fs = 1 .. 2 /\ Len(fs) = 2 /\ fs[1] = Model("header", "FrameHeader", 0)
      /\ fs[2] = List("frames", "LegacyReplayFrame", 1)
  BY DEF FrameDataBundle
<1> HIDE DEF fs
<1>2. /\ Is(1, "header") /\ Is(2, "frames")
  BY <1>1, ListSound, ModelSound, ClassNames
<1>3. ClassSound("FrameDataBundle", fs)
  BY <1>1, <1>2 DEF Sound, ClassSound
<1> QED BY <1>3 DEF fs

\* Each field of SpectatorUser is read where it is written.
LEMMA SpectatorUserSound == ClassSound("SpectatorUser", SpectatorUser)
<1> DEFINE fs == SpectatorUser
           Is(i, name) == Sound("SpectatorUser", fs[i], name, i - 1)
<1>1. /\ DOMAIN fs = 1 .. 2 /\ Len(fs) = 2 /\ fs[1] = Num("online_id", 0)
      /\ fs[2] = Num("username", 1)
  BY DEF SpectatorUser
<1> HIDE DEF fs
<1>2. /\ Is(1, "online_id") /\ Is(2, "username")
  BY <1>1, NumSound
<1>3. ClassSound("SpectatorUser", fs)
  BY <1>1, <1>2 DEF Sound, ClassSound
<1> QED BY <1>3 DEF fs

\* Each field of BeatmapAvailability is read where it is written.
LEMMA BeatmapAvailabilitySound == ClassSound("BeatmapAvailability", BeatmapAvailability)
<1> DEFINE fs == BeatmapAvailability
           Is(i, name) == Sound("BeatmapAvailability", fs[i], name, i - 1)
<1>1. /\ DOMAIN fs = 1 .. 2 /\ Len(fs) = 2 /\ fs[1] = Enum("state", 0)
      /\ fs[2] = Opt("download_progress", 1)
  BY DEF BeatmapAvailability
<1> HIDE DEF fs
<1>2. /\ <<"BeatmapAvailability", "download_progress">> \in Slips
  BY DEF Slips
<1>3. /\ Is(1, "state") /\ Is(2, "download_progress")
  BY <1>1, <1>2, EnumSound, OptSound
<1>4. ClassSound("BeatmapAvailability", fs)
  BY <1>1, <1>3 DEF Sound, ClassSound
<1> QED BY <1>4 DEF fs

\* Each field of MultiplayerRoomUser is read where it is written.
LEMMA MultiplayerRoomUserSound == ClassSound("MultiplayerRoomUser", MultiplayerRoomUser)
<1> DEFINE fs == MultiplayerRoomUser
           Is(i, name) == Sound("MultiplayerRoomUser", fs[i], name, i - 1)
<1>1. /\ DOMAIN fs = 1 .. 8 /\ Len(fs) = 8 /\ fs[1] = Num("user_id", 0)
      /\ fs[2] = Enum("state", 1)
      /\ fs[3] = Model("beatmap_availability", "BeatmapAvailability", 2)
      /\ fs[4] = List("mods", "APIMod", 3) /\ fs[5] = Opt("match_state", 4)
      /\ fs[6] = Opt("ruleset_id", 5) /\ fs[7] = Opt("beatmap_id", 6)
      /\ fs[8] = Num("voted_to_skip_intro", 7)
  BY DEF MultiplayerRoomUser
<1> HIDE DEF fs
<1>2. /\ <<"MultiplayerRoomUser", "match_state">> \in Slips
      /\ <<"MultiplayerRoomUser", "ruleset_id">> \in Slips
      /\ <<"MultiplayerRoomUser", "beatmap_id">> \in Slips
  BY DEF Slips
<1>3. /\ Is(1, "user_id") /\ Is(2, "state") /\ Is(3, "beatmap_availability") /\ Is(4, "mods")
      /\ Is(5, "match_state") /\ Is(6, "ruleset_id") /\ Is(7, "beatmap_id")
      /\ Is(8, "voted_to_skip_intro")
  BY <1>1, <1>2, EnumSound, ListSound, ModelSound, NumSound, OptSound, ClassNames
<1>4. ClassSound("MultiplayerRoomUser", fs)
  BY <1>1, <1>3 DEF Sound, ClassSound
<1> QED BY <1>4 DEF fs

\* Each field of MultiplayerRoomSettings is read where it is written.
LEMMA MultiplayerRoomSettingsSound == ClassSound("MultiplayerRoomSettings", MultiplayerRoomSettings)
<1> DEFINE fs == MultiplayerRoomSettings
           Is(i, name) == Sound("MultiplayerRoomSettings", fs[i], name, i - 1)
<1>1. /\ DOMAIN fs = 1 .. 7 /\ Len(fs) = 7 /\ fs[1] = Own("name", 0)
      /\ fs[2] = Num("playlist_item_id", 1) /\ fs[3] = Num("password", 2)
      /\ fs[4] = EnumOr("match_type", 3, Value("default")) /\ fs[5] = Enum("queue_mode", 4)
      /\ fs[6] = Span("auto_start_duration", 5) /\ fs[7] = Num("auto_skip", 6)
  BY DEF MultiplayerRoomSettings
<1> HIDE DEF fs
<1>2. /\ <<"MultiplayerRoomSettings", "name">> \in Slips
      /\ <<"MultiplayerRoomSettings", "match_type">> \in Slips
  BY DEF Slips
<1>3. /\ Is(1, "name") /\ Is(2, "playlist_item_id") /\ Is(3, "password") /\ Is(4, "match_type")
      /\ Is(5, "queue_mode") /\ Is(6, "auto_start_duration") /\ Is(7, "auto_skip")
  BY <1>1, <1>2, EnumOrSound, EnumSound, NumSound, OwnSound, SpanSound
<1>4. ClassSound("MultiplayerRoomSettings", fs)
  BY <1>1, <1>3 DEF Sound, ClassSound
<1> QED BY <1>4 DEF fs

\* Each field of MultiplayerPlaylistItem is read where it is written.
LEMMA MultiplayerPlaylistItemSound == ClassSound("MultiplayerPlaylistItem", MultiplayerPlaylistItem)
<1> DEFINE fs == MultiplayerPlaylistItem
           Is(i, name) == Sound("MultiplayerPlaylistItem", fs[i], name, i - 1)
<1>1. /\ DOMAIN fs = 1 .. 12 /\ Len(fs) = 12 /\ fs[1] = Num("id", 0)
      /\ fs[2] = Num("owner_id", 1) /\ fs[3] = Num("beatmap_id", 2)
      /\ fs[4] = Num("beatmap_checksum", 3) /\ fs[5] = Num("ruleset_id", 4)
      /\ fs[6] = List("required_mods", "APIMod", 5)
      /\ fs[7] = List("allowed_mods", "APIMod", 6) /\ fs[8] = Num("expired", 7)
      /\ fs[9] = Num("playlist_order", 8) /\ fs[10] = Time("played_at", 9)
      /\ fs[11] = Num("star_rating", 10) /\ fs[12] = Num("freestyle", 11)
  BY DEF MultiplayerPlaylistItem
<1> HIDE DEF fs
<1>2. /\ Is(1, "id") /\ Is(2, "owner_id") /\ Is(3, "beatmap_id") /\ Is(4, "beatmap_checksum")
      /\ Is(5, "ruleset_id") /\ Is(6, "required_mods") /\ Is(7, "allowed_mods")
      /\ Is(8, "expired") /\ Is(9, "playlist_order") /\ Is(10, "played_at")
      /\ Is(11, "star_rating") /\ Is(12, "freestyle")
  BY <1>1, ListSound, NumSound, TimeSound, ClassNames
<1>3. ClassSound("MultiplayerPlaylistItem", fs)
  BY <1>1, <1>2 DEF Sound, ClassSound
<1> QED BY <1>3 DEF fs

\* Each field of MultiplayerRoom is read where it is written.
LEMMA MultiplayerRoomSound == ClassSound("MultiplayerRoom", MultiplayerRoom)
<1> DEFINE fs == MultiplayerRoom
           Is(i, name) == Sound("MultiplayerRoom", fs[i], name, i - 1)
<1>1. /\ DOMAIN fs = 1 .. 9 /\ Len(fs) = 9 /\ fs[1] = Num("room_id", 0)
      /\ fs[2] = Enum("state", 1) /\ fs[3] = Model("settings", "MultiplayerRoomSettings", 2)
      /\ fs[4] = List("users", "MultiplayerRoomUser", 3)
      /\ fs[5] = ModelOpt("host", "MultiplayerRoomUser", 4) /\ fs[6] = Opt("match_state", 5)
      /\ fs[7] = List("playlist", "MultiplayerPlaylistItem", 6)
      /\ fs[8] = Num("active_countdowns", 7) /\ fs[9] = Num("channel_id", 8)
  BY DEF MultiplayerRoom
<1> HIDE DEF fs
<1>2. /\ <<"MultiplayerRoom", "match_state">> \in Slips
  BY DEF Slips
<1>3. /\ Is(1, "room_id") /\ Is(2, "state") /\ Is(3, "settings") /\ Is(4, "users")
      /\ Is(5, "host") /\ Is(6, "match_state") /\ Is(7, "playlist")
      /\ Is(8, "active_countdowns") /\ Is(9, "channel_id")
  BY <1>1, <1>2, EnumSound, ListSound, ModelOptSound, ModelSound, NumSound, OptSound, ClassNames
<1>4. ClassSound("MultiplayerRoom", fs)
  BY <1>1, <1>3 DEF Sound, ClassSound
<1> QED BY <1>4 DEF fs

\* Each field of BeatmapUpdates is read where it is written.
LEMMA BeatmapUpdatesSound == ClassSound("BeatmapUpdates", BeatmapUpdates)
<1> DEFINE fs == BeatmapUpdates
           Is(i, name) == Sound("BeatmapUpdates", fs[i], name, i - 1)
<1>1. /\ DOMAIN fs = 1 .. 2 /\ Len(fs) = 2 /\ fs[1] = Num("beatmap_set_ids", 0)
      /\ fs[2] = Num("last_processed_queue_id", 1)
  BY DEF BeatmapUpdates
<1> HIDE DEF fs
<1>2. /\ Is(1, "beatmap_set_ids") /\ Is(2, "last_processed_queue_id")
  BY <1>1, NumSound
<1>3. ClassSound("BeatmapUpdates", fs)
  BY <1>1, <1>2 DEF Sound, ClassSound
<1> QED BY <1>3 DEF fs

\* Each field of UserPresence is read where it is written.
LEMMA UserPresenceSound == ClassSound("UserPresence", UserPresence)
<1> DEFINE fs == UserPresence
           Is(i, name) == Sound("UserPresence", fs[i], name, i - 1)
<1>1. /\ DOMAIN fs = 1 .. 2 /\ Len(fs) = 2 /\ fs[1] = ModelOpt("activity", "UserActivity", 0)
      /\ fs[2] = EnumOpt("status", 1)
  BY DEF UserPresence
<1> HIDE DEF fs
<1>2. /\ Is(1, "activity") /\ Is(2, "status")
  BY <1>1, EnumOptSound, ModelOptSound, ClassNames
<1>3. ClassSound("UserPresence", fs)
  BY <1>1, <1>2 DEF Sound, ClassSound
<1> QED BY <1>3 DEF fs

\* Each field of DailyChallengeInfo is read where it is written.
LEMMA DailyChallengeInfoSound == ClassSound("DailyChallengeInfo", DailyChallengeInfo)
<1> DEFINE fs == DailyChallengeInfo
           Is(i, name) == Sound("DailyChallengeInfo", fs[i], name, i - 1)
<1>1. /\ DOMAIN fs = 1 .. 1 /\ Len(fs) = 1 /\ fs[1] = Num("room_id", 0)
  BY DEF DailyChallengeInfo
<1> HIDE DEF fs
<1>2. /\ Is(1, "room_id")
  BY <1>1, NumSound
<1>3. ClassSound("DailyChallengeInfo", fs)
  BY <1>1, <1>2 DEF Sound, ClassSound
<1> QED BY <1>3 DEF fs

\* Each field of MultiplayerPlaylistItemStats is read where it is written.
LEMMA MultiplayerPlaylistItemStatsSound == ClassSound("MultiplayerPlaylistItemStats", MultiplayerPlaylistItemStats)
<1> DEFINE fs == MultiplayerPlaylistItemStats
           Is(i, name) == Sound("MultiplayerPlaylistItemStats", fs[i], name, i - 1)
<1>1. /\ DOMAIN fs = 1 .. 4 /\ Len(fs) = 4 /\ fs[1] = Num("playlist_item_id", 0)
      /\ fs[2] = Own("total_score_distribution", 1) /\ fs[3] = Num("cumulative_score", 2)
      /\ fs[4] = Num("last_processed_score_id", 3)
  BY DEF MultiplayerPlaylistItemStats
<1> HIDE DEF fs
<1>2. /\ <<"MultiplayerPlaylistItemStats", "total_score_distribution">> \in Slips
  BY DEF Slips
<1>3. /\ Is(1, "playlist_item_id") /\ Is(2, "total_score_distribution")
      /\ Is(3, "cumulative_score") /\ Is(4, "last_processed_score_id")
  BY <1>1, <1>2, NumSound, OwnSound
<1>4. ClassSound("MultiplayerPlaylistItemStats", fs)
  BY <1>1, <1>3 DEF Sound, ClassSound
<1> QED BY <1>4 DEF fs

\* Each field of MultiplayerRoomScoreSetEvent is read where it is written.
LEMMA MultiplayerRoomScoreSetEventSound == ClassSound("MultiplayerRoomScoreSetEvent", MultiplayerRoomScoreSetEvent)
<1> DEFINE fs == MultiplayerRoomScoreSetEvent
           Is(i, name) == Sound("MultiplayerRoomScoreSetEvent", fs[i], name, i - 1)
<1>1. /\ DOMAIN fs = 1 .. 6 /\ Len(fs) = 6 /\ fs[1] = Num("room_id", 0)
      /\ fs[2] = Num("playlist_item_id", 1) /\ fs[3] = Num("score_id", 2)
      /\ fs[4] = Num("user_id", 3) /\ fs[5] = Num("total_score", 4)
      /\ fs[6] = Opt("new_rank", 5)
  BY DEF MultiplayerRoomScoreSetEvent
<1> HIDE DEF fs
<1>2. /\ <<"MultiplayerRoomScoreSetEvent", "new_rank">> \in Slips
  BY DEF Slips
<1>3. /\ Is(1, "room_id") /\ Is(2, "playlist_item_id") /\ Is(3, "score_id") /\ Is(4, "user_id")
      /\ Is(5, "total_score") /\ Is(6, "new_rank")
  BY <1>1, <1>2, NumSound, OptSound
<1>4. ClassSound("MultiplayerRoomScoreSetEvent", fs)
  BY <1>1, <1>3 DEF Sound, ClassSound
<1> QED BY <1>4 DEF fs

\* Every class is sound; UserActivity is written and read in its own way.
LEMMA AllSound ==
    ASSUME NEW class \in DOMAIN Classes, class # "UserActivity"
    PROVE  ClassSound(class, Classes[class])
<1>1. /\ Classes["APIMod"] = APIMod /\ Classes["SpectatorState"] = SpectatorState
      /\ Classes["ScoreProcessorStatistics"] = ScoreProcessorStatistics
      /\ Classes["FrameHeader"] = FrameHeader
      /\ Classes["LegacyReplayFrame"] = LegacyReplayFrame
      /\ Classes["FrameDataBundle"] = FrameDataBundle
      /\ Classes["SpectatorUser"] = SpectatorUser
      /\ Classes["BeatmapAvailability"] = BeatmapAvailability
      /\ Classes["MultiplayerRoomUser"] = MultiplayerRoomUser
      /\ Classes["MultiplayerRoomSettings"] = MultiplayerRoomSettings
      /\ Classes["MultiplayerPlaylistItem"] = MultiplayerPlaylistItem
      /\ Classes["MultiplayerRoom"] = MultiplayerRoom
      /\ Classes["BeatmapUpdates"] = BeatmapUpdates /\ Classes["UserPresence"] = UserPresence
      /\ Classes["DailyChallengeInfo"] = DailyChallengeInfo
      /\ Classes["MultiplayerPlaylistItemStats"] = MultiplayerPlaylistItemStats
      /\ Classes["MultiplayerRoomScoreSetEvent"] = MultiplayerRoomScoreSetEvent
  BY DEF Classes
<1> QED
  BY <1>1, ClassNames, APIModSound, SpectatorStateSound, ScoreProcessorStatisticsSound,
     FrameHeaderSound, LegacyReplayFrameSound, FrameDataBundleSound, SpectatorUserSound,
     BeatmapAvailabilitySound, MultiplayerRoomUserSound, MultiplayerRoomSettingsSound,
     MultiplayerPlaylistItemSound, MultiplayerRoomSound, BeatmapUpdatesSound,
     UserPresenceSound, DailyChallengeInfoSound, MultiplayerPlaylistItemStatsSound,
     MultiplayerRoomScoreSetEventSound

\* The field of a name is found, and at the place it is written to.
LEMMA Access ==
    ASSUME NEW class \in DOMAIN Classes, class # "UserActivity", NEW n \in FieldNames(class)
    PROVE  LET fs == Classes[class] IN
           /\ DOMAIN fs = 1 .. Len(fs) /\ Len(fs) \in Nat \ {0}
           /\ Place(class, n) \in DOMAIN fs /\ FieldOf(class, n) = fs[Place(class, n)]
           /\ fs[Place(class, n)].name = n /\ fs[Place(class, n)].at = Place(class, n) - 1
           /\ FieldSound(class, fs[Place(class, n)])
<1> DEFINE fs == Classes[class]
<1>1. ClassSound(class, fs)
  BY AllSound
<1> HIDE DEF fs
<1>2. PICK i \in DOMAIN fs : fs[i].name = n
  BY DEF FieldNames, ToSet, fs
<1>3. Place(class, n) \in DOMAIN fs /\ fs[Place(class, n)].name = n
  BY <1>2 DEF Place, fs
<1>4. FieldOf(class, n) \in ToSet(fs) /\ FieldOf(class, n).name = n
  BY <1>2 DEF FieldOf, ToSet, fs
<1>5. FieldOf(class, n) = fs[Place(class, n)]
  BY <1>1, <1>3, <1>4 DEF ToSet, ClassSound
<1> QED BY <1>1, <1>3, <1>5 DEF ClassSound, fs

\* And every field of a class has a name that finds it.
LEMMA Named ==
    ASSUME NEW class \in DOMAIN Classes, class # "UserActivity", NEW i \in DOMAIN Classes[class]
    PROVE  Classes[class][i].name \in FieldNames(class) /\ Place(class, Classes[class][i].name) = i
<1> DEFINE fs == Classes[class]
<1>1. ClassSound(class, fs)
  BY AllSound
<1>2. fs[i].name \in FieldNames(class)
  BY DEF FieldNames, ToSet
<1>3. Place(class, fs[i].name) \in DOMAIN fs /\ fs[Place(class, fs[i].name)].name = fs[i].name
  BY <1>2, Access
<1> HIDE DEF fs
<1> QED BY <1>1, <1>2, <1>3 DEF ClassSound, fs

-----------------------------------------------------------------------------
(* Depths.  At depth 0 there are no objects.                               *)

WriteAt(k, v) ==
    IF k = 0 THEN v ELSE IF k = 1 THEN WriteFlat(v) ELSE IF k = 2 THEN WriteInner(v) ELSE ToMsgpack(v)
ReadAt(k, class, d) ==
    IF k = 0 THEN d ELSE IF k = 1 THEN ReadFlat(class, d) ELSE IF k = 2 THEN ReadInner(class, d)
    ELSE FromMsgpack(class, d)
HoldsAt(k, class, v) ==
    IF k = 0 THEN FALSE ELSE IF k = 1 THEN ObjectFlat(class, v) ELSE IF k = 2 THEN ObjectInner(class, v)
    ELSE ObjectOf(class, v)
EssenceAt(k, v) ==
    IF k = 0 THEN v ELSE IF k = 1 THEN EssenceFlat(v) ELSE IF k = 2 THEN EssenceInner(v)
    ELSE Essence(v, Len(Classes[v[2]]))
DictAt(k, v) ==
    IF k = 0 THEN v ELSE IF k = 1 THEN DictFlat(v) ELSE IF k = 2 THEN DictInner(v) ELSE AsDict(v)
AlikeAt(k, v, array, dict) ==
    IF k = 0 THEN array = dict ELSE IF k = 1 THEN AlikeFlat(v, array, dict)
    ELSE IF k = 2 THEN AlikeInner(v, array, dict) ELSE Alike(AlikeInner, v, array, dict)

\* The next depth above each.
EncodeOver(k, f, x) == Encode(LAMBDA y : WriteAt(k, y), f, x)
WriteOver(k, v) == Write(LAMBDA x : WriteAt(k, x), v)
DecodeOver(k, form, f, x) == Decode(LAMBDA of, y : ReadAt(k, of, y), form, f, x)
ReadOver(k, class, d) == Read(LAMBDA of, v : ReadAt(k, of, v), class, d)
FitsOver(k, f, x) == Fits(LAMBDA of, y : HoldsAt(k, of, y), f, x)
HoldsOver(k, class, v) == Object(LAMBDA of, x : HoldsAt(k, of, x), class, v)
CanonOver(k, f, x) == Canon(LAMBDA y : EssenceAt(k, y), f, x)
ReduceOver(k, v, positions) == Reduce(LAMBDA x : EssenceAt(k, x), v, positions)
DictOver(k, v) == Dict(LAMBDA x : DictAt(k, x), v)
AlikeFieldOver(k, class, f, x, array, dict) ==
    AlikeField(LAMBDA y, a, d : AlikeAt(k, y, a, d), class, f, x, array, dict)
AlikeOver(k, v, array, dict) == Alike(LAMBDA x, a, d : AlikeAt(k, x, a, d), v, array, dict)

\* A depth is the next above the one below it, in each of these.
LEMMA WriteRises ==
    ASSUME NEW k \in 0 .. 2, NEW v
    PROVE  WriteAt(k + 1, v) = WriteOver(k, v)
<1>1. CASE k = 0
  <2>1. \A y : WriteAt(0, y) = y
    BY DEF WriteAt
  <2>2. \A f, x : Encode(LAMBDA y : y, f, x) = EncodeOver(0, f, x)
    BY <2>1 DEF Encode, EncodeOver
  <2>3. WriteFlat(v) = WriteOver(0, v)
    BY <2>1, <2>2 DEF WriteFlat, Write, WriteOver, EncodeOver
  <2> QED BY <1>1, <2>3 DEF WriteAt
<1>2. CASE k = 1
  <2>1. \A y : WriteAt(1, y) = WriteFlat(y)
    BY DEF WriteAt
  <2>2. \A f, x : Encode(WriteFlat, f, x) = EncodeOver(1, f, x)
    BY <2>1 DEF Encode, EncodeOver
  <2>3. WriteInner(v) = WriteOver(1, v)
    BY <2>1, <2>2 DEF WriteInner, Write, WriteOver, EncodeOver
  <2> QED BY <1>2, <2>3 DEF WriteAt
<1>3. CASE k = 2
  <2>1. \A y : WriteAt(2, y) = WriteInner(y)
    BY DEF WriteAt
  <2>2. \A f, x : Encode(WriteInner, f, x) = EncodeOver(2, f, x)
    BY <2>1 DEF Encode, EncodeOver
  <2>3. ToMsgpack(v) = WriteOver(2, v)
    BY <2>1, <2>2 DEF ToMsgpack, Write, WriteOver, EncodeOver
  <2> QED BY <1>3, <2>3 DEF WriteAt
<1> QED BY <1>1, <1>2, <1>3

\* Reading at a depth.
LEMMA ReadRises ==
    ASSUME NEW k \in 0 .. 2, NEW class, NEW d
    PROVE  ReadAt(k + 1, class, d) = ReadOver(k, class, d)
<1>1. CASE k = 0
  <2>1. \A of, y : ReadAt(0, of, y) = y
    BY DEF ReadAt
  <2>2. \A form, f, x : Decode(LAMBDA of, y : y, form, f, x) = DecodeOver(0, form, f, x)
    BY <2>1 DEF Decode, DecodeOver
  <2>3. ReadFlat(class, d) = ReadOver(0, class, d)
    BY <2>1, <2>2 DEF ReadFlat, Read, ReadOver, DecodeOver
  <2> QED BY <1>1, <2>3 DEF ReadAt
<1>2. CASE k = 1
  <2>1. \A of, y : ReadAt(1, of, y) = ReadFlat(of, y)
    BY DEF ReadAt
  <2>2. \A form, f, x : Decode(ReadFlat, form, f, x) = DecodeOver(1, form, f, x)
    BY <2>1 DEF Decode, DecodeOver
  <2>3. ReadInner(class, d) = ReadOver(1, class, d)
    BY <2>1, <2>2 DEF ReadInner, Read, ReadOver, DecodeOver
  <2> QED BY <1>2, <2>3 DEF ReadAt
<1>3. CASE k = 2
  <2>1. \A of, y : ReadAt(2, of, y) = ReadInner(of, y)
    BY DEF ReadAt
  <2>2. \A form, f, x : Decode(ReadInner, form, f, x) = DecodeOver(2, form, f, x)
    BY <2>1 DEF Decode, DecodeOver
  <2>3. FromMsgpack(class, d) = ReadOver(2, class, d)
    BY <2>1, <2>2 DEF FromMsgpack, Read, ReadOver, DecodeOver
  <2> QED BY <1>3, <2>3 DEF ReadAt
<1> QED BY <1>1, <1>2, <1>3

\* What objects there are.
LEMMA HoldsRises ==
    ASSUME NEW k \in 0 .. 2, NEW class, NEW v
    PROVE  HoldsAt(k + 1, class, v) <=> HoldsOver(k, class, v)
<1>1. CASE k = 0
  <2>1. \A of, y : HoldsAt(0, of, y) <=> FALSE
    BY DEF HoldsAt
  <2>2. \A f, x : Fits(LAMBDA of, y : FALSE, f, x) <=> FitsOver(0, f, x)
    BY <2>1 DEF Fits, FitsOver
  <2>3. ObjectFlat(class, v) <=> HoldsOver(0, class, v)
    BY <2>1, <2>2 DEF ObjectFlat, Object, HoldsOver, FitsOver
  <2> QED BY <1>1, <2>3 DEF HoldsAt
<1>2. CASE k = 1
  <2>1. \A of, y : HoldsAt(1, of, y) <=> ObjectFlat(of, y)
    BY DEF HoldsAt
  <2>2. \A f, x : Fits(ObjectFlat, f, x) <=> FitsOver(1, f, x)
    BY <2>1 DEF Fits, FitsOver
  <2>3. ObjectInner(class, v) <=> HoldsOver(1, class, v)
    BY <2>1, <2>2 DEF ObjectInner, Object, HoldsOver, FitsOver
  <2> QED BY <1>2, <2>3 DEF HoldsAt
<1>3. CASE k = 2
  <2>1. \A of, y : HoldsAt(2, of, y) <=> ObjectInner(of, y)
    BY DEF HoldsAt
  <2>2. \A f, x : Fits(ObjectInner, f, x) <=> FitsOver(2, f, x)
    BY <2>1 DEF Fits, FitsOver
  <2>3. ObjectOf(class, v) <=> HoldsOver(2, class, v)
    BY <2>1, <2>2 DEF ObjectOf, Object, HoldsOver, FitsOver
  <2> QED BY <1>3, <2>3 DEF HoldsAt
<1> QED BY <1>1, <1>2, <1>3

\* What they keep.
LEMMA EssenceRises ==
    ASSUME NEW k \in 0 .. 2, NEW v
    PROVE  EssenceAt(k + 1, v) = ReduceOver(k, v, Len(Classes[v[2]]))
<1>1. CASE k = 0
  <2>1. \A y : EssenceAt(0, y) = y
    BY DEF EssenceAt
  <2>2. \A f, x : Canon(LAMBDA y : y, f, x) = CanonOver(0, f, x)
    BY <2>1 DEF Canon, CanonOver
  <2>3. EssenceFlat(v) = ReduceOver(0, v, Len(Classes[v[2]]))
    BY <2>1, <2>2 DEF EssenceFlat, Reduce, ReduceOver, CanonOver
  <2> QED BY <1>1, <2>3 DEF EssenceAt
<1>2. CASE k = 1
  <2>1. \A y : EssenceAt(1, y) = EssenceFlat(y)
    BY DEF EssenceAt
  <2>2. \A f, x : Canon(EssenceFlat, f, x) = CanonOver(1, f, x)
    BY <2>1 DEF Canon, CanonOver
  <2>3. EssenceInner(v) = ReduceOver(1, v, Len(Classes[v[2]]))
    BY <2>1, <2>2 DEF EssenceInner, Reduce, ReduceOver, CanonOver
  <2> QED BY <1>2, <2>3 DEF EssenceAt
<1>3. CASE k = 2
  <2>1. \A y : EssenceAt(2, y) = EssenceInner(y)
    BY DEF EssenceAt
  <2>2. \A f, x : Canon(EssenceInner, f, x) = CanonOver(2, f, x)
    BY <2>1 DEF Canon, CanonOver
  <2>3. Essence(v, Len(Classes[v[2]])) = ReduceOver(2, v, Len(Classes[v[2]]))
    BY <2>1, <2>2 DEF Essence, Reduce, ReduceOver, CanonOver
  <2> QED BY <1>3, <2>3 DEF EssenceAt
<1> QED BY <1>1, <1>2, <1>3

\* Their dictionaries.
LEMMA DictRises ==
    ASSUME NEW k \in 0 .. 2, NEW v
    PROVE  DictAt(k + 1, v) = DictOver(k, v)
<1>1. CASE k = 0
  <2>1. \A y : DictAt(0, y) = y
    BY DEF DictAt
  <2>2. DictFlat(v) = DictOver(0, v)
    BY <2>1 DEF DictFlat, Dict, DictOver
  <2> QED BY <1>1, <2>2 DEF DictAt
<1>2. CASE k = 1
  <2>1. \A y : DictAt(1, y) = DictFlat(y)
    BY DEF DictAt
  <2>2. DictInner(v) = DictOver(1, v)
    BY <2>1 DEF DictInner, Dict, DictOver
  <2> QED BY <1>2, <2>2 DEF DictAt
<1>3. CASE k = 2
  <2>1. \A y : DictAt(2, y) = DictInner(y)
    BY DEF DictAt
  <2>2. AsDict(v) = DictOver(2, v)
    BY <2>1 DEF AsDict, Dict, DictOver
  <2> QED BY <1>3, <2>2 DEF DictAt
<1> QED BY <1>1, <1>2, <1>3

\* What is alike.
LEMMA AlikeRises ==
    ASSUME NEW k \in 0 .. 2, NEW v, NEW array, NEW dict
    PROVE  AlikeAt(k + 1, v, array, dict) <=> AlikeOver(k, v, array, dict)
<1>1. CASE k = 0
  <2>1. \A x, a, d : AlikeAt(0, x, a, d) <=> Same(x, a, d)
    BY DEF AlikeAt, Same
  <2>2. \A class, f, y, p, q : AlikeField(Same, class, f, y, p, q)
                                   <=> AlikeFieldOver(0, class, f, y, p, q)
    BY <2>1 DEF AlikeField, AlikeFieldOver
  <2>3. AlikeFlat(v, array, dict) <=> AlikeOver(0, v, array, dict)
    BY <2>1, <2>2 DEF AlikeFlat, Alike, AlikeOver, AlikeFieldOver
  <2> QED BY <1>1, <2>3 DEF AlikeAt
<1>2. CASE k = 1
  <2>1. \A x, a, d : AlikeAt(1, x, a, d) <=> AlikeFlat(x, a, d)
    BY DEF AlikeAt
  <2>2. \A class, f, x, a, d : AlikeField(AlikeFlat, class, f, x, a, d)
                                   <=> AlikeFieldOver(1, class, f, x, a, d)
    BY <2>1 DEF AlikeField, AlikeFieldOver
  <2>3. AlikeInner(v, array, dict) <=> AlikeOver(1, v, array, dict)
    BY <2>1, <2>2 DEF AlikeInner, Alike, AlikeOver, AlikeFieldOver
  <2> QED BY <1>2, <2>3 DEF AlikeAt
<1>3. CASE k = 2
  <2>1. \A x, a, d : AlikeAt(2, x, a, d) <=> AlikeInner(x, a, d)
    BY DEF AlikeAt
  <2>2. \A class, f, x, a, d : AlikeField(AlikeInner, class, f, x, a, d)
                                   <=> AlikeFieldOver(2, class, f, x, a, d)
    BY <2>1 DEF AlikeField, AlikeFieldOver
  <2>3. Alike(AlikeInner, v, array, dict) <=> AlikeOver(2, v, array, dict)
    BY <2>1, <2>2 DEF Alike, AlikeOver, AlikeFieldOver
  <2> QED BY <1>3, <2>3 DEF AlikeAt
<1> QED BY <1>1, <1>2, <1>3

-----------------------------------------------------------------------------
(* Arrays.                                                                 *)

\* What arrays keep of the objects of a depth: those that are written as
\* nothing are activities of no type.
ArraysKeep(k) ==
    \A of \in DOMAIN Classes : \A y :
        HoldsAt(k, of, y) =>
            /\ y = <<"object", of, y[3]>>
            /\ ReadAt(k, of, WriteAt(k, y)) = EssenceAt(k, y)
            /\ \/ of = "UserActivity" /\ WriteAt(k, y) = Nil /\ EssenceAt(k, y) = Nil
               \/ ~Falsy(WriteAt(k, y))

\* And so of a field.
LEMMA FieldKept ==
    ASSUME NEW k \in 0 .. 2, ArraysKeep(k), NEW class, NEW f, FieldSound(class, f),
           NEW x, FitsOver(k, f, x)
    PROVE  DecodeOver(k, "list", f, EncodeOver(k, f, x)) = CanonOver(k, f, x)
<1> DEFINE w == EncodeOver(k, f, x)
           r == DecodeOver(k, "list", f, w)
           c == CanonOver(k, f, x)
<1>0. SUFFICES r = c
  OBVIOUS
<1>1. CASE f.kind \in {"plain", "enum"}
  <2>1. w = x
    BY <1>1 DEF EncodeOver, Encode
  <2> HIDE DEF w
  <2> QED BY <1>1, <2>1 DEF DecodeOver, Decode, CanonOver, Canon
<1>2. CASE f.kind = "time"
  <2>1. r = Nil
    <3> HIDE DEF w
    <3> QED BY <1>2 DEF DecodeOver, Decode
  <2>2. c = Nil
    BY <1>2 DEF CanonOver, Canon
  <2> QED BY <2>1, <2>2
<1>3. CASE f.kind = "stats"
  <2>1. w = <<"keys", x[2] \ {"alien"}>>
    BY <1>3 DEF EncodeOver, Encode
  <2>2. c = <<"keys", x[2] \ {"alien"}>>
    BY <1>3 DEF CanonOver, Canon
  <2>3. "alien" \notin w[2]
    BY <2>1
  <2> HIDE DEF w, c
  <2>4. r = w
    BY <1>3, <2>3 DEF DecodeOver, Decode
  <2> QED BY <2>1, <2>2, <2>4
<1>4. CASE f.kind = "list" /\ x = Nil
  <2>1. w = Nil
    BY <1>4 DEF EncodeOver, Encode
  <2>2. c = Nil
    BY <1>4 DEF CanonOver, Canon
  <2>3. f.default = Nil
    BY <1>4 DEF FitsOver, Fits, Nil
  <2>4. Missing(f) = Nil
    BY <1>4, <2>3 DEF Missing, Default
  <2> HIDE DEF w, c
  <2>5. r = Nil
    BY <1>4, <2>1, <2>4 DEF DecodeOver, Decode, Falsy, Nil
  <2> QED BY <2>2, <2>5
<1>5. CASE f.kind = "list" /\ x # Nil
  <2>1. x = <<"list", x[2]>> /\ \A i \in DOMAIN x[2] : HoldsAt(k, f.of, x[2][i])
    BY <1>5 DEF FitsOver, Fits
  <2>2. f.of \in DOMAIN Classes
    BY <1>5 DEF FieldSound
  <2> DEFINE arrays == [i \in DOMAIN x[2] |-> WriteAt(k, x[2][i])]
             read == [i \in DOMAIN arrays |-> ReadAt(k, f.of, arrays[i])]
             items == [i \in DOMAIN x[2] |-> EssenceAt(k, x[2][i])]
  <2>3. w = <<"list", arrays>>
    BY <1>5 DEF EncodeOver, Encode
  <2>4. c = IF Raises \in ToSet(items) THEN Raises ELSE <<"list", items>>
    BY <1>5 DEF CanonOver, Canon
  <2>5. read = items
    BY <2>1, <2>2 DEF ArraysKeep
  <2> HIDE DEF w, c
  <2>6. r = IF Raises \in ToSet(read) THEN Raises ELSE <<"list", read>>
    <3> HIDE DEF arrays
    <3> QED BY <1>5, <2>3 DEF DecodeOver, Decode
  <2> HIDE DEF read, items, r
  <2> QED BY <2>4, <2>5, <2>6 DEF r, c
<1>6. CASE f.kind \in {"model", "modelOpt"} /\ x = Nil
  <2>1. w = Nil
    BY <1>6 DEF EncodeOver, Encode
  <2>2. c = Nil
    BY <1>6 DEF CanonOver, Canon
  <2>3. f.of \in DOMAIN Classes /\ ~HoldsAt(k, f.of, x)
    BY <1>6 DEF FieldSound, ArraysKeep, Nil
  <2>4. f.default = Nil /\ f.kind # "model"
    BY <1>6, <2>3 DEF FitsOver, Fits
  <2>5. Missing(f) = Nil
    BY <2>4 DEF Missing, Default
  <2> HIDE DEF w, c
  <2>6. r = Nil
    BY <1>6, <2>1, <2>5 DEF DecodeOver, Decode, Falsy
  <2> QED BY <2>2, <2>6
<1>7. CASE f.kind \in {"model", "modelOpt"} /\ x # Nil
  <2>1. HoldsAt(k, f.of, x) /\ f.of \in DOMAIN Classes
    BY <1>7 DEF FitsOver, Fits, FieldSound
  <2>2. w = WriteAt(k, x)
    BY <1>7 DEF EncodeOver, Encode
  <2>3. c = EssenceAt(k, x)
    BY <1>7 DEF CanonOver, Canon
  <2> HIDE DEF w, c
  <2>4. CASE f.of = "UserActivity" /\ w = Nil /\ c = Nil
    <3>1. f.kind = "modelOpt" /\ f.default = Nil
      BY <1>7, <2>4 DEF FieldSound
    <3>2. Missing(f) = Nil
      BY <3>1 DEF Missing, Default
    <3>3. r = Nil
      BY <1>7, <2>4, <3>2 DEF DecodeOver, Decode, Falsy
    <3> QED BY <2>4, <3>3
  <2>5. CASE ~Falsy(w)
    <3>1. r = ReadAt(k, f.of, w)
      BY <1>7, <2>5 DEF DecodeOver, Decode
    <3> QED BY <2>1, <2>2, <2>3, <3>1 DEF ArraysKeep
  <2> QED BY <2>1, <2>2, <2>3, <2>4, <2>5 DEF ArraysKeep
<1>8. CASE f.kind = "span"
  <2>1. c = x /\ (x = Zero \/ x # Zero)
    BY <1>8 DEF CanonOver, Canon
  <2>2. x \in Scalars /\ (w = IF x = Zero THEN Zero ELSE Ticks(x))
    <3>1. x \in Scalars
      BY <1>8 DEF FitsOver, Fits, FieldSound, Nil, Zero
    <3> QED BY <1>8, <3>1 DEF EncodeOver, Encode, Zero
  <2> HIDE DEF w, c
  <2>3. r = IF Falsy(w) THEN Zero ELSE w[2]
    BY <1>8 DEF DecodeOver, Decode
  <2>4. Falsy(w) <=> x = Zero
    BY <2>2 DEF Falsy, Ticks, Nil, Zero
  <2> QED BY <2>1, <2>2, <2>3, <2>4 DEF Ticks
<1> QED BY <1>1, <1>2, <1>3, <1>4, <1>5, <1>6, <1>7, <1>8 DEF FieldSound


\* An array of so many positions.
Trim(array, positions) ==
    IF array = Nil THEN Nil
    ELSE IF positions < Len(array[2]) THEN <<"list", SubSeq(array[2], 1, positions)>>
    ELSE array

\* Its first positions are those of the array it was.
LEMMA Trimmed ==
    ASSUME NEW n \in Nat, NEW arr, arr = [i \in 1 .. n |-> arr[i]], NEW positions \in Nat
    PROVE  \E sent : /\ Trim(<<"list", arr>>, positions) = <<"list", sent>>
                     /\ Len(sent) = IF positions < n THEN positions ELSE n
                     /\ \A i \in 1 .. n : i <= positions => sent[i] = arr[i]
<1> DEFINE S == {arr[i] : i \in 1 .. n}
<1>1. arr \in [1 .. n -> S]
  OBVIOUS
<1>2. arr \in Seq(S)
  <2> HIDE DEF S
  <2> QED BY <1>1
<1>3. Len(arr) = n
  BY <1>1, <1>2, LenProperties
<1> DEFINE sent == IF positions < Len(arr) THEN SubSeq(arr, 1, positions) ELSE arr
<1>4. Trim(<<"list", arr>>, positions) = <<"list", sent>>
  <2>1. <<"list", arr>> # Nil /\ <<"list", arr>>[2] = arr
    BY DEF Nil
  <2> QED BY <2>1 DEF Trim
<1>5. Len(sent) = IF positions < n THEN positions ELSE n
  BY <1>2, <1>3
<1>6. \A i \in 1 .. n : i <= positions => sent[i] = arr[i]
  BY <1>2, <1>3
<1> QED BY <1>4, <1>5, <1>6

\* An object of the next depth is read from the positions sent of its array.
LEMMA ObjectKept ==
    ASSUME NEW k \in 0 .. 2, ArraysKeep(k),
           NEW class \in DOMAIN Classes, class # "UserActivity",
           NEW v, HoldsOver(k, class, v), NEW positions \in Nat
    PROVE  /\ ReadOver(k, class, Trim(WriteOver(k, v), positions)) = ReduceOver(k, v, positions)
           /\ Trim(WriteOver(k, v), Len(Classes[class])) = WriteOver(k, v)
           /\ ~Falsy(WriteOver(k, v)) /\ Len(Classes[class]) \in Nat
<1> DEFINE fs == Classes[class]
           arr == [i \in DOMAIN fs |-> EncodeOver(k, fs[i], v[3][fs[i].name])]
<1>1. /\ v[2] = class /\ v = <<"object", class, v[3]>>
      /\ \A i \in DOMAIN fs : FitsOver(k, fs[i], v[3][fs[i].name])
  <2>1. v = <<"object", class, v[3]>>
    BY DEF HoldsOver, Object
  <2>2. \A i \in DOMAIN fs : FitsOver(k, fs[i], v[3][fs[i].name])
    BY DEF HoldsOver, Object, FitsOver
  <2> QED BY <2>1, <2>2
<1>2. WriteOver(k, v) = <<"list", arr>>
  BY <1>1 DEF WriteOver, Write, EncodeOver
<1>3. DOMAIN fs = 1 .. Len(fs) /\ Len(fs) \in Nat /\ Len(fs) > 0
  BY AllSound DEF ClassSound
<1>4. PICK sent : /\ Trim(<<"list", arr>>, positions) = <<"list", sent>>
                  /\ Len(sent) = IF positions < Len(fs) THEN positions ELSE Len(fs)
                  /\ \A i \in 1 .. Len(fs) : i <= positions => sent[i] = arr[i]
  <2>1. arr = [i \in 1 .. Len(fs) |-> arr[i]]
    BY <1>3
  <2> HIDE DEF arr, fs
  <2> QED BY <1>3, <2>1, Trimmed
<1> DEFINE d == <<"list", sent>>
           taken(n) == LET f == FieldOf(class, n) IN
                       IF Given(f, d) THEN DecodeOver(k, d[1], f, Got(f, d)) ELSE Missing(f)
           kept(n) == LET f == fs[Place(class, n)] IN
                      IF Place(class, n) <= positions THEN CanonOver(k, f, v[3][n]) ELSE Missing(f)
<1>5. ReadOver(k, class, d) = Build(class, [n \in FieldNames(class) |-> taken(n)])
  BY DEF ReadOver, Read, DecodeOver
<1>6. ReduceOver(k, v, positions) = Build(class, [n \in FieldNames(class) |-> kept(n)])
  BY <1>1 DEF ReduceOver, Reduce, CanonOver
<1>7. ASSUME NEW n \in FieldNames(class) PROVE taken(n) = kept(n)
  <2> DEFINE i == Place(class, n)
             f == FieldOf(class, n)
  <2>1. /\ i \in DOMAIN fs /\ f = fs[i] /\ fs[i].name = n /\ f.at = i - 1 /\ FieldSound(class, f)
    BY Access
  <2>2. Given(f, d) <=> i <= positions
    BY <1>3, <1>4, <2>1 DEF Given
  <2>3. CASE i <= positions
    <3>1. Got(f, d) = arr[i]
      BY <1>3, <1>4, <2>1, <2>3 DEF Got
    <3>2. arr[i] = EncodeOver(k, f, v[3][n]) /\ FitsOver(k, f, v[3][n])
      BY <1>1, <2>1
    <3>3. DecodeOver(k, "list", f, EncodeOver(k, f, v[3][n])) = CanonOver(k, f, v[3][n])
      BY <2>1, <3>2, FieldKept
    <3> QED BY <2>1, <2>2, <2>3, <3>1, <3>2, <3>3
  <2>4. CASE ~(i <= positions)
    BY <2>1, <2>2, <2>4
  <2> QED BY <2>3, <2>4
<1>8. [n \in FieldNames(class) |-> taken(n)] = [n \in FieldNames(class) |-> kept(n)]
  BY <1>7
<1>9. Len(arr) = Len(fs) /\ Len(arr) > 0
  <2> DEFINE S == {arr[i] : i \in DOMAIN fs}
  <2>1. arr \in [1 .. Len(fs) -> S]
    BY <1>3
  <2>2. arr \in Seq(S)
    BY <1>3, <2>1
  <2> QED BY <1>3, <2>1, <2>2, LenProperties
<1>10. Trim(WriteOver(k, v), Len(fs)) = WriteOver(k, v)
  <2> HIDE DEF arr, fs
  <2> QED BY <1>2, <1>3, <1>9 DEF Trim, Nil
<1>11. ~Falsy(WriteOver(k, v))
  <2> HIDE DEF arr
  <2> QED BY <1>2, <1>9 DEF Falsy, Nil, Zero
<1> HIDE DEF taken, kept, d
<1> QED BY <1>2, <1>3, <1>4, <1>5, <1>6, <1>8, <1>10, <1>11 DEF d


\* An activity is written with the fields of its type and read back from them.
LEMMA ActivityKept ==
    ASSUME NEW x, FitsActivity(x), NEW positions \in Nat
    PROVE  LET v == <<"object", "UserActivity", x>>
               known == x.activity_type \in {"v"} \X ActivityTypes
           IN  /\ ReadActivity(Trim(WriteActivity(x), positions)) =
                    IF known /\ positions >= 2 THEN v ELSE Nil
               /\ Trim(WriteActivity(x), 8) = WriteActivity(x)
               /\ WriteActivity(x) = Nil \/ ~Falsy(WriteActivity(x))
               /\ WriteActivity(x) = Nil => ~known
<1> DEFINE v == <<"object", "UserActivity", x>>
           type == x.activity_type[2]
           names == Written(type)
           given == [i \in DOMAIN names |-> x[names[i]]]
           pair == <<x.activity_type, <<"list", given>>>>
<1>1. CASE x.activity_type = Nil
  <2>1. WriteActivity(x) = Nil
    BY <1>1 DEF WriteActivity
  <2>2. Trim(Nil, positions) = Nil /\ Trim(Nil, 8) = Nil /\ ReadActivity(Nil) = Nil
    BY DEF Trim, ReadActivity
  <2>3. Nil \notin {"v"} \X ActivityTypes
    BY DEF Nil
  <2> QED BY <1>1, <2>1, <2>2, <2>3
<1>2. CASE x.activity_type # Nil
  <2>1. x.activity_type = <<"v", type>>
    BY <1>2 DEF FitsActivity, Names
  <2>2. WriteActivity(x) = <<"list", pair>>
    BY <1>2 DEF WriteActivity
  <2>3. <<"list", pair>> # Nil /\ <<"list", pair>>[2] = pair /\ Len(pair) = 2 /\ ~Falsy(<<"list", pair>>)
    BY DEF Nil, Zero, Falsy
  <2>4. Trim(<<"list", pair>>, 8) = <<"list", pair>>
    <3> HIDE DEF pair
    <3> QED BY <2>3 DEF Trim
  <2>5. CASE positions < 2
    <3>1. Trim(<<"list", pair>>, positions) = <<"list", SubSeq(pair, 1, positions)>>
      <4> HIDE DEF pair
      <4> QED BY <2>3, <2>5 DEF Trim
    <3>2. Len(SubSeq(pair, 1, positions)) < 2
      <4> DEFINE S == {pair[1], pair[2]}
      <4>1. pair \in Seq(S)
        OBVIOUS
      <4> HIDE DEF pair, S
      <4> QED BY <4>1, <2>3, <2>5
    <3>3. ReadActivity(<<"list", SubSeq(pair, 1, positions)>>) = Nil
      <4> DEFINE sent == SubSeq(pair, 1, positions)
      <4>1. Len(sent) < 2
        BY <3>2
      <4> HIDE DEF sent
      <4>2. ReadActivity(<<"list", sent>>) = Nil
        BY <4>1 DEF ReadActivity, Nil
      <4> QED BY <4>2 DEF sent
    <3> HIDE DEF pair, type
    <3> QED BY <2>2, <2>3, <2>4, <2>5, <3>1, <3>3
  <2>6. CASE positions >= 2
    <3>1. Trim(<<"list", pair>>, positions) = <<"list", pair>>
      <4> HIDE DEF pair
      <4> QED BY <2>3, <2>6 DEF Trim
    <3>2. <<"list", pair>>[1] = "list" /\ pair[1][2] = type /\ pair[2][2] = given
      BY <2>1
    <3> DEFINE back == [n \in DOMAIN NoActivity |->
                 IF n = "activity_type" THEN Value(type)
                 ELSE IF \E i \in DOMAIN given \cap DOMAIN Written(type) : Written(type)[i] = n
                 THEN given[CHOOSE i \in DOMAIN given : Written(type)[i] = n]
                 ELSE Zero]
    <3>3. ReadActivity(<<"list", pair>>) =
            IF type \notin ActivityTypes THEN Nil ELSE <<"object", "UserActivity", back>>
      <4> DEFINE d == <<"list", pair>>
      <4>1. d # Nil /\ d[1] = "list" /\ ~(Len(d[2]) < 2) /\ d[2][1][2] = type /\ d[2][2][2] = given
        BY <2>3, <3>2
      <4> HIDE DEF d, pair, type, given
      <4>2. ReadActivity(d) = IF type \notin ActivityTypes THEN Nil ELSE <<"object", "UserActivity", back>>
        BY <4>1 DEF ReadActivity
      <4> QED BY <4>2 DEF d
    <3>4. ASSUME type \in ActivityTypes PROVE back = x
      <4>1. x \in [DOMAIN NoActivity -> {Nil} \cup Scalars]
        BY DEF FitsActivity
      <4>2. ASSUME NEW n \in DOMAIN NoActivity PROVE back[n] = x[n]
        <5>1. CASE n = "activity_type"
          BY <2>1, <5>1 DEF Value
        <5>2. CASE n # "activity_type" /\ \E i \in DOMAIN names : names[i] = n
          <6>1. back[n] = given[CHOOSE i \in DOMAIN given : names[i] = n]
            BY <5>2
          <6>2. PICK i \in DOMAIN names :
                  names[i] = n /\ given[CHOOSE j \in DOMAIN given : names[j] = n] = given[i]
            BY <5>2
          <6> QED BY <6>1, <6>2
        <5>3. CASE n # "activity_type" /\ ~ \E i \in DOMAIN names : names[i] = n
          <6>1. back[n] = Zero
            BY <5>3
          <6>2. n \notin ToSet(names)
            BY <5>3 DEF ToSet
          <6>3. x.activity_type \in {"v"} \X ActivityTypes
            BY <2>1, <3>4
          <6>4. x[n] = Zero
            BY <4>1, <5>3, <6>2, <6>3 DEF FitsActivity
          <6> QED BY <6>1, <6>4
        <5> QED BY <5>1, <5>2, <5>3
      <4>3. back = [n \in DOMAIN NoActivity |-> back[n]]
        OBVIOUS
      <4> HIDE DEF back
      <4> QED BY <4>1, <4>2, <4>3
    <3>5. x.activity_type \in {"v"} \X ActivityTypes <=> type \in ActivityTypes
      BY <2>1
    <3> HIDE DEF back, pair, type
    <3> QED BY <2>2, <2>3, <2>4, <2>6, <3>1, <3>3, <3>4, <3>5
  <2> QED BY <2>5, <2>6
<1> QED BY <1>1, <1>2


\* So an object of any class is, that of the next depth.
LEMMA ObjectRead ==
    ASSUME NEW k \in 0 .. 2, ArraysKeep(k), NEW class \in DOMAIN Classes,
           NEW v, HoldsOver(k, class, v), NEW positions \in Nat
    PROVE  LET w == WriteOver(k, v)
               all == Len(Classes[class])
           IN  /\ v = <<"object", class, v[3]>>
               /\ ReadOver(k, class, Trim(w, positions)) = ReduceOver(k, v, positions)
               /\ Trim(w, all) = w /\ all \in Nat
               /\ (class = "UserActivity" /\ w = Nil /\ ReduceOver(k, v, all) = Nil) \/ ~Falsy(w)
<1>1. v = <<"object", class, v[3]>>
  BY DEF HoldsOver, Object
<1>2. CASE class # "UserActivity"
  BY <1>1, <1>2, ObjectKept
<1>3. CASE class = "UserActivity"
  <2>1. v[2] = "UserActivity" /\ v = <<"object", "UserActivity", v[3]>>
    BY <1>1, <1>3
  <2>2. FitsActivity(v[3])
    BY <1>3 DEF HoldsOver, Object
  <2>3. WriteOver(k, v) = WriteActivity(v[3])
    BY <2>1 DEF WriteOver, Write
  <2>4. \A d : ReadOver(k, class, d) = ReadActivity(d)
    BY <1>3 DEF ReadOver, Read
  <2>5. Len(Classes[class]) = 8
    <3>1. Classes[class] = UserActivity
      BY <1>3 DEF Classes
    <3> QED BY <3>1 DEF UserActivity
  <2> DEFINE known == v[3].activity_type \in {"v"} \X ActivityTypes
  <2>6. \A p : ReduceOver(k, v, p) = IF known /\ p >= 2 THEN v ELSE Nil
    BY <2>1 DEF ReduceOver, Reduce
  <2>7. /\ ReadActivity(Trim(WriteActivity(v[3]), positions)) = IF known /\ positions >= 2 THEN v ELSE Nil
        /\ Trim(WriteActivity(v[3]), 8) = WriteActivity(v[3])
        /\ WriteActivity(v[3]) = Nil \/ ~Falsy(WriteActivity(v[3]))
        /\ WriteActivity(v[3]) = Nil => ~known
    BY <2>1, <2>2, ActivityKept
  <2> HIDE DEF known
  <2> QED BY <1>1, <1>3, <2>3, <2>4, <2>5, <2>6, <2>7
<1> QED BY <1>2, <1>3

\* What arrays keep of a depth they keep of the next.
LEMMA ArraysRise == \A k \in 0 .. 2 : ArraysKeep(k) => ArraysKeep(k + 1)
<1> SUFFICES ASSUME NEW k \in 0 .. 2, ArraysKeep(k),
                    NEW of \in DOMAIN Classes, NEW y, HoldsAt(k + 1, of, y)
             PROVE  /\ y = <<"object", of, y[3]>>
                    /\ ReadAt(k + 1, of, WriteAt(k + 1, y)) = EssenceAt(k + 1, y)
                    /\ \/ of = "UserActivity" /\ WriteAt(k + 1, y) = Nil /\ EssenceAt(k + 1, y) = Nil
                       \/ ~Falsy(WriteAt(k + 1, y))
  BY DEF ArraysKeep
<1> DEFINE w == WriteOver(k, y)
           all == Len(Classes[of])
<1>1. HoldsOver(k, of, y)
  BY HoldsRises
<1>2. y = <<"object", of, y[3]>> /\ y[2] = of
  <2>1. y = <<"object", of, y[3]>>
    BY <1>1 DEF HoldsOver, Object
  <2> QED BY <2>1
<1>3. WriteAt(k + 1, y) = w /\ EssenceAt(k + 1, y) = ReduceOver(k, y, all)
  BY <1>2, WriteRises, EssenceRises
<1>4. ReadAt(k + 1, of, w) = ReadOver(k, of, w)
  BY ReadRises
<1>5. all \in Nat /\ Trim(w, all) = w
  BY <1>1, ObjectRead
<1>6. ReadOver(k, of, Trim(w, all)) = ReduceOver(k, y, all)
  BY <1>1, <1>5, ObjectRead
<1>7. (of = "UserActivity" /\ w = Nil /\ ReduceOver(k, y, all) = Nil) \/ ~Falsy(w)
  BY <1>1, ObjectRead
<1> HIDE DEF w, all
<1> QED BY <1>2, <1>3, <1>4, <1>5, <1>6, <1>7

\* So arrays keep what they should of every depth.
LEMMA ArraysKeepAll == ArraysKeep(0) /\ ArraysKeep(1) /\ ArraysKeep(2) /\ ArraysKeep(3)
<1>1. ArraysKeep(0)
  BY DEF ArraysKeep, HoldsAt
<1>2. ArraysKeep(0 + 1)
  BY <1>1, ArraysRise
<1>3. ArraysKeep(1 + 1)
  BY <1>2, ArraysRise
<1>4. ArraysKeep(2 + 1)
  BY <1>3, ArraysRise
<1> QED BY <1>1, <1>2, <1>3, <1>4

\* An object read from so many positions of its array is what these keep of it.
THEOREM ArraySurvives ==
    ASSUME NEW class \in DOMAIN Classes, NEW v, ObjectOf(class, v), NEW positions \in Nat
    PROVE  FromMsgpack(class, Trim(ToMsgpack(v), positions)) = Essence(v, positions)
<1>1. HoldsOver(2, class, v)
  BY HoldsRises DEF HoldsAt
<1>2. \A d : FromMsgpack(class, d) = ReadOver(2, class, d)
  BY ReadRises DEF ReadAt
<1>3. ToMsgpack(v) = WriteOver(2, v)
  BY WriteRises DEF WriteAt
<1>4. Essence(v, positions) = ReduceOver(2, v, positions)
  <2>1. \A y : EssenceAt(2, y) = EssenceInner(y)
    BY DEF EssenceAt
  <2>2. \A f, x : Canon(EssenceInner, f, x) = CanonOver(2, f, x)
    BY <2>1 DEF Canon, CanonOver
  <2> QED BY <2>1, <2>2 DEF Essence, Reduce, ReduceOver, CanonOver
<1>5. ReadOver(2, class, Trim(WriteOver(2, v), positions)) = ReduceOver(2, v, positions)
  BY <1>1, ArraysKeepAll, ObjectRead
<1> QED BY <1>2, <1>3, <1>4, <1>5

\* Every invocation unpacked was sent, with an object of some class.
LEMMA ReadIsSent ==
    ASSUME IInv, NEW j \in DOMAIN inbox, outbox[inbox[j]].type = "invocation"
    PROVE  /\ \E class \in DOMAIN Classes : ObjectOf(class, outbox[inbox[j]].object)
           /\ outbox[inbox[j]].positions \in Nat
<1>1. outbox \in Streams /\ Len(ends) \in Nat /\ Len(ends) <= Len(outbox)
  BY DEF IInv, TypeInv
<1>2. PICK r \in 0 .. Len(ends) : inbox[j] \in 1 .. r
  BY DEF IInv, ReaderInv, ReadUpTo
<1>3. inbox[j] \in DOMAIN outbox
  BY <1>1, <1>2, FramesAssumption DEF StreamsAssumption
<1> QED BY <1>1, <1>3, ObjectsAssumption

\* Every object read is the one that was written, each field in its place.
THEOREM Objects_Survive == Spec => []ObjectsSurvive
<1>1. IInv => ObjectsSurvive
  <2> SUFFICES ASSUME IInv, NEW j \in DOMAIN inbox, outbox[inbox[j]].type = "invocation"
               PROVE  ReadObject(outbox[inbox[j]]) =
                        Essence(outbox[inbox[j]].object, outbox[inbox[j]].positions)
    BY DEF ObjectsSurvive
  <2> DEFINE m == outbox[inbox[j]]
  <2>1. PICK class \in DOMAIN Classes : ObjectOf(class, m.object)
    BY ReadIsSent
  <2>2. m.positions \in Nat
    BY ReadIsSent
  <2> HIDE DEF m
  <2>3. m.object[1] = "object" /\ m.object[2] = class
    BY <2>1 DEF ObjectOf, Object
  <2>4. Argument(m) = Trim(ToMsgpack(m.object), m.positions)
    BY <2>3 DEF Argument, SerializeArgument, Serialized, Trim
  <2>5. ReadObject(m) = Essence(m.object, m.positions)
    BY <2>1, <2>2, <2>3, <2>4, ArraySurvives DEF ReadObject
  <2> QED BY <2>5 DEF m
<1> QED BY <1>1, Layout, PTL

-----------------------------------------------------------------------------
(* Dictionaries.                                                           *)

\* What is read of the objects of a depth from an array and a dictionary.
DictsAgree(k) ==
    \A of \in DOMAIN Classes : \A y :
        HoldsAt(k, of, y) =>
            LET a == ReadAt(k, of, WriteAt(k, y))
                d == ReadAt(k, of, DictAt(k, y))
            IN  /\ DictAt(k, y)[1] = "dict"
                /\ a = Raises <=> d = Raises
                /\ AlikeAt(k, y, a, d)

\* A field's value in a dictionary, and what is read of it.
InDict(k, x) ==
    CASE x[1] = "object" -> DictAt(k, x)
      [] x[1] = "list" -> <<"list", [i \in DOMAIN x[2] |-> DictAt(k, x[2][i])]>>
      [] OTHER -> x
FromDict(k, f, x) ==
    IF f.keeps \/ ~Falsy(InDict(k, x)) THEN DecodeOver(k, "dict", f, InDict(k, x)) ELSE Missing(f)

\* A scalar that is taken for a missing one is its default, or slips.
LEMMA ScalarAgrees ==
    ASSUME NEW k \in 0 .. 2, NEW class, NEW f, FieldSound(class, f), f.kind \in {"plain", "enum"},
           NEW x, FitsOver(k, f, x)
    PROVE  LET a == CanonOver(k, f, x)
               d == FromDict(k, f, x)
           IN  (a = Raises <=> d = Raises) /\ AlikeFieldOver(k, class, f, x, a, d)
<1> DEFINE a == CanonOver(k, f, x)
           d == FromDict(k, f, x)
<1>1. \/ x = Nil /\ f.default = Nil
      \/ x = Zero
      \/ x = <<"v", x[2]>>
  BY DEF FitsOver, Fits, Scalars, Names
<1>2. InDict(k, x) = x
  BY <1>1 DEF InDict, Nil, Zero
<1>3. a = IF f.kind = "enum" /\ x = Alien THEN Raises ELSE x
  BY DEF CanonOver, Canon
<1>4. DecodeOver(k, "dict", f, x) = IF f.kind = "enum" /\ x = Alien THEN Raises ELSE x
  BY DEF DecodeOver, Decode
<1>5. Missing(f) = f.default
  BY DEF Missing, Default
<1>6. CASE f.keeps \/ ~Falsy(x)
  <2>1. d = a
    BY <1>2, <1>3, <1>4, <1>6 DEF FromDict
  <2> QED BY <2>1 DEF AlikeFieldOver, AlikeField
<1>7. CASE ~f.keeps /\ Falsy(x)
  <2>1. d = f.default
    BY <1>2, <1>5, <1>7 DEF FromDict
  <2>2. x = Nil \/ x = Zero
    BY <1>1, <1>7 DEF Falsy, Nil, Zero
  <2>3. a = x
    BY <1>3, <2>2 DEF Alien, Value, Nil, Zero
  <2>4. a = d \/ (x = Zero /\ <<class, f.name>> \in Slips)
    BY <1>1, <1>7, <2>1, <2>2, <2>3 DEF FieldSound, Nil, Zero
  <2>5. a # Raises /\ d # Raises
    BY <2>1, <2>2, <2>3 DEF Raises, Nil, Zero, Value, FieldSound
  <2> QED BY <2>4, <2>5 DEF AlikeFieldOver, AlikeField
<1> QED BY <1>6, <1>7


\* Statistics are kept whole by a dictionary, durations are lost in it, and
\* times in both.
LEMMA StatsAndTimesAgree ==
    ASSUME NEW k \in 0 .. 2, NEW class, NEW f, FieldSound(class, f), f.kind \in {"stats", "time", "span"},
           NEW x, FitsOver(k, f, x)
    PROVE  LET a == CanonOver(k, f, x)
               d == FromDict(k, f, x)
           IN  (a = Raises <=> d = Raises) /\ AlikeFieldOver(k, class, f, x, a, d)
<1> DEFINE a == CanonOver(k, f, x)
           d == FromDict(k, f, x)
<1>1. CASE f.kind = "stats"
  <2>1. f.default = <<"keys", {}>> /\ Missing(f) = <<"keys", {}>>
    BY <1>1 DEF FieldSound, Missing, Default
  <2>2. x = <<"keys", x[2]>>
    BY <1>1, <2>1 DEF FitsOver, Fits, Nil
  <2>3. InDict(k, x) = x
    BY <2>2 DEF InDict
  <2>4. DecodeOver(k, "dict", f, x) = x
    BY <1>1 DEF DecodeOver, Decode
  <2>5. d = x
    <3>1. CASE Falsy(x)
      <4>1. x = <<"keys", {}>>
        BY <2>2, <3>1 DEF Falsy, Nil, Zero
      <4> QED BY <2>1, <2>3, <2>4, <4>1 DEF FromDict
    <3>2. CASE ~Falsy(x)
      BY <2>3, <2>4, <3>2 DEF FromDict
    <3> QED BY <3>1, <3>2
  <2>6. a = <<"keys", x[2] \ {"alien"}>>
    BY <1>1 DEF CanonOver, Canon
  <2>7. a # Raises /\ x # Raises
    BY <2>2, <2>6 DEF Raises
  <2> QED BY <1>1, <2>5, <2>7 DEF AlikeFieldOver, AlikeField
<1>2. CASE f.kind = "time"
  <2>1. f.default = Nil /\ Missing(f) = Nil
    BY <1>2 DEF FieldSound, Missing, Default
  <2>2. \A y : DecodeOver(k, "dict", f, y) = Nil
    BY <1>2 DEF DecodeOver, Decode
  <2>3. d = Nil
    BY <2>1, <2>2 DEF FromDict
  <2>4. a = Nil
    BY <1>2 DEF CanonOver, Canon
  <2> QED BY <2>3, <2>4 DEF AlikeFieldOver, AlikeField
<1>3. CASE f.kind = "span"
  <2>1. f.default = Zero /\ Missing(f) = Zero
    BY <1>3 DEF FieldSound, Missing, Default
  <2>2. x \in Scalars
    BY <1>3, <2>1 DEF FitsOver, Fits, Nil, Zero
  <2>3. InDict(k, x) = x /\ x[1] # "ticks"
    BY <2>2 DEF InDict, Scalars, Names, Zero
  <2>4. DecodeOver(k, "dict", f, x) = Zero
    BY <1>3, <2>3 DEF DecodeOver, Decode
  <2>5. d = Zero
    BY <2>1, <2>3, <2>4 DEF FromDict
  <2>6. a = x
    BY <1>3 DEF CanonOver, Canon
  <2>7. a # Raises /\ d # Raises
    BY <2>2, <2>5, <2>6 DEF Raises, Scalars, Names, Zero
  <2> QED BY <1>3, <2>5, <2>7 DEF AlikeFieldOver, AlikeField
<1> QED BY <1>1, <1>2, <1>3

\* The objects of a list agree one by one.
LEMMA ListAgrees ==
    ASSUME NEW k \in 0 .. 2, ArraysKeep(k), DictsAgree(k),
           NEW class, NEW f, FieldSound(class, f), f.kind = "list", NEW x, FitsOver(k, f, x)
    PROVE  LET a == CanonOver(k, f, x)
               d == FromDict(k, f, x)
           IN  (a = Raises <=> d = Raises) /\ AlikeFieldOver(k, class, f, x, a, d)
<1> DEFINE a == CanonOver(k, f, x)
           d == FromDict(k, f, x)
<1>0. SUFFICES (a = Raises <=> d = Raises) /\ AlikeFieldOver(k, class, f, x, a, d)
  OBVIOUS
<1>1. Missing(f) = f.default
  BY DEF Missing, Default
<1>2. CASE x = Nil
  <2>1. f.default = Nil /\ f.keeps = TRUE
    <3>1. f.default = Nil
      BY <1>2 DEF FitsOver, Fits, Nil
    <3> QED BY <3>1 DEF FieldSound, Nil
  <2>2. InDict(k, x) = Nil
    BY <1>2 DEF InDict, Nil
  <2>3. DecodeOver(k, "dict", f, Nil) = Nil
    BY <1>1, <2>1 DEF DecodeOver, Decode, Falsy, Nil
  <2>4. d = Nil
    BY <1>1, <2>1, <2>2, <2>3 DEF FromDict
  <2>5. a = Nil
    BY <1>2 DEF CanonOver, Canon
  <2> HIDE DEF a, d
  <2> QED BY <2>4, <2>5 DEF AlikeFieldOver, AlikeField
<1>3. CASE x # Nil
  <2>1. x = <<"list", x[2]>> /\ \A i \in DOMAIN x[2] : HoldsAt(k, f.of, x[2][i])
    BY <1>3 DEF FitsOver, Fits
  <2>2. f.of \in DOMAIN Classes
    BY DEF FieldSound
  <2> DEFINE items == [i \in DOMAIN x[2] |-> EssenceAt(k, x[2][i])]
             dicts == [i \in DOMAIN x[2] |-> DictAt(k, x[2][i])]
             read == [i \in DOMAIN dicts |-> ReadAt(k, f.of, dicts[i])]
  <2>3. a = IF Raises \in ToSet(items) THEN Raises ELSE <<"list", items>>
    BY <1>3 DEF CanonOver, Canon
  <2>4. InDict(k, x) = <<"list", dicts>>
    <3>1. x[1] = "list"
      BY <2>1
    <3> QED BY <3>1 DEF InDict
  <2>5. DecodeOver(k, "dict", f, <<"list", dicts>>) =
          IF Raises \in ToSet(read) THEN Raises ELSE <<"list", read>>
    <3> HIDE DEF dicts
    <3> QED BY DEF DecodeOver, Decode
  <2>6. \A i \in DOMAIN x[2] : /\ items[i] = Raises <=> read[i] = Raises
                               /\ AlikeAt(k, x[2][i], items[i], read[i])
    BY <2>1, <2>2 DEF ArraysKeep, DictsAgree
  <2>7. DOMAIN items = DOMAIN x[2] /\ DOMAIN read = DOMAIN x[2]
    OBVIOUS
  <2>8. Raises \in ToSet(items) <=> Raises \in ToSet(read)
    <3> HIDE DEF items, read
    <3> QED BY <2>6, <2>7 DEF ToSet
  <2>9. DOMAIN dicts = DOMAIN x[2]
    OBVIOUS
  <2> HIDE DEF items, read, dicts
  <2>10. <<"list", items>> # Raises /\ <<"list", read>> # Raises /\ <<"list", <<>>>> # Raises
    BY DEF Raises
  <2>11. CASE f.keeps \/ ~Falsy(<<"list", dicts>>)
    <3>1. d = IF Raises \in ToSet(read) THEN Raises ELSE <<"list", read>>
      BY <2>4, <2>5, <2>11 DEF FromDict
    <3>2. a = Raises <=> d = Raises
      BY <2>3, <2>8, <2>10, <3>1
    <3>3. CASE a = Raises
      BY <3>2, <3>3 DEF AlikeFieldOver, AlikeField
    <3>4. CASE a # Raises
      <4>1. a = <<"list", items>> /\ d = <<"list", read>>
        BY <2>3, <2>8, <3>1, <3>4
      <4>2. a[2] = items /\ d[2] = read
        BY <4>1
      <4> HIDE DEF a, d
      <4> QED BY <2>6, <2>7, <3>2, <4>2 DEF AlikeFieldOver, AlikeField
    <3> QED BY <3>3, <3>4
  <2>12. CASE ~f.keeps /\ Falsy(<<"list", dicts>>)
    <3>1. d = f.default
      BY <1>1, <2>4, <2>12 DEF FromDict
    <3>2. f.default = <<"list", <<>>>>
      BY <2>12 DEF FieldSound
    <3>3. dicts = <<>>
      BY <2>12 DEF Falsy, Nil, Zero
    <3>4. DOMAIN x[2] = {}
      BY <2>9, <3>3
    <3>5. ToSet(items) = {} /\ items = <<>>
      <4>1. items = [i \in DOMAIN x[2] |-> EssenceAt(k, x[2][i])]
        BY DEF items
      <4>2. items = <<>>
        BY <3>4, <4>1
      <4> QED BY <2>7, <3>4, <4>2 DEF ToSet
    <3>6. a = <<"list", <<>>>>
      BY <2>3, <3>5
    <3> HIDE DEF a, d
    <3> QED BY <2>10, <3>1, <3>2, <3>6 DEF AlikeFieldOver, AlikeField
  <2> QED BY <2>11, <2>12
<1> QED BY <1>2, <1>3

\* So does an object in a field.
LEMMA ModelAgrees ==
    ASSUME NEW k \in 0 .. 2, ArraysKeep(k), DictsAgree(k), NEW class,
           NEW f, FieldSound(class, f), f.kind \in {"model", "modelOpt"}, NEW x, FitsOver(k, f, x)
    PROVE  LET a == CanonOver(k, f, x)
               d == FromDict(k, f, x)
           IN  (a = Raises <=> d = Raises) /\ AlikeFieldOver(k, class, f, x, a, d)
<1> DEFINE a == CanonOver(k, f, x)
           d == FromDict(k, f, x)
<1>0. SUFFICES (a = Raises <=> d = Raises) /\ AlikeFieldOver(k, class, f, x, a, d)
  OBVIOUS
<1>1. f.of \in DOMAIN Classes
  BY DEF FieldSound
<1>2. CASE x = Nil
  <2>1. ~HoldsAt(k, f.of, x)
    BY <1>1, <1>2 DEF ArraysKeep, Nil
  <2>2. f.kind # "model" /\ f.default = Nil
    BY <1>2, <2>1 DEF FitsOver, Fits
  <2>3. Missing(f) = Nil
    BY <2>2 DEF Missing, Default
  <2>4. InDict(k, x) = Nil
    BY <1>2 DEF InDict, Nil
  <2>5. DecodeOver(k, "dict", f, Nil) = Nil
    BY <2>3 DEF DecodeOver, Decode, Falsy
  <2>6. d = Nil
    BY <2>3, <2>4, <2>5 DEF FromDict
  <2>7. a = Nil
    BY <1>2 DEF CanonOver, Canon
  <2> HIDE DEF a, d
  <2> QED BY <2>6, <2>7 DEF AlikeFieldOver, AlikeField
<1>3. CASE x # Nil
  <2>1. HoldsAt(k, f.of, x) /\ x = <<"object", f.of, x[3]>>
    BY <1>1, <1>3 DEF FitsOver, Fits, ArraysKeep
  <2>2. InDict(k, x) = DictAt(k, x)
    <3>1. x[1] = "object"
      BY <2>1
    <3> QED BY <3>1 DEF InDict
  <2>3. DictAt(k, x)[1] = "dict" /\ ~Falsy(DictAt(k, x))
    <3>1. DictAt(k, x)[1] = "dict"
      BY <1>1, <2>1 DEF DictsAgree
    <3> QED BY <3>1 DEF Falsy, Nil, Zero
  <2>4. DecodeOver(k, "dict", f, DictAt(k, x)) = ReadAt(k, f.of, DictAt(k, x))
    BY <2>3 DEF DecodeOver, Decode
  <2>5. d = ReadAt(k, f.of, DictAt(k, x))
    BY <2>2, <2>3, <2>4 DEF FromDict
  <2>6. a = ReadAt(k, f.of, WriteAt(k, x))
    BY <1>1, <1>3, <2>1 DEF CanonOver, Canon, ArraysKeep
  <2> HIDE DEF a, d
  <2> QED BY <1>1, <2>1, <2>5, <2>6 DEF DictsAgree, AlikeFieldOver, AlikeField
<1> QED BY <1>2, <1>3

\* And so does every field.
LEMMA FieldAgrees ==
    ASSUME NEW k \in 0 .. 2, ArraysKeep(k), DictsAgree(k),
           NEW class, NEW f, FieldSound(class, f), NEW x, FitsOver(k, f, x)
    PROVE  LET a == CanonOver(k, f, x)
               d == FromDict(k, f, x)
           IN  (a = Raises <=> d = Raises) /\ AlikeFieldOver(k, class, f, x, a, d)
  BY ScalarAgrees, StatsAndTimesAgree, ListAgrees, ModelAgrees DEF FieldSound


\* An activity agrees but for its type.
LEMMA ActivityAgrees ==
    ASSUME NEW x, FitsActivity(x)
    PROVE  LET v == <<"object", "UserActivity", x>>
               d == ReadActivity(<<"dict", x>>)
           IN  /\ d # Raises
               /\ IF x.activity_type \in {"v"} \X ActivityTypes THEN d = v
                  ELSE d[3].activity_type = Nil
<1> DEFINE back == [n \in DOMAIN NoActivity |->
                 IF n \notin DOMAIN x THEN NoActivity[n]
                 ELSE IF n = "activity_type" /\ x[n] \notin {Value(t) : t \in ActivityTypes} THEN Nil
                 ELSE IF Falsy(x[n]) THEN NoActivity[n] ELSE x[n]]
           known == x.activity_type \in {"v"} \X ActivityTypes
<1>1. ReadActivity(<<"dict", x>>) = <<"object", "UserActivity", back>>
  <2> DEFINE d == <<"dict", x>>
  <2>1. d # Nil /\ d[1] # "list" /\ d[2] = x
    BY DEF Nil
  <2> HIDE DEF d
  <2>2. ReadActivity(d) = <<"object", "UserActivity", back>>
    BY <2>1 DEF ReadActivity
  <2> QED BY <2>2 DEF d
<1>2. "activity_type" \in DOMAIN NoActivity /\ DOMAIN x = DOMAIN NoActivity
  BY DEF NoActivity, FitsActivity
<1>3. known <=> x.activity_type \in {Value(t) : t \in ActivityTypes}
  BY DEF Value
<1>4. CASE known
  <2>1. ASSUME NEW n \in DOMAIN NoActivity PROVE back[n] = x[n]
    <3>1. CASE n = "activity_type"
      <4>1. ~Falsy(x[n])
        BY <1>4, <3>1 DEF Falsy, Nil, Zero
      <4> QED BY <1>2, <1>3, <1>4, <3>1, <4>1
    <3>2. CASE n # "activity_type"
      <4>1. x[n] = Zero \/ x[n] = <<"v", x[n][2]>>
        BY <1>2, <3>2 DEF FitsActivity, Scalars, Names
      <4>2. NoActivity[n] = Zero
        BY <3>2 DEF NoActivity
      <4>3. Falsy(x[n]) => x[n] = Zero
        BY <4>1 DEF Falsy, Nil, Zero
      <4> QED BY <1>2, <3>2, <4>2, <4>3
    <3> QED BY <3>1, <3>2
  <2>2. x = [n \in DOMAIN NoActivity |-> x[n]]
    BY DEF FitsActivity
  <2>3. back = [n \in DOMAIN NoActivity |-> back[n]]
    OBVIOUS
  <2>4. back = x
    <3> HIDE DEF back
    <3> QED BY <2>1, <2>2, <2>3
  <2> HIDE DEF back, known
  <2> QED BY <1>1, <1>4, <2>4 DEF Raises, known
<1>5. CASE ~known
  <2>1. back.activity_type = Nil
    BY <1>2, <1>3, <1>5
  <2> HIDE DEF back, known
  <2> QED BY <1>1, <1>5, <2>1 DEF Raises, known
<1> QED BY <1>4, <1>5

\* The fields of an object of the next depth agree.
LEMMA ObjectAgrees ==
    ASSUME NEW k \in 0 .. 2, ArraysKeep(k), DictsAgree(k),
           NEW class \in DOMAIN Classes, class # "UserActivity", NEW v, HoldsOver(k, class, v)
    PROVE  LET a == ReadOver(k, class, WriteOver(k, v))
               d == ReadOver(k, class, DictOver(k, v))
           IN  (a = Raises <=> d = Raises) /\ AlikeOver(k, v, a, d)
<1> DEFINE fs == Classes[class]
           a == ReadOver(k, class, WriteOver(k, v))
           d == ReadOver(k, class, DictOver(k, v))
           kept(n) == CanonOver(k, FieldOf(class, n), v[3][n])
           taken(n) == FromDict(k, FieldOf(class, n), v[3][n])
           keeps == [n \in FieldNames(class) |-> kept(n)]
           takes == [n \in FieldNames(class) |-> taken(n)]
<1>0. SUFFICES (a = Raises <=> d = Raises) /\ AlikeOver(k, v, a, d)
  OBVIOUS
<1>1. /\ v = <<"object", class, v[3]>> /\ DOMAIN v[3] = FieldNames(class)
      /\ \A i \in DOMAIN fs : FitsOver(k, fs[i], v[3][fs[i].name])
  <2>1. v = <<"object", class, v[3]>> /\ DOMAIN v[3] = FieldNames(class)
    BY DEF HoldsOver, Object
  <2>2. \A i \in DOMAIN fs : FitsOver(k, fs[i], v[3][fs[i].name])
    BY DEF HoldsOver, Object, FitsOver
  <2> QED BY <2>1, <2>2
<1>2. v[2] = class
  BY <1>1
<1>3. a = Build(class, keeps)
  <2>1. a = ReduceOver(k, v, Len(fs))
    BY ObjectKept
  <2> DEFINE reduced == [n \in FieldNames(class) |->
                  LET f == fs[Place(class, n)] IN
                  IF Place(class, n) <= Len(fs) THEN CanonOver(k, f, v[3][n]) ELSE Missing(f)]
  <2>2. ReduceOver(k, v, Len(fs)) = Build(class, reduced)
    BY <1>2 DEF ReduceOver, Reduce, CanonOver
  <2>3. reduced = keeps
    BY Access
  <2> HIDE DEF reduced, keeps
  <2> QED BY <2>1, <2>2, <2>3
<1>4. d = Build(class, takes)
  <2> DEFINE dict == [n \in FieldNames(class) |-> InDict(k, v[3][n])]
             e == <<"dict", dict>>
             read(n) == LET f == FieldOf(class, n) IN
                        IF Given(f, e) THEN DecodeOver(k, e[1], f, Got(f, e)) ELSE Missing(f)
  <2>1. DictOver(k, v) = e
    BY <1>1 DEF DictOver, Dict, InDict
  <2>2. ReadOver(k, class, e) = Build(class, [n \in FieldNames(class) |-> read(n)])
    BY DEF ReadOver, Read, DecodeOver
  <2>3. ASSUME NEW n \in FieldNames(class) PROVE read(n) = taken(n)
    <3> DEFINE f == FieldOf(class, n)
    <3>1. f.name = n
      BY Access
    <3> HIDE DEF f
    <3>2. Got(f, e) = InDict(k, v[3][n])
      BY <3>1 DEF Got
    <3>3. Given(f, e) <=> f.keeps \/ ~Falsy(InDict(k, v[3][n]))
      BY <3>1 DEF Given
    <3>4. e[1] = "dict"
      OBVIOUS
    <3> HIDE DEF e
    <3> QED BY <3>2, <3>3, <3>4 DEF FromDict, f
  <2>4. [n \in FieldNames(class) |-> read(n)] = takes
    BY <2>3
  <2> HIDE DEF read, e, takes
  <2> QED BY <2>1, <2>2, <2>4
<1>5. ASSUME NEW i \in DOMAIN fs
      PROVE  LET n == fs[i].name IN
             /\ n \in FieldNames(class)
             /\ keeps[n] = Raises <=> takes[n] = Raises
             /\ AlikeFieldOver(k, class, fs[i], v[3][n], keeps[n], takes[n])
  <2> DEFINE n == fs[i].name
  <2>1. n \in FieldNames(class) /\ Place(class, n) = i
    BY Named
  <2>2. FieldOf(class, n) = fs[i] /\ FieldSound(class, fs[i])
    BY <2>1, Access
  <2>3. keeps[n] = CanonOver(k, fs[i], v[3][n]) /\ takes[n] = FromDict(k, fs[i], v[3][n])
    BY <2>1, <2>2
  <2>4. FitsOver(k, fs[i], v[3][n])
    BY <1>1
  <2> HIDE DEF keeps, takes, n, fs
  <2> QED BY <2>1, <2>2, <2>3, <2>4, FieldAgrees DEF n
<1>6. \A n \in FieldNames(class) : \E i \in DOMAIN fs : fs[i].name = n
  BY Access
<1>7. DOMAIN keeps = FieldNames(class) /\ DOMAIN takes = FieldNames(class)
  OBVIOUS
<1> HIDE DEF keeps, takes, a, d
<1>8. CASE \E n \in FieldNames(class) : keeps[n] = Raises
  <2>1. \E n \in FieldNames(class) : takes[n] = Raises
    BY <1>5, <1>6, <1>8
  <2>2. a = Raises /\ d = Raises
    BY <1>3, <1>4, <1>7, <1>8, <2>1 DEF Build
  <2> QED BY <2>2 DEF AlikeOver, Alike
<1>9. CASE ~ \E n \in FieldNames(class) : keeps[n] = Raises
  <2>1. ~ \E n \in FieldNames(class) : takes[n] = Raises
    BY <1>5, <1>6, <1>9
  <2>2. a = <<"object", class, keeps>> /\ d = <<"object", class, takes>>
    BY <1>3, <1>4, <1>7, <1>9, <2>1 DEF Build
  <2>3. a[3] = keeps /\ d[3] = takes /\ a # Raises /\ d # Raises
    BY <2>2 DEF Raises
  <2>4. \A i \in DOMAIN fs :
          AlikeFieldOver(k, class, fs[i], v[3][fs[i].name], a[3][fs[i].name], d[3][fs[i].name])
    BY <1>5, <2>3
  <2>5. AlikeOver(k, v, a, d)
    BY <1>2, <2>3, <2>4 DEF AlikeOver, Alike, AlikeFieldOver, AlikeField
  <2> QED BY <2>3, <2>5
<1> QED BY <1>8, <1>9


\* An object of the next depth, of any class, agrees.
LEMMA ObjectsAgree ==
    ASSUME NEW k \in 0 .. 2, ArraysKeep(k), DictsAgree(k),
           NEW class \in DOMAIN Classes, NEW v, HoldsOver(k, class, v)
    PROVE  LET a == ReadOver(k, class, WriteOver(k, v))
               d == ReadOver(k, class, DictOver(k, v))
           IN  /\ DictOver(k, v)[1] = "dict"
               /\ a = Raises <=> d = Raises
               /\ AlikeOver(k, v, a, d)
<1>1. DictOver(k, v)[1] = "dict"
  BY DEF DictOver, Dict
<1>2. CASE class # "UserActivity"
  BY <1>1, <1>2, ObjectAgrees
<1>3. CASE class = "UserActivity"
  <2> DEFINE x == v[3]
             a == ReadOver(k, class, WriteOver(k, v))
             d == ReadOver(k, class, DictOver(k, v))
             known == x.activity_type \in {"v"} \X ActivityTypes
  <2>1. v = <<"object", "UserActivity", x>> /\ v[2] = "UserActivity"
    <3>1. v = <<"object", "UserActivity", x>>
      BY <1>3 DEF HoldsOver, Object
    <3> QED BY <3>1
  <2>2. FitsActivity(x)
    BY <1>3 DEF HoldsOver, Object
  <2>3. \A e : ReadOver(k, class, e) = ReadActivity(e)
    BY <1>3 DEF ReadOver, Read
  <2>4. DictOver(k, v) = <<"dict", x>>
    <3> DEFINE field(n) == CASE x[n][1] = "object" -> DictAt(k, x[n])
                             [] x[n][1] = "list" ->
                                  <<"list", [i \in DOMAIN x[n][2] |-> DictAt(k, x[n][2][i])]>>
                             [] OTHER -> x[n]
    <3>1. DictOver(k, v) = <<"dict", [n \in DOMAIN x |-> field(n)]>>
      BY DEF DictOver, Dict
    <3>2. x \in [DOMAIN NoActivity -> {Nil} \cup Scalars]
      BY <2>2 DEF FitsActivity
    <3>3. ASSUME NEW n \in DOMAIN x PROVE field(n) = x[n]
      <4>1. x[n] = Nil \/ x[n] = Zero \/ x[n] = <<"v", x[n][2]>>
        BY <3>2 DEF Scalars, Names
      <4>2. x[n][1] \in {"nil", "zero", "v"}
        BY <4>1 DEF Nil, Zero
      <4> QED BY <4>2
    <3> HIDE DEF field
    <3> QED BY <3>1, <3>2, <3>3
  <2>5. d # Raises /\ (IF known THEN d = v ELSE d[3].activity_type = Nil)
    BY <2>1, <2>2, <2>3, <2>4, ActivityAgrees
  <2>6. a = IF known THEN v ELSE Nil
    <3>1. /\ ReadActivity(Trim(WriteActivity(x), 8)) = IF known /\ 8 >= 2 THEN v ELSE Nil
          /\ Trim(WriteActivity(x), 8) = WriteActivity(x)
      BY <2>1, <2>2, ActivityKept
    <3>2. WriteOver(k, v) = WriteActivity(x)
      BY <2>1 DEF WriteOver, Write
    <3> HIDE DEF known
    <3> QED BY <2>3, <3>1, <3>2
  <2>7. v # Raises /\ Nil # Raises
    BY <2>1 DEF Raises, Nil
  <2> HIDE DEF a, d, known, x
  <2>8. (a = Raises <=> d = Raises) /\ AlikeOver(k, v, a, d)
    BY <2>1, <2>5, <2>6, <2>7 DEF AlikeOver, Alike
  <2> QED BY <1>1, <2>8 DEF a, d
<1> QED BY <1>2, <1>3

\* What agrees at a depth agrees at the next.
LEMMA DictsRise == \A k \in 0 .. 2 : DictsAgree(k) => DictsAgree(k + 1)
<1> SUFFICES ASSUME NEW k \in 0 .. 2, DictsAgree(k),
                    NEW of \in DOMAIN Classes, NEW y, HoldsAt(k + 1, of, y)
             PROVE  LET a == ReadAt(k + 1, of, WriteAt(k + 1, y))
                        d == ReadAt(k + 1, of, DictAt(k + 1, y))
                    IN  /\ DictAt(k + 1, y)[1] = "dict"
                        /\ a = Raises <=> d = Raises
                        /\ AlikeAt(k + 1, y, a, d)
  BY DEF DictsAgree
<1>1. HoldsOver(k, of, y)
  BY HoldsRises
<1>2. WriteAt(k + 1, y) = WriteOver(k, y) /\ DictAt(k + 1, y) = DictOver(k, y)
  BY WriteRises, DictRises
<1>3. \A e : ReadAt(k + 1, of, e) = ReadOver(k, of, e)
  BY ReadRises
<1>4. \A a, d : AlikeAt(k + 1, y, a, d) <=> AlikeOver(k, y, a, d)
  BY AlikeRises
<1>5. ArraysKeep(k)
  BY ArraysKeepAll
<1> QED BY <1>1, <1>2, <1>3, <1>4, <1>5, ObjectsAgree

\* An object is read alike from its array and from its dictionary.
THEOREM DictionaryAgrees ==
    ASSUME NEW class \in DOMAIN Classes, NEW v, ObjectOf(class, v)
    PROVE  Alike(AlikeInner, v, FromMsgpack(class, ToMsgpack(v)), FromMsgpack(class, AsDict(v)))
<1>1. DictsAgree(0)
  BY DEF DictsAgree, HoldsAt
<1>2. DictsAgree(0 + 1)
  BY <1>1, DictsRise
<1>3. DictsAgree(1 + 1)
  BY <1>2, DictsRise
<1>4. DictsAgree(2 + 1)
  BY <1>3, DictsRise
<1>5. HoldsAt(3, class, v) /\ ToMsgpack(v) = WriteAt(3, v) /\ AsDict(v) = DictAt(3, v)
  BY DEF HoldsAt, WriteAt, DictAt
<1>6. \A e : FromMsgpack(class, e) = ReadAt(3, class, e)
  BY DEF ReadAt
<1>7. \A a, d : AlikeAt(3, v, a, d) <=> Alike(AlikeInner, v, a, d)
  BY DEF AlikeAt
<1>8. AlikeAt(3, v, FromMsgpack(class, ToMsgpack(v)), FromMsgpack(class, AsDict(v)))
  BY <1>4, <1>5, <1>6 DEF DictsAgree
<1> QED BY <1>7, <1>8

\* Every object reads the same in both forms, but as Alike says.
THEOREM Forms_Agree == Spec => []FormsAgree
<1>1. IInv => FormsAgree
  <2> SUFFICES ASSUME IInv, NEW j \in DOMAIN inbox, outbox[inbox[j]].type = "invocation"
               PROVE  LET v == outbox[inbox[j]].object IN
                      Alike(AlikeInner, v, FromMsgpack(v[2], ToMsgpack(v)), FromMsgpack(v[2], AsDict(v)))
    BY DEF FormsAgree
  <2> DEFINE v == outbox[inbox[j]].object
  <2>1. PICK class \in DOMAIN Classes : ObjectOf(class, v)
    BY ReadIsSent
  <2>2. v[2] = class
    <3> HIDE DEF v
    <3>1. v = <<"object", class, v[3]>>
      BY <2>1 DEF ObjectOf, Object
    <3> QED BY <3>1
  <2> HIDE DEF v
  <2>3. Alike(AlikeInner, v, FromMsgpack(v[2], ToMsgpack(v)), FromMsgpack(v[2], AsDict(v)))
    BY <2>1, <2>2, DictionaryAgrees
  <2> QED BY <2>3 DEF v
<1> QED BY <1>1, Layout, PTL

=============================================================================
