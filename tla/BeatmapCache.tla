---------------------------- MODULE BeatmapCache ----------------------------
(***************************************************************************)
(* What the server keeps of osu!'s beatmaps: rows of sets and difficulties *)
(* fetched when they are first asked for, the .osu files scores are        *)
(* computed from, and the token of the official API                        *)
(* (app/services/beatmaps.py, app/usecases/osu_files.py, and the handlers  *)
(* of app/api/v2/beatmaps.py and scores.py that call them).                *)
(*                                                                         *)
(* The event loop runs one request at a time from one await to the next,   *)
(* and an action is such a stretch.  A transaction reads the snapshot of   *)
(* its first SELECT, so the checks for an existing row see nothing that    *)
(* was committed since, and a duplicate shows when the rows are flushed    *)
(* and committed.                                                          *)
(***************************************************************************)
EXTENDS Naturals

CONSTANTS
    Requests,               \* HTTP requests
    Calls,                  \* what they may ask for
    Beatmaps, Sets, SetOf,  \* difficulties, sets, the set of each difficulty
    MaxVersion,             \* times osu! changes a difficulty (bound)
    MaxRevocations,         \* times the API drops the tokens it issued (bound)
    MaxCrashes,             \* process crashes (bound)
    None

ASSUME SetOfAssumption == SetOf \in [Beatmaps -> Sets]
ASSUME BoundAssumption ==
    MaxVersion \in Nat /\ MaxRevocations \in Nat /\ MaxCrashes \in Nat

Versions == 0 .. MaxVersion
AllCalls == [op : {"beatmap", "score"}, id : Beatmaps]
              \cup [op : {"checksum"}, id : Beatmaps, version : Versions]
              \cup [op : {"set"}, id : Sets] \cup [op : {"search"}]

ASSUME CallsAssumption == Calls \subseteq AllCalls

VARIABLES
    mirror,                 \* settings.use_beatmap_mirror
    upstream,               \* the version of a difficulty osu! has, or None
    sets, maps,             \* beatmapsets and beatmaps: the stored ids and versions
    files,                  \* the .osu file of a difficulty: None, "part" or "whole"
    osuToken,               \* BeatmapService._osu_token
    revocations, crashes,   \* times the API dropped its tokens, the process stopped
    pc, call,               \* where each request is, what it asks for
    local,                  \* the variables of its handler
    answer,                 \* how it ended
    refused,                \* history: revocations during the fetches two 401s ended
    promised,               \* history: difficulties a set had when it was fetched
    torn,                   \* history: files a crash or a failed write left
    rewritten               \* history: files downloaded when they were whole already

tables == <<sets, maps, promised>>
fileVars == <<files, torn, rewritten>>
apiVars == <<mirror, upstream, revocations, crashes>>
tokenVars == <<osuToken, refused>>
requestVars == <<pc, call, local, answer>>
vars == <<tables, fileVars, apiVars, tokenVars, requestVars>>

\* A token counts for the time it was issued at, after so many revocations.
TokenValues == 0 .. MaxRevocations \cup {None}

Rows == [Beatmaps -> Versions \cup {None}]
\* What it is fetching, the token it sends and whether it had a 401 already,
\* the rows its transaction sees, the fetched version, and the fetched
\* difficulties of the set; history: revocations when the fetch began or, later,
\* when its first 401 came.
Local == [getting : {"map", "set", "search", None}, held : TokenValues, retried : BOOLEAN,
          snap : [sets : SUBSET Sets, maps : Rows], own : Versions \cup {None},
          listing : Rows, since : 0 .. MaxRevocations]
NoRows == [b \in Beatmaps |-> None]
NoLocal == [getting |-> None, held |-> None, retried |-> FALSE,
            snap |-> [sets |-> {}, maps |-> NoRows], own |-> None, listing |-> NoRows, since |-> 0]
Ends == {"set", "none", "duplicate", "error", "lost", "pp", "bad pp"}

Answers == [end : Ends \cup {None}, version : {None}] \cup [end : {"row"}, version : Versions]
Labels == {"idle", "post", "posted", "get", "store", "recheck", "insert",
           "download", "write", "compute", "done"}

ASSUME NoneAssumption ==
    None \notin Nat \cup Ends \cup {"row", "part", "whole", "map", "search"}

TypeOK ==
    /\ mirror \in BOOLEAN
    /\ upstream \in Rows /\ maps \in Rows
    /\ sets \in SUBSET Sets
    /\ files \in [Beatmaps -> {None, "part", "whole"}]
    /\ osuToken \in TokenValues
    /\ revocations \in 0 .. MaxRevocations /\ crashes \in 0 .. MaxCrashes
    /\ pc \in [Requests -> Labels]
    /\ call \in [Requests -> Calls \cup {None}]
    /\ local \in [Requests -> Local]
    /\ answer \in [Requests -> Answers]
    /\ refused \in SUBSET (0 .. MaxRevocations)
    /\ promised \in [Sets -> SUBSET Beatmaps]
    /\ torn \in SUBSET Beatmaps /\ rewritten \in SUBSET Beatmaps

Init ==
    /\ mirror \in BOOLEAN
    /\ upstream \in [Beatmaps -> {None, 0}]
    /\ sets = {} /\ maps = NoRows
    /\ files = [b \in Beatmaps |-> None]
    /\ osuToken = None
    /\ revocations = 0 /\ crashes = 0
    /\ pc = [r \in Requests |-> "idle"]
    /\ call = [r \in Requests |-> None]
    /\ local = [r \in Requests |-> NoLocal]
    /\ answer = [r \in Requests |-> [end |-> None, version |-> None]]
    /\ refused = {}
    /\ promised = [s \in Sets |-> {}]
    /\ torn = {} /\ rewritten = {}

-----------------------------------------------------------------------------
(* The set a request is about, and its ends.                               *)

Wanted(r) == IF call[r].op = "set" THEN call[r].id ELSE SetOf[call[r].id]

\* The request ends, and its handler's variables with it.
Ended(r, end, version) ==
    /\ pc' = [pc EXCEPT ![r] = "done"]
    /\ answer' = [answer EXCEPT ![r] = [end |-> end, version |-> version]]
    /\ local' = [local EXCEPT ![r] = NoLocal]

Answer(r, end) == Ended(r, end, None)
Serve(r, version) == Ended(r, "row", version)
Goes(r, to) == pc' = [pc EXCEPT ![r] = to] /\ UNCHANGED <<answer, local>>

\* write_bytes does not await: nothing else runs in the event loop meanwhile.
LoopFreeAlways == TRUE      \* faulty variant: the write is awaited

LoopFree == \A r \in Requests : pc[r] # "write"

-----------------------------------------------------------------------------
(* The token.  A request without a usable one asks for one itself, however *)
(* many others are asking.                                                 *)

\* _fetch_*, _search_*: with the variables v, the request goes out with the
\* cached token, or waits for a new one.
Asks(r, what, v) ==
    /\ pc' = [pc EXCEPT ![r] = IF mirror \/ osuToken # None THEN "get" ELSE "post"]
    /\ local' = [local EXCEPT ![r] = [v EXCEPT !.getting = what, !.held = osuToken,
                                               !.retried = FALSE, !.since = revocations]]
    /\ UNCHANGED answer

Honoured(r) == ~mirror => local[r].held = revocations

\* The fetch came to nothing: the caller's None.
Without(r) ==
    IF local[r].getting = "set" /\ call[r].op # "set" THEN Goes(r, "insert")
    ELSE Answer(r, "none")

\* The API answers the POST for a token.
Issue(r) ==
    /\ pc[r] = "post"
    /\ local' = [local EXCEPT ![r] = [@ EXCEPT !.held = revocations]]
    /\ pc' = [pc EXCEPT ![r] = "posted"]
    /\ UNCHANGED <<tables, fileVars, apiVars, tokenVars, call, answer>>

\* The answer arrives: whatever another request stored meanwhile is replaced.
StoreToken(r) ==
    /\ pc[r] = "posted"
    /\ osuToken' = local[r].held
    /\ Goes(r, "get")
    /\ UNCHANGED <<tables, fileVars, apiVars, refused, call>>

\* Faulty variant: the token of the 401 stays in the cache and is sent again.
RefusedKeeps(r) ==
    /\ pc[r] = "get" /\ ~Honoured(r) /\ ~local[r].retried
    /\ local' = [local EXCEPT ![r] = [@ EXCEPT !.retried = TRUE, !.held = osuToken,
                                               !.since = revocations]]
    /\ pc' = [pc EXCEPT ![r] = IF osuToken # None THEN "get" ELSE "post"]
    /\ UNCHANGED <<tables, fileVars, apiVars, tokenVars, call, answer>>

\* A first 401: the cached token is dropped, whichever it is by now, and a
\* new one is asked for before anything else runs.
Refused(r) ==
    /\ pc[r] = "get" /\ ~Honoured(r) /\ ~local[r].retried
    /\ osuToken' = None
    /\ local' = [local EXCEPT ![r] = [@ EXCEPT !.retried = TRUE, !.since = revocations]]
    /\ pc' = [pc EXCEPT ![r] = "post"]
    /\ UNCHANGED <<tables, fileVars, apiVars, refused, call, answer>>

\* A second 401.
RefusedAgain(r) ==
    /\ pc[r] = "get" /\ ~Honoured(r) /\ local[r].retried
    /\ refused' = refused \cup {revocations - local[r].since}
    /\ Without(r)
    /\ UNCHANGED <<tables, fileVars, apiVars, osuToken, call>>

\* A timeout, any other status or an exception, of the POST or of the GET;
\* a 404; or the end of a search, which stores nothing.
NothingFetched(r) ==
    /\ pc[r] \in {"post", "get"}
    /\ Without(r)
    /\ UNCHANGED <<tables, fileVars, apiVars, tokenVars, call>>

-----------------------------------------------------------------------------
(* Beatmaps and sets.                                                      *)

\* search_beatmapsets: no row is read or written.
Search(r, c) == c.op = "search" /\ Asks(r, "search", NoLocal)

Found(c) == CASE c.op = "beatmap" -> maps[c.id] # None
              [] c.op = "checksum" -> maps[c.id] = c.version
              [] c.op = "set" -> c.id \in sets

\* get_beatmap, get_beatmap_by_checksum, get_beatmapset: the stored row, or
\* a fetch.  The mirror knows no checksums.
Get(r, c) ==
    /\ c.op \in {"beatmap", "checksum", "set"}
    /\ IF Found(c) THEN IF c.op = "set" THEN Answer(r, "set") ELSE Serve(r, maps[c.id])
       ELSE IF c.op = "checksum" /\ mirror THEN Answer(r, "none")
       ELSE Asks(r, IF c.op = "set" THEN "set" ELSE "map",
                 [NoLocal EXCEPT !.snap = [sets |-> sets, maps |-> maps]])

\* submit_score, ensure_osu_file: a file with anything in it is taken.
Score(r, c) == c.op = "score" /\ Goes(r, IF files[c.id] # None THEN "compute" ELSE "download")

Begin(r, c) ==
    /\ pc[r] = "idle"
    /\ call' = [call EXCEPT ![r] = c]
    /\ Search(r, c) \/ Get(r, c) \/ Score(r, c)
    /\ UNCHANGED <<tables, fileVars, apiVars, tokenVars>>

\* _cache_beatmap: the row is there in this snapshot (under an older checksum),
\* or it can be inserted at once, or its set has to be fetched first.  A lookup
\* gives the file name with the checksum, so its answer may have another one.
FetchedMap(r) ==
    LET b == call[r].id
        v == [local[r] EXCEPT !.own = upstream[b]]
    IN
    /\ pc[r] = "get" /\ local[r].getting = "map" /\ Honoured(r)
    /\ upstream[b] # None
    /\ IF v.snap.maps[b] # None THEN Serve(r, v.snap.maps[b])
       ELSE IF SetOf[b] \notin v.snap.sets THEN Asks(r, "set", v)
       ELSE /\ pc' = [pc EXCEPT ![r] = "insert"]
            /\ local' = [local EXCEPT ![r] = v]
            /\ UNCHANGED answer
    /\ UNCHANGED <<tables, fileVars, apiVars, tokenVars, call>>

\* What the set comes with.  A mirror may not list the newest difficulties yet.
FetchedSet(r) ==
    /\ pc[r] = "get" /\ local[r].getting = "set" /\ Honoured(r)
    /\ \E missing \in IF mirror THEN SUBSET Beatmaps ELSE {{}} :
         local' = [local EXCEPT ![r] = [@ EXCEPT !.listing =
                     [b \in Beatmaps |-> IF SetOf[b] = Wanted(r) /\ b \notin missing
                                           THEN upstream[b] ELSE None]]]
    /\ pc' = [pc EXCEPT ![r] = "store"]
    /\ UNCHANGED <<tables, fileVars, apiVars, tokenVars, call, answer>>

Listed(r) == {b \in Beatmaps : local[r].listing[b] # None}
\* The difficulties of the listing the snapshot does not have.
New(r) == {b \in Listed(r) : local[r].snap.maps[b] = None}

\* Faulty variant: the set is committed before its difficulties.
StoreSetApart(r) ==
    /\ pc[r] = "store" /\ Wanted(r) \notin sets
    /\ sets' = sets \cup {Wanted(r)}
    /\ promised' = [promised EXCEPT ![Wanted(r)] = Listed(r)]
    /\ Goes(r, "recheck")
    /\ UNCHANGED <<maps, fileVars, apiVars, tokenVars, call>>

\* _cache_beatmapset: the set and its difficulties, in one commit that ends
\* the caller's transaction.
StoreSet(r) ==
    /\ pc[r] = "store"
    /\ Wanted(r) \notin sets /\ \A b \in New(r) : maps[b] = None
    /\ sets' = sets \cup {Wanted(r)}
    /\ maps' = [b \in Beatmaps |-> IF b \in New(r) THEN local[r].listing[b] ELSE maps[b]]
    /\ promised' = [promised EXCEPT ![Wanted(r)] = Listed(r)]
    /\ IF call[r].op = "set" THEN Answer(r, "set") ELSE Goes(r, "recheck")
    /\ UNCHANGED <<fileVars, apiVars, tokenVars, call>>

\* Faulty variant: the row is expected to have come with its set.
RecheckBlindly(r) ==
    /\ pc[r] = "recheck"
    /\ Serve(r, maps[call[r].id])
    /\ UNCHANGED <<tables, fileVars, apiVars, tokenVars, call>>

\* The second look of _cache_beatmap, in a new transaction.
Recheck(r) ==
    LET b == call[r].id IN
    /\ pc[r] = "recheck"
    /\ IF maps[b] # None THEN Serve(r, maps[b]) ELSE Goes(r, "insert")
    /\ UNCHANGED <<tables, fileVars, apiVars, tokenVars, call>>

\* The difficulty alone; its set must be there, fetched by whomever.
Insert(r) ==
    LET b == call[r].id IN
    /\ pc[r] = "insert"
    /\ maps[b] = None /\ SetOf[b] \in sets
    /\ maps' = [maps EXCEPT ![b] = local[r].own]
    /\ Serve(r, local[r].own)
    /\ UNCHANGED <<sets, promised, fileVars, apiVars, tokenVars, call>>

Conflicts(r) ==
    \/ pc[r] = "store" /\ (Wanted(r) \in sets \/ \E b \in New(r) : maps[b] # None)
    \/ pc[r] = "insert" /\ maps[call[r].id] # None

\* Faulty variant: the error is swallowed and the fetched row is answered.
DuplicateServed(r) ==
    /\ Conflicts(r)
    /\ IF call[r].op = "set" THEN Answer(r, "set") ELSE Serve(r, local[r].own)
    /\ UNCHANGED <<tables, fileVars, apiVars, tokenVars, call>>

\* Another request committed the same key first: the flush fails, nothing of
\* this transaction stays, and the client gets a 500.
Duplicate(r) ==
    /\ Conflicts(r)
    /\ Answer(r, "duplicate")
    /\ UNCHANGED <<tables, fileVars, apiVars, tokenVars, call>>

\* The flush fails for another reason: the set of a lone difficulty is not
\* there, a deadlock, a lost connection.
DbError(r) ==
    /\ pc[r] \in {"store", "insert"}
    /\ Answer(r, "error")
    /\ UNCHANGED <<tables, fileVars, apiVars, tokenVars, call>>

-----------------------------------------------------------------------------
(* Files.                                                                  *)

NoFile(r) ==
    /\ pc[r] = "download"
    /\ Answer(r, "none")
    /\ UNCHANGED <<tables, fileVars, apiVars, tokenVars, call>>

\* write_bytes opens the file, which empties it.
StartWrite(r) ==
    LET b == call[r].id IN
    /\ pc[r] = "download"
    /\ files' = [files EXCEPT ![b] = "part"]
    /\ rewritten' = IF files[b] # None THEN rewritten \cup {b} ELSE rewritten
    /\ Goes(r, "write")
    /\ UNCHANGED <<tables, torn, apiVars, tokenVars, call>>

EndWrite(r) ==
    /\ pc[r] = "write"
    /\ files' = [files EXCEPT ![call[r].id] = "whole"]
    /\ Goes(r, "compute")
    /\ UNCHANGED <<tables, torn, rewritten, apiVars, tokenVars, call>>

\* An OSError: the request gives up, what was written stays.
WriteFails(r) ==
    LET b == call[r].id IN
    /\ pc[r] = "write"
    /\ \E left \in {"part", None} : files' = [files EXCEPT ![b] = left]
    /\ torn' = torn \cup {b}
    /\ Answer(r, "none")
    /\ UNCHANGED <<tables, rewritten, apiVars, tokenVars, call>>

\* calculate_pp, in a thread of its own: it reads what is there.
Compute(r) ==
    /\ pc[r] = "compute"
    /\ Answer(r, IF files[call[r].id] = "whole" THEN "pp" ELSE "bad pp")
    /\ UNCHANGED <<tables, fileVars, apiVars, tokenVars, call>>

-----------------------------------------------------------------------------
(* The world outside.                                                      *)

\* osu! publishes or changes a difficulty.
Update(b) ==
    /\ upstream[b] # MaxVersion
    /\ upstream' = [upstream EXCEPT ![b] = IF @ = None THEN 0 ELSE @ + 1]
    /\ UNCHANGED <<tables, fileVars, mirror, revocations, crashes, tokenVars, requestVars>>

\* The API stops honouring the tokens it has issued.
Revoke ==
    /\ ~mirror /\ revocations < MaxRevocations
    /\ revocations' = revocations + 1
    /\ UNCHANGED <<tables, fileVars, mirror, upstream, crashes, tokenVars, requestVars>>

\* expires_at comes within a minute: the cached token is as good as none.
Lapse ==
    /\ osuToken # None
    /\ osuToken' = None
    /\ UNCHANGED <<tables, fileVars, apiVars, refused, requestVars>>

\* The process stops: requests are lost, a file being written is left as it is.
Crash ==
    LET writing == {r \in Requests : pc[r] = "write"}
        hit == {call[r].id : r \in writing}
    IN
    /\ crashes < MaxCrashes
    /\ crashes' = crashes + 1
    /\ osuToken' = None
    /\ pc' = [r \in Requests |-> IF pc[r] = "idle" THEN "idle" ELSE "done"]
    /\ answer' = [r \in Requests |-> IF pc[r] \in {"idle", "done"} THEN answer[r]
                                 ELSE [end |-> "lost", version |-> None]]
    /\ \E left \in {"part", None} :
         files' = [b \in Beatmaps |-> IF b \in hit THEN left ELSE files[b]]
    /\ torn' = torn \cup hit
    /\ local' = [r \in Requests |-> NoLocal]
    /\ UNCHANGED <<tables, rewritten, mirror, upstream, revocations, refused, call>>

-----------------------------------------------------------------------------
Fetch(r) == \/ \E c \in Calls : Begin(r, c)
            \/ StoreToken(r) \/ Refused(r) \/ RefusedAgain(r) \/ NothingFetched(r)
            \/ FetchedMap(r) \/ FetchedSet(r)
Store(r) == StoreSet(r) \/ Recheck(r) \/ Insert(r) \/ Duplicate(r) \/ DbError(r)

Step(r) == \/ LoopFree /\ (Fetch(r) \/ Store(r) \/ NoFile(r) \/ StartWrite(r))
           \/ EndWrite(r) \/ WriteFails(r) \/ Compute(r) \/ Issue(r)
World == (\E b \in Beatmaps : Update(b)) \/ Revoke \/ Lapse \/ Crash
\* Every request has been answered.
Rest == (\A r \in Requests : pc[r] = "done") /\ UNCHANGED vars

Next == (\E r \in Requests : Step(r)) \/ World \/ Rest

Spec == Init /\ [][Next]_vars

-----------------------------------------------------------------------------
(* Properties.                                                             *)

\* A cached set has every difficulty it had when it was fetched, although it
\* is never fetched again: a failed or lost request leaves no set without
\* them, and no difficulty without its set (_cache_beatmapset's one commit).
SetsWhole ==
    /\ \A s \in Sets : promised[s] # {} => s \in sets
    /\ \A s \in sets : \A b \in promised[s] : maps[b] # None
    /\ \A b \in Beatmaps : maps[b] # None => SetOf[b] \in sets

\* What a request was answered is what is stored, whatever requests overlapped
\* it: a row in the version it was answered in, a set that is there.  And who
\* lost the race for a key finds the set when it asks again.
AnswersHold ==
    \A r \in Requests :
        /\ answer[r].end = "row" => maps[call[r].id] = answer[r].version
        /\ answer[r].end \in {"set", "duplicate"} => Wanted(r) \in sets

\* One renewal suffices: a fetch is given up for a second 401 only if the API
\* dropped its tokens again after the first, however other requests renew or
\* drop the shared token in between (the retry of _fetch_beatmap_from_osu_api).
RenewalSuffices == 0 \notin refused

\* Performance is computed from part of a file only where a crash or a failed
\* write left that part, or a second download was replacing the file while it
\* was read (ensure_osu_file and calculate_pp's thread).
PpFromWhole ==
    \A r \in Requests : answer[r].end = "bad pp" => call[r].id \in torn \cup rewritten

=============================================================================
