-------------------------- MODULE ScoreSubmission ---------------------------
(***************************************************************************)
(* Score submission: create_score_token (app/api/v2/beatmaps.py) and       *)
(* submit_score (app/api/v2/scores.py) with update_user_statistics         *)
(* (app/usecases/stats.py), each request one database session              *)
(* (app/core/database.py) on MySQL at its default REPEATABLE READ.         *)
(*                                                                         *)
(* What the handlers rely on of InnoDB: a transaction's plain reads see    *)
(* the database as of its first read, plus its own writes; an UPDATE       *)
(* locks the row exclusively and overwrites its latest version; an INSERT  *)
(* share-locks the rows its foreign keys name; locks are kept to the end;  *)
(* a cycle of waiting transactions is broken by rolling one back.          *)
(*                                                                         *)
(* A score is named by the request that inserts it.  A statistics row is   *)
(* represented by the set of scores its play_count counts: that column     *)
(* changes with every score.  The others are recomputed from the same      *)
(* scores, but written only where they differ from what the transaction    *)
(* read, so what is said of a row that submissions overlapped on is said   *)
(* of play_count alone.  The ranks (stats.py:156-183) and pass_count,      *)
(* which moves with the beatmap's play_count, are left out.                *)
(***************************************************************************)
EXTENDS Naturals, FiniteSets

CONSTANTS
    Requests,               \* PUT requests, and the scores they insert
    Tokens, Users, Beatmaps,
    TokenUser,              \* the user_id of each score token
    TokenBeatmap,           \* the beatmap_id of each score token
    NoGameMode,             \* tokens whose ruleset_id is not a GameMode
    UpstreamPlays,          \* play_count of each beatmap as its row was cached
    Absent, Unused,         \* a token not created yet; one with no score_id
    MaxFailures             \* bound on requests that fail for outside causes

ASSUME TokenAssumption ==
    /\ TokenUser \in [Tokens -> Users]
    /\ TokenBeatmap \in [Tokens -> Beatmaps]
    /\ NoGameMode \subseteq Tokens
ASSUME ValueAssumption ==
    /\ Absent \notin Requests /\ Unused \notin Requests
    /\ Absent # Unused
ASSUME RowsAssumption == Beatmaps \cap Users = {}  \* rows of two tables
ASSUME UpstreamAssumption == UpstreamPlays \in [Beatmaps -> Nat]
ASSUME MaxFailuresAssumption == MaxFailures \in Nat

VARIABLES
    db,                     \* the committed database
    pc,                     \* where each request is
    asked,                  \* the token each request names, {} before it comes
    snap,                   \* the database as each open transaction reads it
    locks,                  \* row locks each transaction holds
    notified,               \* scores announced by UserScoreProcessed
    failures,               \* outside failures so far
    overlapped              \* history: what two open requests had in common

vars == <<db, pc, asked, snap, locks, notified, failures, overlapped>>

-----------------------------------------------------------------------------

Databases ==
    [token  : [Tokens -> {Absent, Unused} \cup Requests],
     scores : SUBSET Requests,
     plays  : [Beatmaps -> Nat],
     stats  : [Users -> SUBSET Requests],
     ranked : SUBSET Users]         \* users with a rank snapshot for today

\* Before the first submission: a beatmap's row holds the play_count of the
\* source it was cached from.
EmptyDb(today) ==
    [token  |-> [t \in Tokens |-> Absent],
     scores |-> {},
     plays  |-> UpstreamPlays,
     stats  |-> [u \in Users |-> {}],
     ranked |-> today]

Active == {"lookup", "insert", "update", "stats", "history", "notify", "commit"}
Ended == {"committed", "rejected", "failed"}

Token(r) == CHOOSE t \in Tokens : asked[r] = {t}
User(r) == TokenUser[Token(r)]
Beatmap(r) == TokenBeatmap[Token(r)]

Shared(b) == <<"shared", b>>        \* on a beatmap row
Exclusive(x) == <<"exclusive", x>>  \* on a beatmap row or a user's statistics row

LockNames == {"shared", "exclusive"} \X (Beatmaps \cup Users)

Free(r, lock) == \A q \in Requests \ {r} : lock \notin locks[q]
Goto(r, l) == pc' = [pc EXCEPT ![r] = l]
At(r, l) == pc[r] = l

\* The scores update_user_statistics aggregates for user u, of those in S.
Plays(S, u) == {r \in S : User(r) = u /\ Token(r) \notin NoGameMode}

TypeOK ==
    /\ db \in Databases
    /\ pc \in [Requests -> {"idle"} \cup Active \cup Ended]
    /\ asked \in [Requests -> {{}} \cup {{t} : t \in Tokens}]
    /\ \A r \in Requests : At(r, "idle") <=> asked[r] = {}
    /\ snap \in [Requests -> Databases]
    /\ locks \in [Requests -> SUBSET LockNames]
    /\ notified \in SUBSET Requests
    /\ failures \in 0..MaxFailures
    /\ overlapped \in SUBSET (Tokens \cup Beatmaps \cup Users)

Init ==
    /\ \E today \in SUBSET Users : db = EmptyDb(today)
    /\ pc = [r \in Requests |-> "idle"]
    /\ asked = [r \in Requests |-> {}]
    /\ snap = [r \in Requests |-> EmptyDb({})]
    /\ locks = [r \in Requests |-> {}]
    /\ notified = {}
    /\ failures = 0
    /\ overlapped = {}

-----------------------------------------------------------------------------
(* The end of a transaction: locks and snapshot are given up.              *)

End(r, l) ==
    /\ Goto(r, l)
    /\ locks' = [locks EXCEPT ![r] = {}]
    /\ snap' = [snap EXCEPT ![r] = EmptyDb({})]

\* Faulty variant: the exception path of get_db forgets the session, which
\* keeps its transaction open.
RollbackForgotten(r, l) ==
    /\ Goto(r, l)
    /\ UNCHANGED <<db, asked, snap, locks, notified, overlapped>>

\* get_db's exception path, which is also how a 404 leaves.
Rollback(r, l) ==
    /\ End(r, l)
    /\ UNCHANGED <<db, asked, notified, overlapped>>

\* Faulty variant: the counter goes down.
WrittenDown(d, r) ==
    [d EXCEPT !.token[Token(r)] = r,
              !.scores = @ \cup {r},
              !.plays[Beatmap(r)] = @ - 1]

\* What r writes, applied to database d: its score, the token's score_id, the
\* beatmap's counter as r read it plus one, and the statistics r computed.
Written(d, r) ==
    LET counted == Token(r) \notin NoGameMode
    IN  [token  |-> [d.token EXCEPT ![Token(r)] = r],
         scores |-> d.scores \cup {r},
         plays  |-> [d.plays EXCEPT ![Beatmap(r)] = snap[r].plays[Beatmap(r)] + 1],
         stats  |-> IF counted
                      THEN [d.stats EXCEPT ![User(r)] =
                               Plays(snap[r].scores, User(r)) \cup {r}]
                      ELSE d.stats,
         ranked |-> IF counted THEN d.ranked \cup {User(r)} ELSE d.ranked]

-----------------------------------------------------------------------------
(* create_score_token: its INSERT waits for a writer of the beatmap row    *)
(* and commits at once.                                                    *)

CreateToken(t) ==
    /\ db.token[t] = Absent
    /\ \A r \in Requests : Exclusive(TokenBeatmap[t]) \notin locks[r]
    /\ db' = [db EXCEPT !.token[t] = Unused]
    /\ UNCHANGED <<pc, asked, snap, locks, notified, failures, overlapped>>

-----------------------------------------------------------------------------
(* submit_score.                                                           *)

\* What request r for token t shares with those in flight.
InCommon(r, t) ==
    LET others == {q \in Requests \ {r} : pc[q] \in Active}
    IN  UNION {{x \in {t, TokenBeatmap[t], TokenUser[t]} :
                   x \in {Token(q), Beatmap(q), User(q)}} : q \in others}

\* The user lookup of the authentication dependency opens the transaction.
Authenticate(r, t) ==
    /\ At(r, "idle")
    /\ asked' = [asked EXCEPT ![r] = {t}]
    /\ snap' = [snap EXCEPT ![r] = db]
    /\ overlapped' = overlapped \cup InCommon(r, t)
    /\ Goto(r, "lookup")
    /\ UNCHANGED <<db, locks, notified, failures>>

\* Faulty variant: the token's score_id is not looked at.
LookupAnyToken(r) ==
    /\ At(r, "lookup")
    /\ IF snap[r].token[Token(r)] # Absent
         THEN /\ Goto(r, "insert")
              /\ UNCHANGED <<db, asked, snap, locks, notified, overlapped>>
         ELSE Rollback(r, "rejected")
    /\ UNCHANGED failures

\* The token must be unused as the transaction sees it; 404 otherwise.
LookupToken(r) ==
    /\ At(r, "lookup")
    /\ IF snap[r].token[Token(r)] = Unused
         THEN /\ Goto(r, "insert")
              /\ UNCHANGED <<db, asked, snap, locks, notified, overlapped>>
         ELSE Rollback(r, "rejected")
    /\ UNCHANGED failures

\* The score is inserted and flushed: a share lock on its beatmap.
InsertScore(r) ==
    /\ At(r, "insert")
    /\ Free(r, Exclusive(Beatmap(r)))
    /\ locks' = [locks EXCEPT ![r] = @ \cup {Shared(Beatmap(r))}]
    /\ Goto(r, "update")
    /\ UNCHANGED <<db, asked, snap, notified, failures, overlapped>>

\* token.score_id and play_count are flushed, the beatmap's UPDATE first: it
\* needs the row alone, and who has it alone has the token's row too.
UpdateBeatmap(r) ==
    /\ At(r, "update")
    /\ Free(r, Shared(Beatmap(r)))
    /\ locks' = [locks EXCEPT ![r] = @ \cup {Exclusive(Beatmap(r))}]
    /\ Goto(r, "stats")
    /\ UNCHANGED <<db, asked, snap, notified, failures, overlapped>>

\* Two transactions share the row and both want it alone: InnoDB rolls one of
\* them back, and its request fails.
DeadlockVictim(r) ==
    /\ At(r, "update")
    /\ \E q \in Requests \ {r} : At(q, "update") /\ Beatmap(q) = Beatmap(r)
    /\ Rollback(r, "failed")
    /\ UNCHANGED failures

\* update_user_statistics, to its flush: the row is recomputed from the scores
\* the transaction sees.
UpdateStatistics(r) ==
    /\ At(r, "stats")
    /\ Token(r) \notin NoGameMode
    /\ Free(r, Exclusive(User(r)))
    /\ locks' = [locks EXCEPT ![r] = @ \cup {Exclusive(User(r))}]
    /\ Goto(r, "history")
    /\ UNCHANGED <<db, asked, snap, notified, failures, overlapped>>

\* GameMode(token.ruleset_id) raises and the exception is swallowed.
SkipStatistics(r) ==
    /\ At(r, "stats")
    /\ Token(r) \in NoGameMode
    /\ Goto(r, "notify")
    /\ UNCHANGED <<db, asked, snap, locks, notified, failures, overlapped>>

\* Today's rank snapshot is updated if the transaction sees one and inserted
\* otherwise.  The unique key refuses a second one: the exception is
\* swallowed too, but the session is left unusable and the request fails.
RecordRank(r) ==
    /\ At(r, "history")
    /\ IF User(r) \in db.ranked \ snap[r].ranked
         THEN Rollback(r, "failed")
         ELSE /\ Goto(r, "notify")
              /\ UNCHANGED <<db, asked, snap, locks, notified, overlapped>>
    /\ UNCHANGED failures

\* send_user_score_processed, from inside the handler.
NotifyProcessed(r) ==
    /\ At(r, "notify")
    /\ notified' = notified \cup {r}
    /\ Goto(r, "commit")
    /\ UNCHANGED <<db, asked, snap, locks, failures, overlapped>>

\* Faulty variant: the counter and the statistics are committed on their own.
CommitCountersOnly(r) ==
    /\ At(r, "commit")
    /\ db' = [Written(db, r) EXCEPT !.scores = db.scores]
    /\ End(r, "committed")
    /\ UNCHANGED <<asked, notified, failures, overlapped>>

\* Faulty variant: the token is not written with the score.
CommitScoreOnly(r) ==
    /\ At(r, "commit")
    /\ db' = [Written(db, r) EXCEPT !.token = db.token]
    /\ End(r, "committed")
    /\ UNCHANGED <<asked, notified, failures, overlapped>>

\* Faulty variant: the statistics are those of the snapshot.
CommitOldStatistics(r) ==
    /\ At(r, "commit")
    /\ db' = [Written(db, r) EXCEPT !.stats[User(r)] = Plays(snap[r].scores, User(r))]
    /\ End(r, "committed")
    /\ UNCHANGED <<asked, notified, failures, overlapped>>

\* get_db commits when the handler has returned.
Commit(r) ==
    /\ At(r, "commit")
    /\ db' = Written(db, r)
    /\ End(r, "committed")
    /\ UNCHANGED <<asked, notified, failures, overlapped>>

\* An exception of any other origin (beatmap source, .osu download, lost
\* database connection, a commit that fails), or the server going down.
Fail(r) ==
    /\ failures < MaxFailures
    /\ pc[r] \in Active
    /\ failures' = failures + 1
    /\ Rollback(r, "failed")

-----------------------------------------------------------------------------

Step(r) ==
    \/ LookupToken(r) \/ InsertScore(r) \/ UpdateBeatmap(r) \/ DeadlockVictim(r)
    \/ UpdateStatistics(r) \/ SkipStatistics(r) \/ RecordRank(r)
    \/ NotifyProcessed(r) \/ Commit(r)

Next ==
    \/ \E t \in Tokens : CreateToken(t)
    \/ \E r \in Requests :
          \/ \E t \in Tokens : Authenticate(r, t)
          \/ Step(r)
          \/ Fail(r)

Spec == Init /\ [][Next]_vars

\* A request in progress is carried on: the event loop resumes its coroutine
\* and the database answers, granting locks as they come free.
FairSpec == Spec /\ \A r \in Requests : WF_vars(Step(r))

-----------------------------------------------------------------------------
(* Properties.                                                             *)

Submitted(t) == {r \in db.scores : Token(r) = t}

\* A token and the scores sent with it, in the committed database: a used
\* token names one of its own scores, and a score has used its token.  No
\* failure, deadlock or lost race leaves one without the other.
TokenScoreLinked ==
    \A t \in Tokens :
        IF Submitted(t) = {} THEN db.token[t] \in {Absent, Unused}
                             ELSE db.token[t] \in Submitted(t)

\* A token gives one score unless two requests for it were open at once.
TokenUsedOnce ==
    \A t \in Tokens \ overlapped : Cardinality(Submitted(t)) <= 1

\* A beatmap's play_count has risen from the one it was cached with by no more
\* than the scores on it, by at least one if there are any, and by exactly
\* their number unless two submissions to it were open at once: an increment
\* is lost only by overlap, never counted twice.
PlayCountSound ==
    \A b \in Beatmaps :
        LET n == Cardinality({r \in db.scores : Beatmap(r) = b})
        IN  /\ UpstreamPlays[b] <= db.plays[b]
            /\ db.plays[b] <= UpstreamPlays[b] + n
            /\ n > 0 => db.plays[b] > UpstreamPlays[b]
            /\ b \notin overlapped => db.plays[b] = UpstreamPlays[b] + n

\* A user's statistics count only scores that are committed and the user's
\* own, and all of them unless two of its submissions were open at once.
StatisticsSound ==
    \A u \in Users :
        /\ db.stats[u] \subseteq Plays(db.scores, u)
        /\ u \notin overlapped => db.stats[u] = Plays(db.scores, u)

\* Every request ends: nobody waits for a lock for ever.
RequestsEnd ==
    \A r \in Requests : pc[r] \in Active ~> pc[r] \in Ended

\* "Score token not found or already used" (scores.py:251), "a token is
\* considered used when score_id is not null" (models/score.py:108): a token
\* is good for one score, with no condition on how requests interleave.
TokenSingleUse ==
    \A t \in Tokens : Cardinality(Submitted(t)) <= 1

\* "Notify a user that their score has been processed ... to trigger the client
\* to fetch updated user statistics" (spectator.py:91-95): what is announced is
\* in the database another request reads.
AnnouncedIsCommitted == notified \subseteq db.scores
=============================================================================
