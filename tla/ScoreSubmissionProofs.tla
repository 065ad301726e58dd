----------------------- MODULE ScoreSubmissionProofs ------------------------
(***************************************************************************)
(* Proofs about ScoreSubmission, for any requests, tokens, users and       *)
(* beatmaps.  Every step of a request advances it with the database as it  *)
(* is, ends it without a trace, or commits it (StepKind), so the inductive *)
(* invariants say what a transaction in progress knows of the database     *)
(* (Knows), what it knows exactly where it is alone (Alone), and that two  *)
(* of them which share something are recorded in `overlapped` (Apart).     *)
(***************************************************************************)
EXTENDS ScoreSubmission, FiniteSetTheorems, TLAPS

USE TokenAssumption, ValueAssumption, UpstreamAssumption, MaxFailuresAssumption

-----------------------------------------------------------------------------
(* What a request names.                                                   *)

LEMMA ChooseSingle ==
    ASSUME NEW t \in Tokens
    PROVE  (CHOOSE x \in Tokens : {t} = {x}) = t
  OBVIOUS

LEMMA TokenOf ==
    ASSUME NEW r, NEW t \in Tokens, asked[r] = {t}
    PROVE  Token(r) = t
  BY ChooseSingle DEF Token

LEMMA Named ==
    ASSUME TypeOK, NEW r \in Requests, pc[r] # "idle"
    PROVE  /\ Token(r) \in Tokens
           /\ asked[r] = {Token(r)}
           /\ Beatmap(r) \in Beatmaps
           /\ User(r) \in Users
  <1>1. PICK t \in Tokens : asked[r] = {t}
    BY DEF TypeOK, At
  <1>2. Token(r) = t
    BY <1>1, TokenOf
  <1>3. QED
    BY <1>1, <1>2 DEF Beatmap, User

\* A request that has come keeps its token.
LEMMA KeptNames ==
    ASSUME NEW r, asked'[r] = asked[r]
    PROVE  Token(r)' = Token(r) /\ Beatmap(r)' = Beatmap(r) /\ User(r)' = User(r)
  BY DEF Token, Beatmap, User

-----------------------------------------------------------------------------
(* Type correctness.                                                       *)

LEMMA EmptyDbType ==
    ASSUME NEW today \in SUBSET Users
    PROVE  EmptyDb(today) \in Databases
  BY DEF EmptyDb, Databases

LEMMA WrittenType ==
    ASSUME TypeOK, NEW r \in Requests, pc[r] # "idle"
    PROVE  Written(db, r) \in Databases
  <1>1. Token(r) \in Tokens /\ Beatmap(r) \in Beatmaps /\ User(r) \in Users
    BY Named
  <1>2. db \in Databases /\ snap[r] \in Databases
    BY DEF TypeOK
  <1>3. snap[r].plays[Beatmap(r)] + 1 \in Nat
    BY <1>1, <1>2 DEF Databases
  <1>4. Plays(snap[r].scores, User(r)) \cup {r} \in SUBSET Requests
    BY <1>2 DEF Plays, Databases
  <1>5. [db.token EXCEPT ![Token(r)] = r] \in [Tokens -> {Absent, Unused} \cup Requests]
    BY <1>1, <1>2 DEF Databases
  <1>6. [db.plays EXCEPT ![Beatmap(r)] = snap[r].plays[Beatmap(r)] + 1] \in [Beatmaps -> Nat]
    BY <1>1, <1>2, <1>3 DEF Databases
  <1>7. [db.stats EXCEPT ![User(r)] = Plays(snap[r].scores, User(r)) \cup {r}]
          \in [Users -> SUBSET Requests]
    BY <1>1, <1>2, <1>4 DEF Databases
  <1>8. QED
    BY <1>1, <1>2, <1>5, <1>6, <1>7 DEF Written, Databases

LEMMA InitType == Init => TypeOK
  BY EmptyDbType DEF Init, TypeOK, At

LEMMA EndType ==
    ASSUME TypeOK, NEW r \in Requests, NEW l \in Ended, End(r, l)
    PROVE  /\ pc' \in [Requests -> {"idle"} \cup Active \cup Ended]
           /\ locks' \in [Requests -> SUBSET LockNames]
           /\ snap' \in [Requests -> Databases]
  BY EmptyDbType DEF TypeOK, End, Goto

LEMMA LockTypes ==
    ASSUME TypeOK, NEW r \in Requests, pc[r] # "idle"
    PROVE  /\ Shared(Beatmap(r)) \in LockNames
           /\ Exclusive(Beatmap(r)) \in LockNames
           /\ Exclusive(User(r)) \in LockNames
  BY Named DEF Shared, Exclusive, LockNames

LEMMA StepType ==
    ASSUME TypeOK, NEW r \in Requests, Step(r) \/ Fail(r)
    PROVE  TypeOK'
  <1> USE DEF TypeOK, Goto, At, Active, Ended
  <1>1. pc[r] \in Active
    BY DEF Step, LookupToken, InsertScore, UpdateBeatmap, DeadlockVictim,
           UpdateStatistics, SkipStatistics, RecordRank, NotifyProcessed, Commit, Fail
  <1>2. ASSUME NEW l \in Ended, Rollback(r, l), failures' \in 0..MaxFailures
        PROVE  TypeOK'
    BY <1>1, <1>2, EndType DEF Rollback, End
  <1>3. CASE LookupToken(r)
    BY <1>2, <1>3 DEF LookupToken
  <1>4. CASE InsertScore(r) \/ UpdateBeatmap(r) \/ UpdateStatistics(r)
    BY <1>1, <1>4, LockTypes DEF InsertScore, UpdateBeatmap, UpdateStatistics
  <1>5. CASE SkipStatistics(r) \/ NotifyProcessed(r)
    BY <1>1, <1>5 DEF SkipStatistics, NotifyProcessed
  <1>6. CASE RecordRank(r)
    BY <1>2, <1>6 DEF RecordRank
  <1>7. CASE DeadlockVictim(r)
    BY <1>2, <1>7 DEF DeadlockVictim
  <1>8. CASE Commit(r)
    BY <1>1, <1>8, WrittenType, EndType DEF Commit, End
  <1>9. CASE Fail(r)
    BY <1>2, <1>9 DEF Fail
  <1>10. QED
    BY <1>3, <1>4, <1>5, <1>6, <1>7, <1>8, <1>9 DEF Step

LEMMA CommonType ==
    ASSUME TypeOK, NEW r \in Requests, NEW t \in Tokens
    PROVE  InCommon(r, t) \subseteq Tokens \cup Beatmaps \cup Users
  BY DEF InCommon

LEMMA AuthenticateType ==
    ASSUME TypeOK, NEW r \in Requests, NEW t \in Tokens, Authenticate(r, t)
    PROVE  TypeOK'
  BY CommonType DEF Authenticate, TypeOK, Goto, At, Active

LEMMA CreateTokenType ==
    ASSUME TypeOK, NEW t \in Tokens, CreateToken(t)
    PROVE  TypeOK'
  BY DEF CreateToken, TypeOK, Databases, At

LEMMA NextType ==
    ASSUME TypeOK, [Next]_vars
    PROVE  TypeOK'
  <1>1. CASE UNCHANGED vars
    BY <1>1 DEF vars, TypeOK, At
  <1>2. CASE Next
    BY <1>2, StepType, AuthenticateType, CreateTokenType DEF Next
  <1>3. QED
    BY <1>1, <1>2

\* Type correctness: the database, the requests on it and their snapshots and
\* locks keep their types, and a request has a token exactly once it has come.
THEOREM TypeCorrect == Spec => []TypeOK
  BY InitType, NextType, PTL DEF Spec

-----------------------------------------------------------------------------
(* What a step of a request is.                                            *)

\* r goes on, with the database as it was; past the lookup, its token is
\* unused as r sees it.
Advances(r) ==
    /\ pc[r] \in Active
    /\ pc'[r] \in Active \ {"lookup"}
    /\ pc[r] = "lookup" => snap[r].token[Token(r)] = Unused
    /\ \A q \in Requests \ {r} : pc'[q] = pc[q]
    /\ UNCHANGED <<db, asked, snap, overlapped>>

\* r ends, with the database as it was.
Ends(r) ==
    /\ pc[r] \in Active
    /\ pc'[r] \in {"rejected", "failed"}
    /\ \A q \in Requests \ {r} : pc'[q] = pc[q] /\ snap'[q] = snap[q]
    /\ UNCHANGED <<db, asked, overlapped>>

LEMMA StepKind ==
    ASSUME TypeOK, NEW r \in Requests, Step(r) \/ Fail(r)
    PROVE  Advances(r) \/ Ends(r) \/ Commit(r)
  <1> USE DEF TypeOK, Goto, At, Active
  <1>1. ASSUME NEW l \in {"rejected", "failed"}, pc[r] \in Active, Rollback(r, l)
        PROVE  Ends(r)
    BY <1>1 DEF Rollback, End, Ends
  <1>2. CASE LookupToken(r)
    BY <1>1, <1>2 DEF LookupToken, Advances
  <1>3. CASE InsertScore(r) \/ UpdateBeatmap(r) \/ UpdateStatistics(r)
    BY <1>3 DEF InsertScore, UpdateBeatmap, UpdateStatistics, Advances
  <1>4. CASE SkipStatistics(r) \/ NotifyProcessed(r)
    BY <1>4 DEF SkipStatistics, NotifyProcessed, Advances
  <1>5. CASE RecordRank(r)
    BY <1>1, <1>5 DEF RecordRank, Advances
  <1>6. CASE DeadlockVictim(r)
    BY <1>1, <1>6 DEF DeadlockVictim
  <1>7. CASE Fail(r)
    BY <1>1, <1>7 DEF Fail
  <1>8. QED
    BY <1>2, <1>3, <1>4, <1>5, <1>6, <1>7 DEF Step

LEMMA NextKind ==
    ASSUME TypeOK, Next
    PROVE  \/ \E t \in Tokens : CreateToken(t)
           \/ \E r \in Requests, t \in Tokens : Authenticate(r, t)
           \/ \E r \in Requests : Advances(r) \/ Ends(r)
           \/ \E r \in Requests : Commit(r)
  BY StepKind DEF Next

\* Whatever happens, a request that has come keeps its names.
LEMMA NamesStable ==
    ASSUME TypeOK, [Next]_vars, NEW q \in Requests, pc[q] # "idle"
    PROVE  /\ asked'[q] = asked[q]
           /\ Token(q)' = Token(q) /\ Beatmap(q)' = Beatmap(q) /\ User(q)' = User(q)
  <1>1. CASE UNCHANGED vars
    BY <1>1, KeptNames DEF vars
  <1>2. CASE Next
    <2>1. asked'[q] = asked[q]
      BY <1>2, NextKind DEF CreateToken, Authenticate, Advances, Ends, Commit, At, TypeOK
    <2>2. QED
      BY <2>1, KeptNames
  <1>3. QED
    BY <1>1, <1>2

-----------------------------------------------------------------------------
(* A score is committed together with its token.                           *)

ScoresEnded == \A r \in db.scores : At(r, "committed")

LinkInv ==
    /\ TypeOK
    /\ ScoresEnded
    /\ TokenScoreLinked

LEMMA SubmittedStable ==
    ASSUME TypeOK, ScoresEnded, [Next]_vars, NEW t, db'.scores = db.scores
    PROVE  Submitted(t)' = Submitted(t)
  <1>1. \A r \in db.scores : Token(r)' = Token(r)
    BY NamesStable DEF ScoresEnded, At, TypeOK, Databases
  <1>2. QED
    BY <1>1 DEF Submitted

\* What a commit makes of the database.
LEMMA CommitEffect ==
    ASSUME TypeOK, ScoresEnded, NEW r \in Requests, Commit(r)
    PROVE  /\ r \notin db.scores
           /\ db'.scores = db.scores \cup {r}
           /\ \A t \in Tokens :
                 /\ db'.token[t] = IF t = Token(r) THEN r ELSE db.token[t]
                 /\ Submitted(t)' = IF t = Token(r) THEN Submitted(t) \cup {r}
                                                    ELSE Submitted(t)
  <1>1. Token(r) \in Tokens /\ pc[r] = "commit"
    BY Named DEF Commit, At
  <1>2. r \notin db.scores
    BY <1>1 DEF ScoresEnded, At
  <1>3. db'.scores = db.scores \cup {r} /\ db'.token = [db.token EXCEPT ![Token(r)] = r]
    BY DEF Commit, Written
  <1>4. \A q \in db.scores \cup {r} : Token(q)' = Token(q)
    BY KeptNames DEF Commit
  <1>5. QED
    BY <1>1, <1>2, <1>3, <1>4 DEF Submitted, TypeOK, Databases

LEMMA LinkInit == Init => LinkInv
  <1> SUFFICES ASSUME Init PROVE LinkInv
    OBVIOUS
  <1>1. PICK today \in SUBSET Users : db = EmptyDb(today)
    BY DEF Init
  <1>2. db.scores = {} /\ \A t \in Tokens : db.token[t] = Absent
    BY <1>1 DEF EmptyDb
  <1>3. TokenScoreLinked
    BY <1>2 DEF TokenScoreLinked, Submitted
  <1>4. QED
    BY <1>2, <1>3, InitType DEF LinkInv, ScoresEnded

LEMMA LinkNext ==
    ASSUME LinkInv, [Next]_vars
    PROVE  LinkInv'
  <1> USE DEF LinkInv
  <1>1. TypeOK'
    BY NextType
  <1>2. ASSUME db' = db, \A r \in db.scores : pc'[r] = pc[r]
        PROVE  LinkInv'
    BY <1>1, <1>2, SubmittedStable DEF ScoresEnded, TokenScoreLinked, At
  <1>3. CASE UNCHANGED vars
    BY <1>2, <1>3 DEF vars
  <1>4. ASSUME NEW t \in Tokens, CreateToken(t)
        PROVE  LinkInv'
    <2>1. db'.scores = db.scores /\ db'.token = [db.token EXCEPT ![t] = Unused]
      BY <1>4 DEF CreateToken
    <2>2. Submitted(t) = {}
      BY <1>4 DEF CreateToken, TokenScoreLinked, Submitted, TypeOK, Databases
    <2>3. \A x \in Tokens : Submitted(x)' = Submitted(x)
      BY <1>4, <2>1, SubmittedStable DEF Next
    <2>4. TokenScoreLinked'
      BY <2>1, <2>2, <2>3 DEF TokenScoreLinked, TypeOK, Databases
    <2>5. QED
      BY <1>1, <1>4, <2>1, <2>4 DEF CreateToken, ScoresEnded, At
  <1>5. ASSUME NEW r \in Requests, NEW t \in Tokens, Authenticate(r, t)
        PROVE  LinkInv'
    BY <1>2, <1>5 DEF Authenticate, ScoresEnded, At, Goto, TypeOK, Databases
  <1>6. ASSUME NEW r \in Requests, Advances(r) \/ Ends(r)
        PROVE  LinkInv'
    BY <1>2, <1>6 DEF Advances, Ends, ScoresEnded, At, Active, TypeOK, Databases
  <1>7. ASSUME NEW r \in Requests, Commit(r)
        PROVE  LinkInv'
    <2>1. db'.scores = db.scores \cup {r} /\ pc' = [pc EXCEPT ![r] = "committed"]
      BY <1>7, CommitEffect DEF Commit, End, Goto
    <2>2. ScoresEnded'
      BY <2>1 DEF ScoresEnded, At, TypeOK, Databases
    <2>3. TokenScoreLinked'
      BY <1>7, CommitEffect DEF TokenScoreLinked
    <2>4. QED
      BY <1>1, <2>2, <2>3
  <1>8. QED
    BY <1>3, <1>4, <1>5, <1>6, <1>7, NextKind

LEMMA LinkAlways == Spec => []LinkInv
  BY LinkInit, LinkNext, PTL DEF Spec

\* A used token names one of its own scores and a score has used its token,
\* whatever overlaps, deadlocks or fails.
THEOREM LinkCorrect == Spec => []TokenScoreLinked
  <1>1. LinkInv => TokenScoreLinked
    BY DEF LinkInv
  <1>2. QED
    BY <1>1, LinkAlways, PTL

-----------------------------------------------------------------------------
(* Counts and statistics.                                                  *)

On(S, b) == {q \in S : Beatmap(q) = b}

\* What r has read was committed, and is sound in itself.
Knows(r) ==
    pc[r] \in Active =>
        /\ snap[r].scores \subseteq db.scores
        /\ \A b \in Beatmaps :
              /\ UpstreamPlays[b] <= snap[r].plays[b]
              /\ snap[r].plays[b] <= UpstreamPlays[b] + Cardinality(On(snap[r].scores, b))
        /\ pc[r] # "lookup" => snap[r].token[Token(r)] = Unused

\* What r shares with no other request it has read as it still is.
Alone(r) ==
    pc[r] \in Active =>
        /\ (/\ Token(r) \notin overlapped
            /\ snap[r].token[Token(r)] = Unused) => db.token[Token(r)] = Unused
        /\ Beatmap(r) \notin overlapped =>
              snap[r].plays[Beatmap(r)] = db.plays[Beatmap(r)]
        /\ User(r) \notin overlapped =>
              Plays(snap[r].scores, User(r)) = Plays(db.scores, User(r))

\* What two requests in progress share is recorded.
Apart(r, q) ==
    (pc[r] \in Active /\ pc[q] \in Active) =>
        /\ Token(q) = Token(r) => Token(r) \in overlapped
        /\ Beatmap(q) = Beatmap(r) => Beatmap(r) \in overlapped
        /\ User(q) = User(r) => User(r) \in overlapped

RequestsSound ==
    /\ \A r \in Requests : Knows(r) /\ Alone(r)
    /\ \A r \in Requests : \A q \in Requests \ {r} : Apart(r, q)

CountInv ==
    /\ LinkInv
    /\ IsFiniteSet(db.scores)
    /\ RequestsSound
    /\ TokenUsedOnce
    /\ PlayCountSound
    /\ StatisticsSound

LEMMA ScoreNames ==
    ASSUME TypeOK, ScoresEnded, [Next]_vars, NEW q \in db.scores
    PROVE  Token(q)' = Token(q) /\ Beatmap(q)' = Beatmap(q) /\ User(q)' = User(q)
  BY NamesStable DEF ScoresEnded, At, TypeOK, Databases

LEMMA CountInit == Init => CountInv
  <1> SUFFICES ASSUME Init PROVE CountInv
    OBVIOUS
  <1>1. PICK today \in SUBSET Users : db = EmptyDb(today)
    BY DEF Init
  <1>2. /\ db.scores = {}
        /\ db.plays = UpstreamPlays
        /\ \A u \in Users : db.stats[u] = {}
    BY <1>1 DEF EmptyDb
  <1>3. IsFiniteSet(db.scores)
    BY <1>2, FS_EmptySet
  <1>4. RequestsSound
    BY DEF Init, RequestsSound, Knows, Alone, Apart, Active
  <1>5. TokenUsedOnce
    BY <1>2, FS_EmptySet DEF TokenUsedOnce, Submitted
  <1>6. PlayCountSound
    BY <1>2, FS_EmptySet DEF PlayCountSound
  <1>7. StatisticsSound
    BY <1>2 DEF StatisticsSound, Plays
  <1>8. QED
    BY <1>3, <1>4, <1>5, <1>6, <1>7, LinkInit DEF CountInv

\* A step that leaves scores, counts and statistics alone keeps what is said
\* of them, whatever it adds to `overlapped`.
LEMMA CountsKept ==
    ASSUME CountInv, [Next]_vars, overlapped \subseteq overlapped',
           db'.scores = db.scores, db'.plays = db.plays, db'.stats = db.stats
    PROVE  TokenUsedOnce' /\ PlayCountSound' /\ StatisticsSound'
  <1> USE DEF CountInv, LinkInv
  <1>1. \A q \in db.scores :
            Token(q)' = Token(q) /\ Beatmap(q)' = Beatmap(q) /\ User(q)' = User(q)
    BY ScoreNames
  <1>2. TokenUsedOnce'
    BY SubmittedStable DEF TokenUsedOnce
  <1>3. ASSUME NEW b \in Beatmaps
        PROVE  {r \in db.scores : Beatmap(r) = b}' = {r \in db.scores : Beatmap(r) = b}
    BY <1>1
  <1>4. PlayCountSound'
    BY <1>3 DEF PlayCountSound
  <1>5. ASSUME NEW u \in Users
        PROVE  Plays(db.scores, u)' = Plays(db.scores, u)
    BY <1>1 DEF Plays
  <1>6. StatisticsSound'
    BY <1>5 DEF StatisticsSound
  <1>7. QED
    BY <1>2, <1>4, <1>6

\* What the requests in progress know survives a step that leaves the counts
\* alone and the snapshots of those that go on.
LEMMA RequestsKept ==
    ASSUME CountInv, [Next]_vars, overlapped' = overlapped,
           db'.scores = db.scores, db'.plays = db.plays,
           \A t \in Tokens : db.token[t] = Unused => db'.token[t] = Unused,
           \A q \in Requests : pc'[q] \in Active =>
               /\ pc[q] \in Active /\ snap'[q] = snap[q]
               /\ \/ pc'[q] = pc[q]
                  \/ pc[q] = "lookup" => snap[q].token[Token(q)] = Unused
    PROVE  RequestsSound'
  <1> USE DEF CountInv, LinkInv
  <1>1. ASSUME NEW q \in Requests, pc'[q] \in Active
        PROVE  /\ pc[q] \in Active /\ snap'[q] = snap[q]
               /\ Token(q) \in Tokens /\ Beatmap(q) \in Beatmaps
               /\ Token(q)' = Token(q) /\ Beatmap(q)' = Beatmap(q) /\ User(q)' = User(q)
    BY <1>1, NamesStable, Named DEF Active
  <1>2. \A q \in db.scores :
            Token(q)' = Token(q) /\ Beatmap(q)' = Beatmap(q) /\ User(q)' = User(q)
    BY ScoreNames
  <1>3. ASSUME NEW q \in Requests, pc'[q] \in Active
        PROVE  Knows(q)'
    <2>1. snap[q].scores \subseteq db.scores
      BY <1>1, <1>3 DEF RequestsSound, Knows
    <2>2. \A b : On(snap[q].scores, b)' = On(snap[q].scores, b)
      BY <1>1, <1>2, <1>3, <2>1 DEF On
    <2>3. \A b \in Beatmaps :
             /\ UpstreamPlays[b] <= snap[q].plays[b]
             /\ snap[q].plays[b] <= UpstreamPlays[b] + Cardinality(On(snap[q].scores, b))
      BY <1>1, <1>3 DEF RequestsSound, Knows
    <2>4. pc'[q] # "lookup" => snap[q].token[Token(q)] = Unused
      BY <1>1, <1>3 DEF RequestsSound, Knows
    <2>5. QED
      BY <1>1, <1>3, <2>1, <2>2, <2>3, <2>4 DEF Knows
  <1>4. ASSUME NEW q \in Requests, pc'[q] \in Active
        PROVE  Alone(q)'
    <2>1. snap[q].scores \subseteq db.scores /\ Alone(q)
      BY <1>1, <1>4 DEF RequestsSound, Knows
    <2>2. \A u : /\ Plays(snap[q].scores, u)' = Plays(snap[q].scores, u)
                 /\ Plays(db.scores, u)' = Plays(db.scores, u)
      BY <1>1, <1>2, <1>4, <2>1 DEF Plays
    <2>3. QED
      BY <1>1, <1>4, <2>1, <2>2 DEF Alone
  <1>5. ASSUME NEW r \in Requests, NEW q \in Requests \ {r}
        PROVE  Apart(r, q)'
    BY <1>1 DEF RequestsSound, Apart
  <1>6. \A q \in Requests : Knows(q)' /\ Alone(q)'
    BY <1>3, <1>4 DEF Knows, Alone
  <1>7. QED
    BY <1>5, <1>6 DEF RequestsSound

LEMMA CountCreate ==
    ASSUME CountInv, NEW t \in Tokens, CreateToken(t)
    PROVE  CountInv'
  <1>1. /\ db'.scores = db.scores /\ db'.plays = db.plays /\ db'.stats = db.stats
        /\ db'.token = [db.token EXCEPT ![t] = Unused]
    BY DEF CreateToken
  <1>2. [Next]_vars
    BY DEF Next
  <1>3. LinkInv'
    BY <1>2, LinkNext DEF CountInv
  <1>4. \A x \in Tokens : db.token[x] = Unused => db'.token[x] = Unused
    BY <1>1 DEF CountInv, LinkInv, TypeOK, Databases
  <1>5. RequestsSound'
    BY <1>1, <1>2, <1>4, RequestsKept DEF CreateToken
  <1>6. QED
    BY <1>1, <1>2, <1>3, <1>5, CountsKept DEF CountInv, CreateToken

LEMMA CountQuiet ==
    ASSUME CountInv, NEW r \in Requests, Next, Advances(r) \/ Ends(r)
    PROVE  CountInv'
  <1>1. LinkInv'
    BY LinkNext DEF CountInv
  <1>2. RequestsSound'
    BY RequestsKept DEF Advances, Ends, Active
  <1>3. QED
    BY <1>1, <1>2, CountsKept DEF CountInv, Advances, Ends

LEMMA CountAuthenticate ==
    ASSUME CountInv, NEW r \in Requests, NEW t \in Tokens, Authenticate(r, t)
    PROVE  CountInv'
  <1> USE DEF CountInv, LinkInv
  <1>1. [Next]_vars
    BY DEF Next
  <1>2. /\ db' = db /\ snap' = [snap EXCEPT ![r] = db]
        /\ pc' = [pc EXCEPT ![r] = "lookup"] /\ pc[r] = "idle"
        /\ overlapped' = overlapped \cup InCommon(r, t)
    BY DEF Authenticate, At, Goto
  <1>3. Token(r)' = t
    BY ChooseSingle DEF Authenticate, Token, TypeOK
  <1>4. \A q \in db.scores :
            Token(q)' = Token(q) /\ Beatmap(q)' = Beatmap(q) /\ User(q)' = User(q)
    BY <1>1, ScoreNames
  <1>5. ASSUME NEW q \in Requests \ {r}, pc'[q] \in Active
        PROVE  /\ pc[q] \in Active /\ snap'[q] = snap[q]
               /\ Token(q)' = Token(q) /\ Beatmap(q)' = Beatmap(q) /\ User(q)' = User(q)
    BY <1>1, <1>2, <1>5, NamesStable DEF Active, TypeOK
  <1>6. /\ LinkInv'
        /\ TokenUsedOnce' /\ PlayCountSound' /\ StatisticsSound'
    BY <1>1, <1>2, LinkNext, CountsKept
  <1>7. ASSUME NEW q \in Requests \ {r}, pc'[q] \in Active
        PROVE  Knows(q)' /\ Alone(q)'
    <2>1. pc[q] \in Active /\ Knows(q) /\ Alone(q) /\ snap[q].scores \subseteq db.scores
      BY <1>5, <1>7 DEF RequestsSound, Knows
    <2>2. \A b : On(snap[q].scores, b)' = On(snap[q].scores, b)
      BY <1>4, <1>5, <1>7, <2>1 DEF On
    <2>3. \A u : /\ Plays(snap[q].scores, u)' = Plays(snap[q].scores, u)
                 /\ Plays(db.scores, u)' = Plays(db.scores, u)
      BY <1>2, <1>4, <1>5, <1>7, <2>1 DEF Plays
    <2>4. pc'[q] = pc[q]
      BY <1>2 DEF TypeOK
    <2>5. QED
      BY <1>2, <1>5, <1>7, <2>1, <2>2, <2>3, <2>4 DEF Knows, Alone
  <1>8. Knows(r)' /\ Alone(r)'
    <2>1. snap'[r] = db /\ pc'[r] = "lookup"
      BY <1>2 DEF TypeOK
    <2>2. \A b \in Beatmaps :
             /\ UpstreamPlays[b] <= db.plays[b]
             /\ db.plays[b] <= UpstreamPlays[b] + Cardinality(On(db.scores, b))'
      BY <1>2, <1>6 DEF PlayCountSound, On
    <2>3. QED
      BY <1>2, <2>1, <2>2 DEF Knows, Alone, On
  <1>9. ASSUME NEW q \in Requests \ {r}
        PROVE  Apart(r, q)' /\ Apart(q, r)'
    <2>1. SUFFICES ASSUME pc'[q] \in Active
                   PROVE  Apart(r, q)' /\ Apart(q, r)'
      BY DEF Apart
    <2>2. \A x \in {t, TokenBeatmap[t], TokenUser[t]} :
              x \in {Token(q), Beatmap(q), User(q)} => x \in overlapped'
      BY <1>2, <1>5, <2>1 DEF InCommon
    <2>3. Beatmap(r)' = TokenBeatmap[t] /\ User(r)' = TokenUser[t]
      BY <1>3 DEF Beatmap, User
    <2>4. QED
      BY <1>3, <1>5, <2>1, <2>2, <2>3 DEF Apart
  <1>10. ASSUME NEW p \in Requests \ {r}, NEW q \in Requests \ {r}, p # q
         PROVE  Apart(p, q)'
    BY <1>2, <1>5, <1>10 DEF RequestsSound, Apart
  <1>11. RequestsSound'
    <2>1. \A q \in Requests : Knows(q)' /\ Alone(q)'
      BY <1>7, <1>8 DEF Knows, Alone
    <2>2. QED
      BY <1>9, <1>10, <2>1 DEF RequestsSound
  <1>12. QED
    BY <1>2, <1>6, <1>11

\* What a commit does to the database, the token apart.
Commits(r) ==
    /\ pc[r] \in Active /\ pc[r] # "lookup"
    /\ pc' = [pc EXCEPT ![r] = "committed"] /\ overlapped' = overlapped
    /\ \A q \in Requests \ {r} : snap'[q] = snap[q]
    /\ r \notin db.scores /\ db'.scores = db.scores \cup {r}
    /\ db'.plays = [db.plays EXCEPT ![Beatmap(r)] = snap[r].plays[Beatmap(r)] + 1]
    /\ db'.stats = IF Token(r) \in NoGameMode THEN db.stats
                   ELSE [db.stats EXCEPT ![User(r)] =
                            Plays(snap[r].scores, User(r)) \cup {r}]
    /\ \A q \in db'.scores : Token(q)' = Token(q) /\ Beatmap(q)' = Beatmap(q)
                            /\ User(q)' = User(q)

LEMMA CommitCounts ==
    ASSUME CountInv, NEW r \in Requests, Commit(r)
    PROVE  Commits(r)
  <1> USE DEF CountInv, LinkInv
  <1>1. pc[r] \in Active /\ pc[r] # "lookup"
    BY DEF Commit, At, Active
  <1>2. /\ pc' = [pc EXCEPT ![r] = "committed"] /\ overlapped' = overlapped
        /\ \A q \in Requests \ {r} : snap'[q] = snap[q]
    BY DEF Commit, End, Goto, TypeOK
  <1>3. r \notin db.scores /\ db'.scores = db.scores \cup {r}
    BY CommitEffect
  <1>4. db'.plays = [db.plays EXCEPT ![Beatmap(r)] = snap[r].plays[Beatmap(r)] + 1]
    BY DEF Commit, Written
  <1>5. db'.stats = IF Token(r) \in NoGameMode THEN db.stats
                    ELSE [db.stats EXCEPT ![User(r)] =
                             Plays(snap[r].scores, User(r)) \cup {r}]
    BY DEF Commit, Written
  <1>6. \A q \in db'.scores : Token(q)' = Token(q) /\ Beatmap(q)' = Beatmap(q)
                              /\ User(q)' = User(q)
    BY KeptNames DEF Commit
  <1>7. QED
    BY <1>1, <1>2, <1>3, <1>4, <1>5, <1>6 DEF Commits

LEMMA CommitPlays ==
    ASSUME CountInv, NEW r \in Requests, Commit(r)
    PROVE  PlayCountSound'
  <1> USE DEF CountInv, LinkInv
  <1>0. Commits(r)
    BY CommitCounts
  <1> SUFFICES ASSUME NEW b \in Beatmaps
               PROVE  /\ UpstreamPlays[b] <= db'.plays[b]
                      /\ db'.plays[b] <= UpstreamPlays[b] + Cardinality(On(db.scores, b))'
                      /\ Cardinality(On(db.scores, b))' > 0 => db'.plays[b] > UpstreamPlays[b]
                      /\ b \notin overlapped' =>
                            db'.plays[b] = UpstreamPlays[b] + Cardinality(On(db.scores, b))'
    BY DEF PlayCountSound, On
  <1>1. /\ On(db.scores, b)' = IF b = Beatmap(r) THEN On(db.scores, b) \cup {r}
                                                ELSE On(db.scores, b)
        /\ r \notin On(db.scores, b)
    BY <1>0 DEF On, Commits
  <1>2. IsFiniteSet(On(db.scores, b))
    BY FS_Subset DEF On
  <1>3. /\ db.plays \in [Beatmaps -> Nat]
        /\ UpstreamPlays[b] <= db.plays[b]
        /\ db.plays[b] <= UpstreamPlays[b] + Cardinality(On(db.scores, b))
        /\ Cardinality(On(db.scores, b)) > 0 => db.plays[b] > UpstreamPlays[b]
        /\ b \notin overlapped => db.plays[b] = UpstreamPlays[b] + Cardinality(On(db.scores, b))
    BY DEF PlayCountSound, On, TypeOK, Databases
  <1>4. CASE b # Beatmap(r)
    BY <1>1, <1>3, <1>4, <1>0 DEF Commits
  <1>5. CASE b = Beatmap(r)
    <2>1. /\ Knows(r) /\ Alone(r)
          /\ snap[r].plays \in [Beatmaps -> Nat]
      BY DEF RequestsSound, TypeOK, Databases
    <2>2. /\ On(snap[r].scores, b) \subseteq On(db.scores, b)
          /\ UpstreamPlays[b] <= snap[r].plays[b]
          /\ snap[r].plays[b] <= UpstreamPlays[b] + Cardinality(On(snap[r].scores, b))
      BY <2>1, <1>0 DEF Knows, On, Commits
    <2>3. /\ Cardinality(On(snap[r].scores, b)) <= Cardinality(On(db.scores, b))
          /\ Cardinality(On(snap[r].scores, b)) \in Nat
          /\ Cardinality(On(db.scores, b)) \in Nat
      BY <1>2, <2>2, FS_Subset, FS_CardinalityType
    <2>4. Cardinality(On(db.scores, b))' = Cardinality(On(db.scores, b)) + 1
      BY <1>1, <1>2, <1>5, FS_AddElement
    <2>5. db'.plays[b] = snap[r].plays[b] + 1
      BY <1>3, <1>5, <1>0 DEF Commits
    <2>6. b \notin overlapped => snap[r].plays[b] = db.plays[b]
      BY <1>5, <2>1, <1>0 DEF Alone, Commits
    <2>7. QED
      BY <1>3, <2>1, <2>2, <2>3, <2>4, <2>5, <2>6, <1>0 DEF Commits
  <1>6. QED
    BY <1>4, <1>5

LEMMA CommitStatistics ==
    ASSUME CountInv, NEW r \in Requests, Commit(r)
    PROVE  StatisticsSound'
  <1> USE DEF CountInv, LinkInv
  <1>0. Commits(r)
    BY CommitCounts
  <1> SUFFICES ASSUME NEW u \in Users
               PROVE  /\ db'.stats[u] \subseteq Plays(db.scores, u)'
                      /\ u \notin overlapped' => db'.stats[u] = Plays(db.scores, u)'
    BY DEF StatisticsSound
  <1>1. Plays(db.scores, u)' = IF u = User(r) /\ Token(r) \notin NoGameMode
                                 THEN Plays(db.scores, u) \cup {r}
                                 ELSE Plays(db.scores, u)
    BY <1>0 DEF Plays, Commits
  <1>2. /\ db.stats[u] \subseteq Plays(db.scores, u)
        /\ u \notin overlapped => db.stats[u] = Plays(db.scores, u)
        /\ db.stats \in [Users -> SUBSET Requests]
    BY DEF StatisticsSound, TypeOK, Databases
  <1>3. CASE u = User(r) /\ Token(r) \notin NoGameMode
    <2>1. Knows(r) /\ Alone(r)
      BY DEF RequestsSound
    <2>2. Plays(snap[r].scores, u) \subseteq Plays(db.scores, u)
      BY <2>1, <1>0 DEF Knows, Plays, Commits
    <2>3. u \notin overlapped => Plays(snap[r].scores, u) = Plays(db.scores, u)
      BY <1>3, <2>1, <1>0 DEF Alone, Commits
    <2>4. db'.stats[u] = Plays(snap[r].scores, u) \cup {r}
      BY <1>2, <1>3, <1>0 DEF Commits
    <2>5. QED
      BY <1>1, <1>3, <2>2, <2>3, <2>4, <1>0 DEF Commits
  <1>4. CASE ~(u = User(r) /\ Token(r) \notin NoGameMode)
    BY <1>1, <1>2, <1>4, <1>0 DEF Commits
  <1>5. QED
    BY <1>3, <1>4

\* The token of a request that ran alone was unused until it committed.
LEMMA CommitOnce ==
    ASSUME CountInv, NEW r \in Requests, Commit(r)
    PROVE  TokenUsedOnce'
  <1> USE DEF CountInv, LinkInv
  <1>0. Commits(r)
    BY CommitCounts
  <1> SUFFICES ASSUME NEW t \in Tokens, t \notin overlapped
               PROVE  Cardinality(Submitted(t))' <= 1
    BY <1>0 DEF TokenUsedOnce, Commits
  <1>1. Submitted(t)' = IF t = Token(r) THEN Submitted(t) \cup {r} ELSE Submitted(t)
    BY CommitEffect
  <1>2. Cardinality(Submitted(t)) <= 1
    BY DEF TokenUsedOnce
  <1>3. CASE t = Token(r)
    <2>1. db.token[t] = Unused
      BY <1>3, <1>0 DEF RequestsSound, Knows, Alone, Commits
    <2>2. Submitted(t) = {}
      BY <2>1 DEF TokenScoreLinked, Submitted, TypeOK, Databases
    <2>3. Submitted(t)' = {r}
      BY <1>1, <1>3, <2>2
    <2>4. Cardinality({r}) = 1
      BY FS_Singleton
    <2>5. QED
      BY <2>3, <2>4
  <1>4. QED
    BY <1>1, <1>2, <1>3

LEMMA CommitRequests ==
    ASSUME CountInv, NEW r \in Requests, Commit(r)
    PROVE  RequestsSound'
  <1> USE DEF CountInv, LinkInv
  <1>0. Commits(r)
    BY CommitCounts
  <1>1. [Next]_vars
    BY DEF Next, Step
  <1>2. pc'[r] \notin Active /\ \A q \in Requests \ {r} : pc'[q] = pc[q]
    BY <1>0 DEF Active, TypeOK, Commits
  <1>3. ASSUME NEW q \in Requests, pc'[q] \in Active
        PROVE  /\ q # r /\ pc'[q] = pc[q] /\ snap'[q] = snap[q]
               /\ Token(q) \in Tokens /\ Beatmap(q) \in Beatmaps /\ User(q) \in Users
               /\ Token(q)' = Token(q) /\ Beatmap(q)' = Beatmap(q) /\ User(q)' = User(q)
               /\ Knows(q) /\ Alone(q) /\ Apart(q, r)
    <2>1. q # r /\ pc'[q] = pc[q] /\ pc[q] # "idle"
      BY <1>2, <1>3 DEF Active
    <2>2. snap'[q] = snap[q]
      BY <2>1, <1>0 DEF Commits
    <2>3. QED
      BY <1>1, <2>1, <2>2, NamesStable, Named DEF RequestsSound
  <1>4. ASSUME NEW q \in Requests, pc'[q] \in Active
        PROVE  Knows(q)'
    <2>1. snap[q].scores \subseteq db.scores
      BY <1>3, <1>4 DEF Knows
    <2>2. \A b : On(snap[q].scores, b)' = On(snap[q].scores, b)
      BY <1>3, <1>4, <2>1, <1>0 DEF On, Commits
    <2>3. QED
      BY <1>3, <1>4, <2>1, <2>2, <1>0 DEF Knows, Commits
  <1>5. ASSUME NEW q \in Requests, pc'[q] \in Active
        PROVE  Alone(q)'
    <2> USE <1>3, <1>5
    <2>1. /\ Token(q) \notin overlapped => db'.token[Token(q)] = db.token[Token(q)]
          /\ Beatmap(q) \notin overlapped => db'.plays[Beatmap(q)] = db.plays[Beatmap(q)]
      <3>1. pc[q] \in Active /\ pc[r] \in Active
        BY <1>0 DEF Commits
      <3>2. Token(q) \notin overlapped => db'.token[Token(q)] = db.token[Token(q)]
        BY <3>1, CommitEffect DEF Apart
      <3>3. db.plays \in [Beatmaps -> Nat]
        BY DEF TypeOK, Databases
      <3>4. QED
        BY <1>0, <3>1, <3>2, <3>3 DEF Apart, Commits
    <2>2. snap[q].scores \subseteq db.scores
      BY DEF Knows
    <2>3. Plays(snap[q].scores, User(q))' = Plays(snap[q].scores, User(q))
      BY <2>2, <1>0 DEF Plays, Commits
    <2>4. User(q) \notin overlapped =>
             Plays(db.scores, User(q))' = Plays(db.scores, User(q))
      BY <1>0 DEF Apart, Plays, Commits
    <2>5. QED
      BY <2>1, <2>3, <2>4, <1>0 DEF Alone, Commits
  <1>6. ASSUME NEW p \in Requests, NEW q \in Requests \ {p}
        PROVE  Apart(p, q)'
    BY <1>3, <1>0 DEF RequestsSound, Apart, Commits
  <1>7. \A q \in Requests : Knows(q)' /\ Alone(q)'
    BY <1>4, <1>5 DEF Knows, Alone
  <1>8. QED
    BY <1>6, <1>7 DEF RequestsSound

LEMMA CountNext ==
    ASSUME CountInv, [Next]_vars
    PROVE  CountInv'
  <1>1. CASE UNCHANGED vars
    <2>1. LinkInv'
      BY <1>1, LinkNext DEF CountInv
    <2>2. RequestsSound'
      BY <1>1, RequestsKept DEF vars
    <2>3. QED
      BY <1>1, <2>1, <2>2, CountsKept DEF CountInv, vars
  <1>2. ASSUME NEW r \in Requests, Commit(r)
        PROVE  CountInv'
    <2>1. LinkInv'
      BY <1>2, LinkNext DEF CountInv, Next, Step
    <2>2. IsFiniteSet(db.scores \cup {r}) /\ db'.scores = db.scores \cup {r}
      BY <1>2, CommitCounts, FS_AddElement DEF CountInv, Commits
    <2>3. QED
      BY <1>2, <2>1, <2>2, CommitPlays, CommitStatistics, CommitOnce, CommitRequests
         DEF CountInv
  <1>3. CASE Next
    BY <1>2, <1>3, NextKind, CountCreate, CountAuthenticate, CountQuiet
       DEF CountInv, LinkInv
  <1>4. QED
    BY <1>1, <1>3

LEMMA CountAlways == Spec => []CountInv
  BY CountInit, CountNext, PTL DEF Spec

\* A token gives one score unless two requests for it were open at once.
THEOREM OnceCorrect == Spec => []TokenUsedOnce
  <1>1. CountInv => TokenUsedOnce
    BY DEF CountInv
  <1>2. QED
    BY <1>1, CountAlways, PTL

\* A beatmap's play_count is at most the number of its scores, positive when
\* there are any, and exact where no two submissions overlapped.
THEOREM PlayCountCorrect == Spec => []PlayCountSound
  <1>1. CountInv => PlayCountSound
    BY DEF CountInv
  <1>2. QED
    BY <1>1, CountAlways, PTL

\* A user's statistics count only committed scores of the user, and all of
\* them where no two of its submissions overlapped.
THEOREM StatisticsCorrect == Spec => []StatisticsSound
  <1>1. CountInv => StatisticsSound
    BY DEF CountInv
  <1>2. QED
    BY <1>1, CountAlways, PTL

-----------------------------------------------------------------------------
(* A submission that nothing overlapped is as if its handler ran at once.  *)

\* Where no other submission in progress shared its token, its beatmap or its
\* user, a commit does with each what the handler would do at that moment: the
\* token it uses is unused, one play is added to those the beatmap has, and
\* the statistics come to count every score of the user.
THEOREM CommitsAsAtOnce ==
    Spec => [][\A r \in Requests : Commit(r) =>
                  LET t == Token(r)  b == Beatmap(r)  u == User(r)
                  IN  /\ t \notin overlapped => db.token[t] = Unused
                      /\ b \notin overlapped => db'.plays[b] = db.plays[b] + 1
                      /\ u \notin overlapped /\ t \notin NoGameMode =>
                            db'.stats[u] = Plays(db.scores, u) \cup {r}]_vars
  <1> DEFINE Serial ==
        \A r \in Requests : Commit(r) =>
            LET t == Token(r)  b == Beatmap(r)  u == User(r)
            IN  /\ t \notin overlapped => db.token[t] = Unused
                /\ b \notin overlapped => db'.plays[b] = db.plays[b] + 1
                /\ u \notin overlapped /\ t \notin NoGameMode =>
                      db'.stats[u] = Plays(db.scores, u) \cup {r}
  <1>1. CountInv => Serial
    <2> SUFFICES ASSUME CountInv, NEW r \in Requests, Commit(r)
                 PROVE  /\ Token(r) \notin overlapped => db.token[Token(r)] = Unused
                        /\ Beatmap(r) \notin overlapped =>
                              db'.plays[Beatmap(r)] = db.plays[Beatmap(r)] + 1
                        /\ User(r) \notin overlapped /\ Token(r) \notin NoGameMode =>
                              db'.stats[User(r)] = Plays(db.scores, User(r)) \cup {r}
      OBVIOUS
    <2>1. Commits(r) /\ Knows(r) /\ Alone(r)
      BY CommitCounts DEF CountInv, RequestsSound
    <2>2. Beatmap(r) \in Beatmaps /\ User(r) \in Users /\ db \in Databases
      BY Named DEF CountInv, LinkInv, TypeOK, Commit, At
    <2>3. Token(r) \notin overlapped => db.token[Token(r)] = Unused
      BY <2>1 DEF Commits, Knows, Alone
    <2>4. Beatmap(r) \notin overlapped => db'.plays[Beatmap(r)] = db.plays[Beatmap(r)] + 1
      BY <2>1, <2>2 DEF Commits, Alone, Databases
    <2>5. User(r) \notin overlapped /\ Token(r) \notin NoGameMode =>
              db'.stats[User(r)] = Plays(db.scores, User(r)) \cup {r}
      BY <2>1, <2>2 DEF Commits, Alone, Databases
    <2>6. QED
      BY <2>3, <2>4, <2>5
  <1>2. CountInv => [Serial]_vars
    BY <1>1
  <1> HIDE DEF Serial
  <1>3. Spec => [][Serial]_vars
    BY <1>2, CountAlways, PTL
  <1>4. QED
    BY <1>3 DEF Serial

-----------------------------------------------------------------------------
(* What is announced is committed, about to be, or lost.                   *)

AnnounceInv ==
    /\ TypeOK
    /\ \A r \in db.scores : At(r, "committed")
    /\ \A r \in Requests :
          /\ At(r, "committed") => r \in db.scores
          /\ pc[r] \in {"commit", "committed"} => r \in notified
          /\ r \in notified => pc[r] \in {"commit", "committed", "failed"}

LEMMA AnnounceInit == Init => AnnounceInv
  <1> SUFFICES ASSUME Init PROVE AnnounceInv
    OBVIOUS
  <1>1. db.scores = {}
    BY DEF Init, EmptyDb
  <1>2. QED
    BY <1>1, InitType DEF Init, AnnounceInv, At

LEMMA AnnounceNext ==
    ASSUME AnnounceInv, [Next]_vars
    PROVE  AnnounceInv'
  <1> USE DEF AnnounceInv
  <1>1. TypeOK'
    BY NextType
  <1>2. CASE UNCHANGED vars
    BY <1>1, <1>2 DEF vars, At
  <1>3. ASSUME NEW t \in Tokens, CreateToken(t)
        PROVE  AnnounceInv'
    BY <1>1, <1>3 DEF CreateToken, At
  <1>4. ASSUME NEW r \in Requests, NEW t \in Tokens, Authenticate(r, t)
        PROVE  AnnounceInv'
    BY <1>1, <1>4 DEF Authenticate, At, Goto, TypeOK
  <1>5. ASSUME NEW r \in Requests, Commit(r)
        PROVE  AnnounceInv'
    <2>1. /\ db'.scores = db.scores \cup {r} /\ pc' = [pc EXCEPT ![r] = "committed"]
          /\ notified' = notified /\ r \in notified
      BY <1>5 DEF Commit, Written, End, Goto, At
    <2>2. QED
      BY <1>1, <2>1 DEF At, TypeOK
  <1>6. ASSUME NEW r \in Requests, Step(r) \/ Fail(r), ~Commit(r)
        PROVE  AnnounceInv'
    <2>1. Advances(r) \/ Ends(r)
      BY <1>6, StepKind
    <2>2. db' = db /\ pc[r] \in Active /\ \A q \in Requests \ {r} : pc'[q] = pc[q]
      BY <2>1 DEF Advances, Ends
    <2>3. \A q \in Requests \ {r} :
              (q \in notified' <=> q \in notified)
      BY <1>6
         DEF Step, LookupToken, InsertScore, UpdateBeatmap, DeadlockVictim, UpdateStatistics,
             SkipStatistics, RecordRank, NotifyProcessed, Rollback, Fail
    <2>4. /\ pc'[r] # "committed"
          /\ pc'[r] = "commit" => r \in notified'
          /\ r \in notified' => pc'[r] \in {"commit", "failed"}
      BY <1>6, <2>2
         DEF Step, LookupToken, InsertScore, UpdateBeatmap, DeadlockVictim, UpdateStatistics,
             SkipStatistics, RecordRank, NotifyProcessed, Rollback, End, Goto, At, Fail, TypeOK, Active
    <2>5. r \notin db.scores
      BY <2>2 DEF At, Active
    <2>6. QED
      BY <1>1, <2>2, <2>3, <2>4, <2>5 DEF At, TypeOK, Databases
  <1>7. QED
    BY <1>2, <1>3, <1>4, <1>5, <1>6 DEF Next, Step

\* Every committed score has been announced, and what is announced and not
\* committed is about to be, or is lost: the two ways in which the client is
\* told of statistics it cannot fetch.
THEOREM AnnouncedEarlyOrLost ==
    Spec => [](/\ db.scores \subseteq notified
               /\ \A r \in notified \ db.scores : pc[r] \in {"commit", "failed"})
  <1>1. AnnounceInv => /\ db.scores \subseteq notified
                       /\ \A r \in notified \ db.scores : pc[r] \in {"commit", "failed"}
    BY DEF AnnounceInv, At, TypeOK, Databases
  <1>2. QED
    BY <1>1, AnnounceInit, AnnounceNext, PTL DEF Spec

-----------------------------------------------------------------------------
(* Nobody waits for ever: the safety core of RequestsEnd.                  *)

\* The locks a request holds are those its label says.
HeldAt(r) ==
    CASE pc[r] = "update" -> {Shared(Beatmap(r))}
      [] pc[r] = "stats" -> {Shared(Beatmap(r)), Exclusive(Beatmap(r))}
      [] pc[r] \in {"history", "notify", "commit"} ->
            {Shared(Beatmap(r)), Exclusive(Beatmap(r))}
              \cup (IF Token(r) \in NoGameMode THEN {} ELSE {Exclusive(User(r))})
      [] OTHER -> {}

\* No row is locked exclusively by one and at all by another.
LocksExclude ==
    \A r \in Requests : \A q \in Requests \ {r} : \A x \in Beatmaps \cup Users :
        Exclusive(x) \in locks[r] => Exclusive(x) \notin locks[q] /\ Shared(x) \notin locks[q]

LockInv ==
    /\ TypeOK
    /\ \A r \in Requests : locks[r] = HeldAt(r)
    /\ \A r \in Requests : At(r, "history") => Token(r) \notin NoGameMode
    /\ LocksExclude

LEMMA LockNamesApart == \A x, y : Shared(x) # Exclusive(y)
                              /\ (Shared(x) = Shared(y) => x = y)
                              /\ (Exclusive(x) = Exclusive(y) => x = y)
  BY DEF Shared, Exclusive

\* A request that takes lock x at its step, which nobody else holds against it.
LEMMA LockStep ==
    ASSUME LockInv, TypeOK', NEW r \in Requests, pc[r] # "idle",
           asked' = asked,
           \A q \in Requests \ {r} : pc'[q] = pc[q] /\ locks'[q] = locks[q],
           locks'[r] = HeldAt(r)',
           At(r, "history")' => Token(r) \notin NoGameMode,
           \A q \in Requests \ {r} : \A x \in Beatmaps \cup Users :
               /\ Exclusive(x) \in locks'[r] \ locks[r] =>
                     Exclusive(x) \notin locks[q] /\ Shared(x) \notin locks[q]
               /\ Shared(x) \in locks'[r] \ locks[r] => Exclusive(x) \notin locks[q]
    PROVE  LockInv'
  <1>1. \A q \in Requests : Token(q)' = Token(q) /\ Beatmap(q)' = Beatmap(q) /\ User(q)' = User(q)
    BY KeptNames
  <1>2. \A q \in Requests : locks'[q] = HeldAt(q)'
    BY <1>1 DEF LockInv, HeldAt
  <1>3. \A q \in Requests : At(q, "history")' => Token(q)' \notin NoGameMode
    BY <1>1 DEF LockInv, At
  <1>4. LocksExclude'
    <2> SUFFICES ASSUME NEW p \in Requests, NEW q \in Requests \ {p}, NEW x \in Beatmaps \cup Users,
                        Exclusive(x) \in locks'[p]
                 PROVE  Exclusive(x) \notin locks'[q] /\ Shared(x) \notin locks'[q]
      BY DEF LocksExclude
    <2>1. CASE p = r
      BY <2>1 DEF LockInv, LocksExclude
    <2>2. CASE q = r /\ p # r
      BY <2>2 DEF LockInv, LocksExclude
    <2>3. CASE p # r /\ q # r
      BY <2>3 DEF LockInv, LocksExclude
    <2>4. QED
      BY <2>1, <2>2, <2>3
  <1>5. QED
    BY <1>2, <1>3, <1>4 DEF LockInv

LEMMA LockInit == Init => LockInv
  BY InitType DEF Init, LockInv, HeldAt, LocksExclude, At

\* Requests that go on without a lock, and those that end.
LEMMA LockFree ==
    ASSUME LockInv, TypeOK', NEW r \in Requests,
           LookupToken(r) \/ DeadlockVictim(r) \/ SkipStatistics(r) \/ RecordRank(r)
             \/ NotifyProcessed(r) \/ Commit(r) \/ Fail(r)
    PROVE  LockInv'
  <1> USE DEF LockInv, TypeOK
  <1>1. /\ pc[r] \in Active /\ pc[r] # "idle" /\ asked' = asked
        /\ \A q \in Requests \ {r} : pc'[q] = pc[q] /\ locks'[q] = locks[q]
    BY DEF LookupToken, DeadlockVictim, SkipStatistics, RecordRank, NotifyProcessed, Commit, Fail,
           Rollback, End, Goto, At, Active
  <1>2. Token(r)' = Token(r) /\ Beatmap(r)' = Beatmap(r) /\ User(r)' = User(r)
    BY <1>1, KeptNames
  <1>3. \/ pc'[r] \in Ended /\ locks'[r] = {}
        \/ /\ locks'[r] = locks[r]
           /\ \/ pc[r] = "lookup" /\ pc'[r] = "insert"
              \/ pc[r] = "stats" /\ pc'[r] = "notify" /\ Token(r) \in NoGameMode
              \/ pc[r] = "history" /\ pc'[r] = "notify"
              \/ pc[r] = "notify" /\ pc'[r] = "commit"
    BY DEF LookupToken, DeadlockVictim, SkipStatistics, RecordRank, NotifyProcessed, Commit, Fail,
           Rollback, End, Goto, At, Ended
  <1>4. locks'[r] = HeldAt(r)'
    <2>1. locks[r] = HeldAt(r) /\ (pc[r] = "history" => Token(r) \notin NoGameMode)
      BY DEF At
    <2>2. QED
      BY <1>2, <1>3, <2>1 DEF HeldAt, Ended
  <1>5. ~At(r, "history")' /\ locks'[r] \subseteq locks[r]
    BY <1>3 DEF At, Ended
  <1>6. QED
    BY <1>1, <1>4, <1>5, LockStep

\* Who holds what: the label of a request that has a lock.
LEMMA Holders ==
    ASSUME LockInv, NEW q \in Requests
    PROVE  /\ \A u \in Users : Exclusive(u) \in locks[q] => pc[q] \in {"history", "notify", "commit"}
           /\ \A b \in Beatmaps : Exclusive(b) \in locks[q] =>
                  pc[q] \in {"stats", "history", "notify", "commit"}
           /\ \A x : Shared(x) \in locks[q] =>
                  /\ pc[q] \in {"update", "stats", "history", "notify", "commit"}
                  /\ Beatmap(q) = x
  <1>1. locks[q] = HeldAt(q)
    BY DEF LockInv
  <1>2. pc[q] \in Active => Beatmap(q) \in Beatmaps /\ User(q) \in Users
    BY Named DEF LockInv, Active
  <1>3. ASSUME NEW u \in Users, Exclusive(u) \in locks[q]
        PROVE  pc[q] \in {"history", "notify", "commit"}
    BY <1>1, <1>2, <1>3, LockNamesApart, RowsAssumption DEF HeldAt, Active
  <1>4. ASSUME NEW b \in Beatmaps, Exclusive(b) \in locks[q]
        PROVE  pc[q] \in {"stats", "history", "notify", "commit"}
    BY <1>1, <1>4, LockNamesApart DEF HeldAt
  <1>5. ASSUME NEW x, Shared(x) \in locks[q]
        PROVE  /\ pc[q] \in {"update", "stats", "history", "notify", "commit"}
               /\ Beatmap(q) = x
    BY <1>1, <1>5, LockNamesApart DEF HeldAt
  <1>6. QED
    BY <1>3, <1>4, <1>5

LEMMA LockTaken ==
    ASSUME LockInv, TypeOK', NEW r \in Requests,
           InsertScore(r) \/ UpdateBeatmap(r) \/ UpdateStatistics(r)
    PROVE  LockInv'
  <1> USE DEF LockInv, TypeOK
  <1>1. /\ pc[r] \in Active /\ pc[r] # "idle" /\ asked' = asked
        /\ \A q \in Requests \ {r} : pc'[q] = pc[q] /\ locks'[q] = locks[q]
    BY DEF InsertScore, UpdateBeatmap, UpdateStatistics, Goto, At, Active
  <1>2. /\ Token(r)' = Token(r) /\ Beatmap(r)' = Beatmap(r) /\ User(r)' = User(r)
        /\ locks[r] = HeldAt(r)
    BY <1>1, KeptNames
  <1>3. CASE InsertScore(r)
    <2>1. /\ pc[r] = "insert" /\ pc'[r] = "update" /\ Free(r, Exclusive(Beatmap(r)))
          /\ locks'[r] = locks[r] \cup {Shared(Beatmap(r))}
      BY <1>3 DEF InsertScore, Goto, At
    <2>2. locks[r] = {} /\ locks'[r] = HeldAt(r)'
      BY <1>2, <2>1 DEF HeldAt
    <2>3. \A x : /\ Exclusive(x) \notin locks'[r]
                 /\ Shared(x) \in locks'[r] => x = Beatmap(r)
      BY <2>1, <2>2, LockNamesApart
    <2>4. ~At(r, "history")'
      BY <2>1 DEF At
    <2>5. QED
      BY <1>1, <2>1, <2>2, <2>3, <2>4, LockStep DEF Free
  <1>4. CASE UpdateBeatmap(r)
    <2>1. /\ pc[r] = "update" /\ pc'[r] = "stats" /\ Free(r, Shared(Beatmap(r)))
          /\ locks'[r] = locks[r] \cup {Exclusive(Beatmap(r))}
      BY <1>4 DEF UpdateBeatmap, Goto, At
    <2>2. locks[r] = {Shared(Beatmap(r))} /\ locks'[r] = HeldAt(r)'
      BY <1>2, <2>1 DEF HeldAt
    <2>3. \A x : /\ Exclusive(x) \in locks'[r] \ locks[r] => x = Beatmap(r)
                 /\ Shared(x) \notin locks'[r] \ locks[r]
      BY <2>1, LockNamesApart
    <2>4. \A q \in Requests \ {r} :
             Exclusive(Beatmap(r)) \notin locks[q] /\ Shared(Beatmap(r)) \notin locks[q]
      <3> SUFFICES ASSUME NEW q \in Requests \ {r}
                   PROVE  Exclusive(Beatmap(r)) \notin locks[q] /\ Shared(Beatmap(r)) \notin locks[q]
        OBVIOUS
      <3>1. Shared(Beatmap(r)) \in locks[r] /\ Beatmap(r) \in Beatmaps
        BY <1>1, <2>2, Named
      <3>2. Exclusive(Beatmap(r)) \notin locks[q]
        BY <3>1 DEF LocksExclude
      <3>3. QED
        BY <2>1, <3>2 DEF Free
    <2>5. ~At(r, "history")'
      BY <2>1 DEF At
    <2>6. QED
      BY <1>1, <2>2, <2>3, <2>4, <2>5, LockStep
  <1>5. CASE UpdateStatistics(r)
    <2>1. /\ pc[r] = "stats" /\ pc'[r] = "history" /\ Free(r, Exclusive(User(r)))
          /\ Token(r) \notin NoGameMode
          /\ locks'[r] = locks[r] \cup {Exclusive(User(r))}
      BY <1>5 DEF UpdateStatistics, Goto, At
    <2>2. locks'[r] = HeldAt(r)'
      BY <1>2, <2>1 DEF HeldAt
    <2>3. \A x : /\ Exclusive(x) \in locks'[r] \ locks[r] => x = User(r)
                 /\ Shared(x) \notin locks'[r] \ locks[r]
      BY <2>1, LockNamesApart
    <2>4. \A q \in Requests \ {r} :
             Exclusive(User(r)) \notin locks[q] /\ Shared(User(r)) \notin locks[q]
      <3> SUFFICES ASSUME NEW q \in Requests \ {r}
                   PROVE  Shared(User(r)) \notin locks[q]
        BY <2>1 DEF Free
      <3>1. User(r) \in Users
        BY <1>1, Named
      <3>2. ASSUME pc[q] # "idle" PROVE Beatmap(q) \in Beatmaps
        BY <3>2, Named
      <3>3. ASSUME Shared(User(r)) \in locks[q]
            PROVE  pc[q] # "idle" /\ User(r) = Beatmap(q)
        BY <3>3, Holders
      <3>4. QED
        BY <3>1, <3>2, <3>3, RowsAssumption
    <2>5. QED
      BY <1>1, <2>1, <2>2, <2>3, <2>4, LockStep
  <1>6. QED
    BY <1>3, <1>4, <1>5

LEMMA LockNext ==
    ASSUME LockInv, [Next]_vars
    PROVE  LockInv'
  <1>1. TypeOK'
    BY NextType DEF LockInv
  <1>2. ASSUME UNCHANGED <<pc, asked, locks>>
        PROVE  LockInv'
    <2>1. \A q \in Requests : HeldAt(q)' = HeldAt(q) /\ Token(q)' = Token(q)
      BY <1>2, KeptNames DEF HeldAt
    <2>2. QED
      BY <1>1, <1>2, <2>1 DEF LockInv, LocksExclude, At
  <1>3. ASSUME NEW r \in Requests, NEW t \in Tokens, Authenticate(r, t)
        PROVE  LockInv'
    <2>1. /\ pc[r] = "idle" /\ pc' = [pc EXCEPT ![r] = "lookup"] /\ locks' = locks
          /\ \A q \in Requests \ {r} : asked'[q] = asked[q]
      BY <1>3 DEF Authenticate, At, Goto, LockInv, TypeOK
    <2>2. \A q \in Requests \ {r} : HeldAt(q)' = HeldAt(q) /\ Token(q)' = Token(q)
      BY <2>1, KeptNames DEF HeldAt, LockInv, TypeOK
    <2>3. HeldAt(r) = {} /\ HeldAt(r)' = {}
      BY <2>1 DEF HeldAt, LockInv, TypeOK
    <2>4. QED
      BY <1>1, <2>1, <2>2, <2>3 DEF LockInv, LocksExclude, At, TypeOK
  <1>4. QED
    BY <1>1, <1>2, <1>3, LockFree, LockTaken DEF Next, Step, CreateToken, vars

\* A step of r can be taken: the locks it needs are free, or it is one of two
\* that wait for each other and is rolled back.
Ready(r) ==
    \/ pc[r] \in {"lookup", "history", "notify", "commit"}
    \/ At(r, "insert") /\ Free(r, Exclusive(Beatmap(r)))
    \/ At(r, "update") /\ Free(r, Shared(Beatmap(r)))
    \/ At(r, "update") /\ \E q \in Requests \ {r} : At(q, "update") /\ Beatmap(q) = Beatmap(r)
    \/ At(r, "stats") /\ (Token(r) \in NoGameMode \/ Free(r, Exclusive(User(r))))

LEMMA SomebodyReady ==
    ASSUME LockInv, NEW r \in Requests, pc[r] \in Active
    PROVE  \E q \in Requests : Ready(q)
  <1> USE DEF Ready, At
  <1>1. Beatmap(r) \in Beatmaps /\ User(r) \in Users
    BY Named DEF LockInv, Active
  <1>2. ASSUME NEW p \in Requests, pc[p] \in {"stats", "history", "notify", "commit"}
        PROVE  \E q \in Requests : Ready(q)
    <2>1. CASE pc[p] = "stats" /\ ~Free(p, Exclusive(User(p)))
      <3>1. PICK q \in Requests \ {p} : Exclusive(User(p)) \in locks[q]
        BY <2>1 DEF Free
      <3>2. User(p) \in Users
        BY <2>1, Named DEF LockInv
      <3>3. pc[q] \in {"history", "notify", "commit"}
        BY <3>1, <3>2, Holders
      <3>4. QED
        BY <3>3
    <2>2. QED
      BY <1>2, <2>1
  <1>3. CASE pc[r] = "insert"
    <2>1. CASE Free(r, Exclusive(Beatmap(r)))
      BY <1>3, <2>1
    <2>2. CASE ~Free(r, Exclusive(Beatmap(r)))
      <3>1. PICK q \in Requests \ {r} : Exclusive(Beatmap(r)) \in locks[q]
        BY <2>2 DEF Free
      <3>2. QED
        BY <1>1, <1>2, <3>1, Holders
    <2>3. QED
      BY <2>1, <2>2
  <1>4. CASE pc[r] = "update"
    <2>1. CASE Free(r, Shared(Beatmap(r)))
      BY <1>4, <2>1
    <2>2. CASE ~Free(r, Shared(Beatmap(r)))
      <3>1. PICK q \in Requests \ {r} : Shared(Beatmap(r)) \in locks[q]
        BY <2>2 DEF Free
      <3>2. /\ pc[q] \in {"update", "stats", "history", "notify", "commit"}
            /\ Beatmap(q) = Beatmap(r)
        BY <1>1, <3>1, Holders
      <3>3. QED
        BY <1>2, <1>4, <3>2
    <2>3. QED
      BY <2>1, <2>2
  <1>5. QED
    BY <1>2, <1>3, <1>4 DEF Active

\* The transactions never wait in a circle that nothing breaks: while a
\* submission is open, some submission can take its step.
THEOREM NobodyStuck ==
    Spec => [](LocksExclude /\ ((\E r \in Requests : pc[r] \in Active) => \E q \in Requests : Ready(q)))
  <1>1. LockInv => LocksExclude /\ ((\E r \in Requests : pc[r] \in Active) => \E q \in Requests : Ready(q))
    BY SomebodyReady DEF LockInv
  <1>2. QED
    BY <1>1, LockInit, LockNext, PTL DEF Spec

\* How far a request has come.
Rank(l) ==
    CASE l = "idle" -> 0
      [] l = "lookup" -> 1
      [] l = "insert" -> 2
      [] l = "update" -> 3
      [] l = "stats" -> 4
      [] l = "history" -> 5
      [] l = "notify" -> 6
      [] l = "commit" -> 7
      [] l \in Ended -> 8

LEMMA Ranks ==
    /\ Rank("idle") = 0 /\ Rank("lookup") = 1 /\ Rank("insert") = 2 /\ Rank("update") = 3
    /\ Rank("stats") = 4 /\ Rank("history") = 5 /\ Rank("notify") = 6 /\ Rank("commit") = 7
    /\ \A l \in Ended : Rank(l) = 8
  <1>1. \A l \in Ended : l \notin Active /\ l # "idle"
    BY DEF Ended, Active
  <1>2. \A l \in Ended : Rank(l) = 8
    BY <1>1 DEF Rank, Active
  <1>3. \A l \in {"idle"} \cup Active : l \notin Ended
    BY DEF Ended, Active
  <1>4. /\ Rank("idle") = 0 /\ Rank("lookup") = 1 /\ Rank("insert") = 2 /\ Rank("update") = 3
        /\ Rank("stats") = 4 /\ Rank("history") = 5 /\ Rank("notify") = 6 /\ Rank("commit") = 7
    BY <1>3 DEF Rank, Active
  <1>5. QED
    BY <1>2, <1>4

\* No step takes a request back, and each of its own takes it further, so it
\* takes at most eight.
THEOREM StepsAdvance ==
    Spec => [][\A r \in Requests : /\ Rank(pc[r]) <= Rank(pc'[r])
                                   /\ Step(r) => Rank(pc[r]) < Rank(pc'[r])]_vars
  <1> DEFINE Advance == \A r \in Requests : /\ Rank(pc[r]) <= Rank(pc'[r])
                                            /\ Step(r) => Rank(pc[r]) < Rank(pc'[r])
  <1>1. TypeOK /\ [Next]_vars => [Advance]_vars
    <2> SUFFICES ASSUME TypeOK, Next PROVE Advance
      OBVIOUS
    <2>1. \A k, l \in {"idle"} \cup Active \cup Ended :
              (k = l \/ Rank(k) < Rank(l)) => Rank(k) <= Rank(l)
      <3>1. \A l \in {"idle"} \cup Active \cup Ended : Rank(l) \in Nat
        BY Ranks DEF Active
      <3>2. QED
        BY <3>1
    <2>2. ASSUME NEW r \in Requests, Step(r) \/ Fail(r)
          PROVE  /\ Rank(pc[r]) < Rank(pc'[r])
                 /\ \A q \in Requests \ {r} : pc'[q] = pc[q]
      <3> USE DEF TypeOK, Goto, At
      <3>1. ASSUME NEW l \in Ended, Rollback(r, l), pc[r] \in Active
            PROVE  /\ Rank(pc[r]) < Rank(pc'[r])
                   /\ \A q \in Requests \ {r} : pc'[q] = pc[q]
        BY <3>1, Ranks DEF Rollback, End, Active
      <3>2. CASE LookupToken(r)
        BY <3>1, <3>2, Ranks DEF LookupToken, Active, Ended
      <3>3. CASE InsertScore(r) \/ UpdateBeatmap(r) \/ UpdateStatistics(r)
        BY <3>3, Ranks DEF InsertScore, UpdateBeatmap, UpdateStatistics
      <3>4. CASE SkipStatistics(r) \/ NotifyProcessed(r)
        BY <3>4, Ranks DEF SkipStatistics, NotifyProcessed
      <3>5. CASE RecordRank(r)
        BY <3>1, <3>5, Ranks DEF RecordRank, Active, Ended
      <3>6. CASE DeadlockVictim(r)
        BY <3>1, <3>6 DEF DeadlockVictim, Active, Ended
      <3>7. CASE Commit(r)
        BY <3>7, Ranks DEF Commit, End, Ended
      <3>8. CASE Fail(r)
        BY <3>1, <3>8 DEF Fail, Ended
      <3>9. QED
        BY <2>2, <3>2, <3>3, <3>4, <3>5, <3>6, <3>7, <3>8 DEF Step
    <2>3. ASSUME NEW r \in Requests, pc'[r] = pc[r]
          PROVE  Rank(pc[r]) <= Rank(pc'[r])
      <3>1. pc[r] \in {"idle"} \cup Active \cup Ended
        BY DEF TypeOK
      <3>2. Rank(pc[r]) <= Rank(pc[r])
        BY <2>1, <3>1
      <3>3. QED
        BY <2>3, <3>2
    <2>4. ASSUME NEW r \in Requests, NEW t \in Tokens, Authenticate(r, t)
          PROVE  \A q \in Requests : Rank(pc[q]) <= Rank(pc'[q])
      <3>1. pc[r] = "idle" /\ pc'[r] = "lookup" /\ \A q \in Requests \ {r} : pc'[q] = pc[q]
        BY <2>4 DEF Authenticate, At, Goto, TypeOK
      <3>2. Rank(pc[r]) <= Rank(pc'[r])
        BY <3>1, Ranks
      <3>3. QED
        BY <2>3, <3>1, <3>2
    <2>5. \A q \in Requests : Rank(pc[q]) <= Rank(pc'[q])
      <3>1. CASE \E r \in Requests : Step(r) \/ Fail(r)
        <4>1. PICK r \in Requests : Step(r) \/ Fail(r)
          BY <3>1
        <4>2. pc[r] \in {"idle"} \cup Active \cup Ended /\ pc'[r] \in {"idle"} \cup Active \cup Ended
          BY NextType DEF TypeOK
        <4>3. Rank(pc[r]) <= Rank(pc'[r])
          BY <2>1, <2>2, <4>1, <4>2
        <4>4. QED
          BY <2>2, <2>3, <4>1, <4>3
      <3>2. CASE \E t \in Tokens : CreateToken(t)
        BY <2>3, <3>2 DEF CreateToken
      <3>3. QED
        BY <2>4, <3>1, <3>2 DEF Next
    <2>6. QED
      BY <2>2, <2>5
  <1> HIDE DEF Advance
  <1>2. Spec => [][Advance]_vars
    BY <1>1, InitType, NextType, PTL DEF Spec
  <1>3. QED
    BY <1>2 DEF Advance

=============================================================================
