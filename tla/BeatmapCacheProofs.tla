------------------------- MODULE BeatmapCacheProofs -------------------------
(***************************************************************************)
(* Proofs about BeatmapCache, for any requests, difficulties, sets and     *)
(* bounds.  The invariant is in parts, each inductive given the ones       *)
(* before it.  TypeInv: what a request holds at each await, by its call.   *)
(* RenewInv: a token it renewed is honoured while the API has revoked none *)
(* since the first 401.  StoredInv: what its snapshot has is still         *)
(* stored as it was, for rows are never changed nor removed.  FileInv: the *)
(* file it is about to read is whole, or was left torn or written twice.   *)
(***************************************************************************)
EXTENDS BeatmapCache, TLAPS

USE SetOfAssumption, BoundAssumption, CallsAssumption, NoneAssumption

\* A fetch does not begin in the future.
BegunBefore ==
    \A r \in Requests : local[r].since <= revocations

\* What a request may be doing, by its call.
CallSound(r) ==
    /\ pc[r] # "idle" => call[r] \in Calls
    /\ pc[r] = "idle" => local[r].getting = None
    /\ pc[r] \in {"download", "write", "compute"} => call[r].op = "score"
    /\ pc[r] \in {"store", "recheck"} => local[r].getting = "set"
    /\ pc[r] = "recheck" => call[r].op # "set"
    /\ local[r].getting = "map" \/ pc[r] = "insert" => call[r].op \in {"beatmap", "checksum"}
    /\ local[r].getting = "set" => call[r].op \in {"beatmap", "checksum", "set"}
    /\ (local[r].getting = "set" /\ call[r].op # "set") \/ pc[r] = "insert" =>
          local[r].own # None

Typed == TypeOK /\ BegunBefore
TypeInv == Typed /\ \A r \in Requests : CallSound(r)

\* What it has read and fetched.
FetchSound(r) ==
    /\ pc[r] = "store" => \A b \in Beatmaps : local[r].listing[b] # None => SetOf[b] = Wanted(r)
    /\ \A b \in Beatmaps :
          local[r].snap.maps[b] # None => local[r].snap.maps[b] = maps[b]

\* A renewed token is honoured until the API drops its tokens.
TokenSound(r) ==
    ~mirror /\ pc[r] \in {"posted", "get"} /\ local[r].retried /\ local[r].since = revocations =>
        local[r].held = revocations

\* What it was answered.
AnswerSound(r) ==
    /\ answer[r].end # None => pc[r] = "done"
    /\ answer[r].end = "row" => call[r].id \in Beatmaps /\ maps[call[r].id] = answer[r].version
    /\ answer[r].end \in {"set", "duplicate"} => Wanted(r) \in sets

\* The file it reads.
FileSound(r) ==
    /\ pc[r] = "compute" =>
          files[call[r].id] = "whole" \/ call[r].id \in torn \cup rewritten
    /\ answer[r].end = "bad pp" => call[r].id \in torn \cup rewritten

\* A file is partial while it is written, one at a time, or was left so.
FilesSound ==
    /\ \A b \in Beatmaps : files[b] = "part" =>
          b \in torn \/ \E r \in Requests : pc[r] = "write" /\ call[r].id = b
    /\ \A q, r \in Requests : pc[q] = "write" /\ pc[r] = "write" => q = r

-----------------------------------------------------------------------------
(* Type correctness.                                                       *)

LEMMA NoLocalType == NoLocal \in Local
  BY DEF NoLocal, Local, NoRows, Rows, TokenValues

LEMMA NoneDistinct ==
    None \notin {"set", "map", "search", "row", "duplicate", "bad pp", "part", "whole"}
  BY DEF Ends

LEMMA InitType == Init => TypeInv
  <1> SUFFICES ASSUME Init PROVE TypeInv
    OBVIOUS
  <1>1. Typed
    BY NoLocalType DEF Init, Typed, TypeOK, BegunBefore, Rows, Versions, NoRows, NoLocal,
                       Labels, Answers, TokenValues
  <1>2. \A r \in Requests : CallSound(r)
    BY NoneDistinct DEF Init, CallSound, NoLocal
  <1>3. QED
    BY <1>1, <1>2 DEF TypeInv

LEMMA NoVersion == None \notin Versions /\ Versions \subseteq Nat
  BY DEF Versions

LEMMA LocalFields ==
    ASSUME NEW v \in Local
    PROVE  v.since \in Nat /\ v.snap.maps \in Rows /\ v.listing \in Rows
  BY DEF Local

\* What a call's fields are, by what it asks for.
LEMMA CallFields ==
    ASSUME NEW c \in Calls
    PROVE  /\ c.op \in {"beatmap", "score", "checksum"} => c.id \in Beatmaps
           /\ c.op = "checksum" => c.version \in Versions
           /\ c.op = "set" => c.id \in Sets
  BY DEF AllCalls

\* What the steps of a request leave well-typed.
RequestsTyped ==
    /\ pc \in [Requests -> Labels]
    /\ call \in [Requests -> Calls \cup {None}]
    /\ local \in [Requests -> Local]
    /\ answer \in [Requests -> Answers]
    /\ BegunBefore

LEMMA EndedType ==
    ASSUME TypeInv, NEW r \in Requests, NEW end, NEW version,
           [end |-> end, version |-> version] \in Answers,
           Ended(r, end, version),
           call' \in [Requests -> Calls \cup {None}], UNCHANGED revocations
    PROVE  RequestsTyped'
  <1>1. BegunBefore' /\ local' \in [Requests -> Local]
    BY NoLocalType DEF TypeInv, Typed, TypeOK, Ended, BegunBefore, NoLocal
  <1>2. QED
    BY <1>1 DEF TypeInv, Typed, TypeOK, Ended, RequestsTyped, Labels

LEMMA GoesType ==
    ASSUME TypeInv, NEW r \in Requests, NEW l \in Labels, Goes(r, l),
           call' \in [Requests -> Calls \cup {None}], UNCHANGED revocations
    PROVE  RequestsTyped'
  BY DEF TypeInv, Typed, TypeOK, Goes, RequestsTyped, BegunBefore

LEMMA AsksType ==
    ASSUME TypeInv, NEW r \in Requests, NEW what \in {"map", "set", "search"}, NEW v \in Local,
           Asks(r, what, v), call' \in [Requests -> Calls \cup {None}],
           UNCHANGED revocations
    PROVE  RequestsTyped'
  <1> DEFINE w == [v EXCEPT !.getting = what, !.held = osuToken,
                            !.retried = FALSE, !.since = revocations]
  <1>1. w \in Local
    <2>1. osuToken \in TokenValues /\ revocations \in 0 .. MaxRevocations
      BY DEF TypeInv, Typed, TypeOK
    <2>2. QED
      BY <2>1 DEF Local
  <1>2. w.held = osuToken /\ w.since = revocations
    BY DEF Local
  <1>3. local' = [local EXCEPT ![r] = w]
    BY DEF Asks
  <1> HIDE DEF w
  <1>4. local' \in [Requests -> Local] /\ BegunBefore'
    BY <1>1, <1>2, <1>3 DEF TypeInv, Typed, TypeOK, BegunBefore, Asks
  <1>5. pc' \in [Requests -> Labels]
    BY DEF Asks, TypeInv, Typed, TypeOK, Labels
  <1>6. QED
    BY <1>4, <1>5 DEF RequestsTyped, Asks, TypeInv, Typed, TypeOK

LEMMA LocalType ==
    ASSUME TypeInv, NEW r \in Requests, NEW v \in Local, v.since <= revocations, NEW l \in Labels,
           local' = [local EXCEPT ![r] = v], pc' = [pc EXCEPT ![r] = l],
           UNCHANGED <<call, answer, revocations>>
    PROVE  RequestsTyped'
  <1>1. BegunBefore'
    BY DEF TypeInv, Typed, TypeOK, BegunBefore
  <1>2. QED
    BY <1>1 DEF RequestsTyped, TypeInv, Typed, TypeOK

LEMMA AnswerType ==
    ASSUME TypeInv, NEW r \in Requests, NEW end \in Ends, Answer(r, end),
           call' \in [Requests -> Calls \cup {None}], UNCHANGED revocations
    PROVE  RequestsTyped'
  <1>1. [end |-> end, version |-> None] \in Answers
    BY DEF Answers
  <1>2. QED
    BY <1>1, EndedType DEF Answer

LEMMA ServeType ==
    ASSUME TypeInv, NEW r \in Requests, NEW version \in Versions, Serve(r, version),
           call' \in [Requests -> Calls \cup {None}], UNCHANGED revocations
    PROVE  RequestsTyped'
  <1>1. [end |-> "row", version |-> version] \in Answers
    BY DEF Answers
  <1>2. QED
    BY <1>1, EndedType DEF Serve

LEMMA WithoutType ==
    ASSUME TypeInv, NEW r \in Requests, Without(r), UNCHANGED <<call, revocations>>
    PROVE  RequestsTyped'
  <1>1. call' \in [Requests -> Calls \cup {None}]
    BY DEF TypeInv, Typed, TypeOK
  <1>2. QED
    BY <1>1, GoesType, AnswerType DEF Without, Ends, Labels

LEMMA BeginType ==
    ASSUME TypeInv, NEW r \in Requests, NEW c \in Calls, Begin(r, c)
    PROVE  RequestsTyped'
  <1> USE DEF Begin, apiVars
  <1>1. call' \in [Requests -> Calls \cup {None}]
    BY DEF TypeInv, Typed, TypeOK
  <1>2. NoLocal \in Local /\ [NoLocal EXCEPT !.snap = [sets |-> sets, maps |-> maps]] \in Local
    <2>1. [sets |-> sets, maps |-> maps] \in [sets : SUBSET Sets, maps : Rows]
      BY DEF TypeInv, Typed, TypeOK
    <2>2. QED
      BY <2>1, NoLocalType DEF Local
  <1>3. CASE Search(r, c)
    BY <1>1, <1>2, <1>3, AsksType DEF Search
  <1>4. CASE Get(r, c)
    <2>1. CASE Found(c) /\ c.op = "set"
      BY <1>1, <1>4, <2>1, AnswerType DEF Get, Ends
    <2>2. CASE Found(c) /\ c.op # "set"
      <3>1. c.op \in {"beatmap", "checksum"} /\ c.id \in Beatmaps /\ maps[c.id] # None
        BY <1>4, <2>2, CallFields, NoVersion DEF Get, Found
      <3>2. maps[c.id] \in Versions
        BY <3>1 DEF TypeInv, Typed, TypeOK, Rows
      <3>3. QED
        BY <1>1, <1>4, <2>2, <3>2, ServeType DEF Get
    <2>3. CASE ~Found(c) /\ c.op = "checksum" /\ mirror
      BY <1>1, <1>4, <2>3, AnswerType DEF Get, Ends
    <2>4. CASE ~Found(c) /\ ~(c.op = "checksum" /\ mirror)
      BY <1>1, <1>2, <1>4, <2>4, AsksType DEF Get
    <2>5. QED
      BY <2>1, <2>2, <2>3, <2>4
  <1>5. CASE Score(r, c)
    BY <1>1, <1>5, GoesType DEF Score, Labels
  <1>6. QED
    BY <1>3, <1>4, <1>5

\* The steps that touch no store.
LEMMA QuietType ==
    ASSUME TypeInv, RequestsTyped', UNCHANGED <<tables, fileVars, apiVars, tokenVars>>
    PROVE  Typed'
  BY DEF TypeInv, Typed, TypeOK, RequestsTyped, tables, fileVars, apiVars, tokenVars

LEMMA FetchType ==
    ASSUME TypeInv, NEW r \in Requests, Fetch(r) \/ Issue(r)
    PROVE  Typed'
  <1> USE DEF apiVars, tokenVars
  <1>c. call' = call => call' \in [Requests -> Calls \cup {None}]
    BY DEF TypeInv, Typed, TypeOK
  <1>v. /\ local[r] \in Local /\ local[r].since <= revocations
        /\ revocations \in 0 .. MaxRevocations
    BY DEF TypeInv, Typed, TypeOK, BegunBefore
  <1>1. CASE \E c \in Calls : Begin(r, c)
    BY <1>1, BeginType, QuietType DEF Begin
  <1>2. CASE StoreToken(r)
    <2>1. RequestsTyped'
      BY <1>2, <1>c, GoesType DEF StoreToken, Labels
    <2>2. osuToken' \in TokenValues
      BY <1>2, <1>v DEF StoreToken, Local
    <2>3. QED
      BY <1>2, <2>1, <2>2 DEF StoreToken, TypeInv, Typed, TypeOK, RequestsTyped, tables, fileVars
  <1>3. CASE Refused(r)
    <2> DEFINE v == [local[r] EXCEPT !.retried = TRUE, !.since = revocations]
    <2>1. v \in Local /\ v.since = revocations
      BY <1>v DEF Local, TokenValues
    <2>0. v.since <= revocations
      BY <1>v, <2>1
    <2>2. local' = [local EXCEPT ![r] = v] /\ pc' = [pc EXCEPT ![r] = "post"]
      BY <1>3 DEF Refused
    <2> HIDE DEF v
    <2>3. RequestsTyped'
      BY <1>3, <2>0, <2>1, <2>2, LocalType DEF Refused, Labels
    <2>4. osuToken' \in TokenValues
      BY <1>3 DEF Refused, TokenValues
    <2>5. QED
      BY <1>3, <2>3, <2>4 DEF Refused, TypeInv, Typed, TypeOK, RequestsTyped, tables, fileVars
  <1>4. CASE RefusedAgain(r)
    <2>1. RequestsTyped'
      BY <1>4, WithoutType DEF RefusedAgain
    <2>2. local[r].since \in 0 .. MaxRevocations /\ revocations \in 0 .. MaxRevocations
      BY <1>v DEF Local, TypeInv, Typed, TypeOK
    <2>3. revocations - local[r].since \in 0 .. MaxRevocations
      BY <1>v, <2>2
    <2>4. QED
      BY <1>4, <2>1, <2>3 DEF RefusedAgain, TypeInv, Typed, TypeOK, RequestsTyped, tables, fileVars
  <1>5. CASE NothingFetched(r)
    BY <1>5, WithoutType, QuietType DEF NothingFetched
  <1>6. CASE FetchedMap(r)
    <2> DEFINE b == call[r].id
               v == [local[r] EXCEPT !.own = upstream[b]]
    <2>1. call[r].op \in {"beatmap", "checksum"} /\ call[r] \in Calls
      BY <1>6 DEF FetchedMap, TypeInv, CallSound
    <2>2. b \in Beatmaps /\ upstream[b] \in Versions
      BY <1>6, <2>1, CallFields DEF FetchedMap, TypeInv, Typed, TypeOK, Rows
    <2>3. v \in Local /\ v.since = local[r].since
          /\ v.snap = local[r].snap
      BY <1>v, <2>2 DEF Local
    <2>4. local[r].snap.maps \in Rows
      BY <1>v DEF Local
    <2>5. CASE local[r].snap.maps[b] # None
      <3>1. local[r].snap.maps[b] \in Versions
        BY <2>2, <2>4, <2>5 DEF Rows
      <3>2. Serve(r, local[r].snap.maps[b])
        BY <1>6, <2>3, <2>5 DEF FetchedMap
      <3>3. RequestsTyped'
        BY <1>6, <1>c, <3>1, <3>2, ServeType DEF FetchedMap
      <3>4. QED
        BY <1>6, <3>3, QuietType DEF FetchedMap
    <2>6. CASE local[r].snap.maps[b] = None /\ SetOf[b] \notin local[r].snap.sets
      <3>1. Asks(r, "set", v)
        BY <1>6, <2>3, <2>6 DEF FetchedMap
      <3>2. RequestsTyped'
        BY <1>6, <1>c, <2>3, <3>1, AsksType DEF FetchedMap
      <3>3. QED
        BY <1>6, <3>2, QuietType DEF FetchedMap
    <2>7. CASE local[r].snap.maps[b] = None /\ SetOf[b] \in local[r].snap.sets
      <3>1. local' = [local EXCEPT ![r] = v] /\ pc' = [pc EXCEPT ![r] = "insert"]
        BY <1>6, <2>3, <2>7 DEF FetchedMap
      <3>2. UNCHANGED <<call, answer, revocations>>
        BY <1>6, <2>3, <2>7 DEF FetchedMap
      <3> HIDE DEF v
      <3>3. RequestsTyped'
        BY <1>v, <2>3, <3>1, <3>2, LocalType DEF Labels
      <3>4. QED
        BY <1>6, <3>3, QuietType DEF FetchedMap
    <2>8. QED
      BY <2>5, <2>6, <2>7
  <1>7. CASE FetchedSet(r)
    <2>1. PICK missing \in SUBSET Beatmaps :
            local' = [local EXCEPT ![r] = [local[r] EXCEPT !.listing =
                     [b \in Beatmaps |-> IF SetOf[b] = Wanted(r) /\ b \notin missing
                                           THEN upstream[b] ELSE None]]]
      BY <1>7 DEF FetchedSet
    <2> DEFINE listing == [b \in Beatmaps |-> IF SetOf[b] = Wanted(r) /\ b \notin missing
                                                THEN upstream[b] ELSE None]
               v == [local[r] EXCEPT !.listing = listing]
    <2>2. listing \in Rows
      BY DEF Rows, TypeInv, Typed, TypeOK
    <2>3. local' = [local EXCEPT ![r] = v]
      BY <2>1
    <2> HIDE DEF listing
    <2>4. v \in Local /\ v.since = local[r].since
      BY <1>v, <2>2 DEF Local
    <2> HIDE DEF v
    <2>5. RequestsTyped'
      BY <1>7, <1>v, <2>3, <2>4, LocalType DEF FetchedSet, Labels
    <2>6. QED
      BY <1>7, <2>5, QuietType DEF FetchedSet
  <1>8. CASE Issue(r)
    <2> DEFINE v == [local[r] EXCEPT !.held = revocations]
    <2>1. v \in Local /\ v.since = local[r].since
      BY <1>v DEF Local, TokenValues
    <2>2. local' = [local EXCEPT ![r] = v] /\ pc' = [pc EXCEPT ![r] = "posted"]
      BY <1>8 DEF Issue
    <2> HIDE DEF v
    <2>3. RequestsTyped'
      BY <1>8, <1>v, <2>1, <2>2, LocalType DEF Issue, Labels
    <2>4. QED
      BY <1>8, <2>3, QuietType DEF Issue
  <1>9. QED
    BY <1>1, <1>2, <1>3, <1>4, <1>5, <1>6, <1>7, <1>8 DEF Fetch

\* A request with a difficulty or a set to store knows which.
LEMMA Subject ==
    ASSUME TypeInv, NEW r \in Requests, pc[r] # "idle"
    PROVE  /\ call[r] \in Calls
           /\ pc[r] \in {"recheck", "insert", "download", "write", "compute"} =>
                 call[r].op # "set" /\ call[r].id \in Beatmaps
           /\ pc[r] \in {"store", "recheck", "insert"} => Wanted(r) \in Sets
  <1>1. call[r] \in Calls
    BY DEF TypeInv, CallSound
  <1>2. QED
    BY <1>1, CallFields DEF TypeInv, CallSound, Wanted

LEMMA StoreType ==
    ASSUME TypeInv, NEW r \in Requests, Store(r)
    PROVE  Typed'
  <1> USE DEF apiVars, tokenVars
  <1>c. call' = call => call' \in [Requests -> Calls \cup {None}]
    BY DEF TypeInv, Typed, TypeOK
  <1>v. local[r] \in Local
    BY DEF TypeInv, Typed, TypeOK
  <1>1. CASE StoreSet(r)
    <2>1. Wanted(r) \in Sets
      BY <1>1, Subject DEF StoreSet
    <2>2. RequestsTyped'
      BY <1>1, <1>c, AnswerType, GoesType DEF StoreSet, Ends, Labels
    <2>3. maps' \in Rows
      BY <1>1, <1>v DEF StoreSet, Local, Rows, TypeInv, Typed, TypeOK
    <2>4. QED
      BY <1>1, <2>1, <2>2, <2>3
         DEF StoreSet, Listed, TypeInv, Typed, TypeOK, RequestsTyped, fileVars
  <1>2. CASE Recheck(r)
    <2>1. call[r].id \in Beatmaps
      BY <1>2, Subject DEF Recheck
    <2>2. CASE maps[call[r].id] # None
      <3>1. maps[call[r].id] \in Versions
        BY <2>1, <2>2 DEF TypeInv, Typed, TypeOK, Rows
      <3>2. QED
        BY <1>2, <1>c, <2>2, <3>1, ServeType, QuietType DEF Recheck
    <2>3. CASE maps[call[r].id] = None
      BY <1>2, <1>c, <2>3, GoesType, QuietType DEF Recheck, Labels
    <2>4. QED
      BY <2>2, <2>3
  <1>3. CASE Insert(r)
    <2>1. call[r].id \in Beatmaps /\ local[r].own # None
      BY <1>3, Subject DEF Insert, TypeInv, CallSound
    <2>2. local[r].own \in Versions
      BY <1>v, <2>1 DEF Local
    <2>3. RequestsTyped'
      BY <1>3, <1>c, <2>2, ServeType DEF Insert
    <2>4. maps' \in Rows
      BY <1>3, <2>2 DEF Insert, Rows, TypeInv, Typed, TypeOK
    <2>5. QED
      BY <1>3, <2>3, <2>4 DEF Insert, TypeInv, Typed, TypeOK, RequestsTyped, fileVars
  <1>4. CASE Duplicate(r) \/ DbError(r)
    BY <1>4, <1>c, AnswerType, QuietType DEF Duplicate, DbError, Ends
  <1>5. QED
    BY <1>1, <1>2, <1>3, <1>4 DEF Store

LEMMA FileType ==
    ASSUME TypeInv, NEW r \in Requests,
           NoFile(r) \/ StartWrite(r) \/ EndWrite(r) \/ WriteFails(r) \/ Compute(r)
    PROVE  Typed'
  <1> USE DEF apiVars, tokenVars
  <1>c. call' = call => call' \in [Requests -> Calls \cup {None}]
    BY DEF TypeInv, Typed, TypeOK
  <1>1. call[r].id \in Beatmaps
    BY Subject DEF NoFile, StartWrite, EndWrite, WriteFails, Compute
  <1>2. RequestsTyped'
    BY <1>c, AnswerType, GoesType
       DEF NoFile, StartWrite, EndWrite, WriteFails, Compute, Ends, Labels
  <1>3. CASE NoFile(r) \/ Compute(r)
    BY <1>2, <1>3, QuietType DEF NoFile, Compute
  <1>4. CASE StartWrite(r)
    BY <1>1, <1>2, <1>4 DEF StartWrite, TypeInv, Typed, TypeOK, RequestsTyped, tables
  <1>5. CASE EndWrite(r)
    BY <1>1, <1>2, <1>5 DEF EndWrite, TypeInv, Typed, TypeOK, RequestsTyped, tables
  <1>6. CASE WriteFails(r)
    BY <1>1, <1>2, <1>6 DEF WriteFails, TypeInv, Typed, TypeOK, RequestsTyped, tables
  <1>7. QED
    BY <1>3, <1>4, <1>5, <1>6

LEMMA WorldType ==
    ASSUME TypeInv, World
    PROVE  Typed'
  <1> USE DEF tables, fileVars, tokenVars, requestVars, apiVars
  <1>1. CASE \E b \in Beatmaps : Update(b)
    <2>1. PICK b \in Beatmaps : Update(b)
      BY <1>1
    <2>2. upstream' \in Rows
      BY <2>1 DEF Update, Rows, Versions, TypeInv, Typed, TypeOK
    <2>3. QED
      BY <2>1, <2>2 DEF Update, TypeInv, Typed, TypeOK, BegunBefore
  <1>2. CASE Revoke
    <2>1. \A r \in Requests : local[r].since \in Nat
      <3>1. \A r \in Requests : local[r] \in Local
        BY DEF TypeInv, Typed, TypeOK
      <3>2. QED
        BY <3>1, LocalFields
    <2>2. revocations' \in 0 .. MaxRevocations /\ revocations' = revocations + 1
      BY <1>2 DEF Revoke, TypeInv, Typed, TypeOK
    <2>3. BegunBefore'
      <3>1. \A r \in Requests : local[r].since <= revocations'
        BY <2>1, <2>2 DEF TypeInv, Typed, TypeOK, BegunBefore
      <3>2. QED
        BY <1>2, <3>1 DEF Revoke, TypeInv, Typed, BegunBefore
    <2>4. QED
      BY <1>2, <2>2, <2>3 DEF Revoke, TypeInv, Typed, TypeOK
  <1>3. CASE Lapse
    BY <1>3 DEF Lapse, TypeInv, Typed, TypeOK, BegunBefore, TokenValues
  <1>4. CASE Crash
    <2>1. \A r \in Requests : pc[r] = "write" => call[r].id \in Beatmaps
      BY Subject
    <2>2. files' \in [Beatmaps -> {None, "part", "whole"}] /\ torn' \in SUBSET Beatmaps
      BY <1>4, <2>1 DEF Crash, TypeInv, Typed, TypeOK
    <2>3. answer' \in [Requests -> Answers]
      BY <1>4 DEF Crash, TypeInv, Typed, TypeOK, Answers, Ends
    <2>4. local' \in [Requests -> Local] /\ BegunBefore' /\ pc' \in [Requests -> Labels]
      BY <1>4, NoLocalType
         DEF Crash, TypeInv, Typed, TypeOK, BegunBefore, NoLocal, Labels
    <2>5. crashes' \in 0 .. MaxCrashes
      BY <1>4 DEF Crash, TypeInv, Typed, TypeOK
    <2>6. QED
      BY <1>4, <2>2, <2>3, <2>4, <2>5 DEF Crash, TypeInv, Typed, TypeOK, TokenValues
  <1>5. QED
    BY <1>1, <1>2, <1>3, <1>4 DEF World

-----------------------------------------------------------------------------
(* What a request does is what its call is for.                            *)

\* A step of a request is nobody else's.
Same(q) == /\ pc'[q] = pc[q] /\ call'[q] = call[q]
           /\ local'[q] = local[q] /\ answer'[q] = answer[q]

RequestStep(r) ==
    Fetch(r) \/ Issue(r) \/ Store(r) \/ NoFile(r) \/ StartWrite(r) \/ EndWrite(r)
    \/ WriteFails(r) \/ Compute(r)

LEMMA Others ==
    ASSUME TypeInv, NEW r \in Requests, NEW q \in Requests \ {r}, RequestStep(r)
    PROVE  Same(q)
  <1> USE DEF TypeInv, Typed, TypeOK, Same, Goes, Ended, Answer, Serve, Asks, Without
  <1>1. CASE \E c \in Calls : Begin(r, c)
    BY <1>1 DEF Begin, Search, Get, Score
  <1>2. CASE StoreToken(r) \/ Refused(r) \/ RefusedAgain(r) \/ NothingFetched(r) \/ Issue(r)
    BY <1>2 DEF StoreToken, Refused, RefusedAgain, NothingFetched, Issue
  <1>3. CASE FetchedMap(r) \/ FetchedSet(r)
    BY <1>3 DEF FetchedMap, FetchedSet
  <1>4. CASE Store(r)
    BY <1>4 DEF Store, StoreSet, Recheck, Insert, Duplicate, DbError
  <1>5. CASE NoFile(r) \/ StartWrite(r) \/ EndWrite(r) \/ WriteFails(r) \/ Compute(r)
    BY <1>5 DEF NoFile, StartWrite, EndWrite, WriteFails, Compute
  <1>6. QED
    BY <1>1, <1>2, <1>3, <1>4, <1>5 DEF RequestStep, Fetch

\* A request that has ended, and one that goes on to another await.
LEMMA EndedCall ==
    ASSUME TypeInv, NEW r \in Requests, NEW end, NEW version, Ended(r, end, version),
           call'[r] \in Calls
    PROVE  CallSound(r)'
  BY NoneDistinct DEF TypeInv, Typed, TypeOK, Ended, NoLocal, CallSound

LEMMA AsksCall ==
    ASSUME TypeInv, NEW r \in Requests, NEW what \in {"map", "set", "search"}, NEW v \in Local,
           Asks(r, what, v), call'[r] \in Calls,
           what = "map" => call'[r].op \in {"beatmap", "checksum"},
           what = "set" => \/ call'[r].op = "set"
                           \/ call'[r].op \in {"beatmap", "checksum"} /\ v.own # None
    PROVE  CallSound(r)'
  <1>1. pc'[r] \in {"get", "post"}
    BY DEF Asks, TypeInv, Typed, TypeOK
  <1>2. local'[r].getting = what /\ local'[r].own = v.own
    BY DEF Asks, TypeInv, Typed, TypeOK, Local
  <1>3. QED
    BY <1>1, <1>2 DEF CallSound

LEMMA BeginCall ==
    ASSUME TypeInv, NEW r \in Requests, NEW c \in Calls, Begin(r, c)
    PROVE  CallSound(r)'
  <1>1. call'[r] = c
    BY DEF Begin, TypeInv, Typed, TypeOK
  <1>2. NoLocal \in Local /\ [NoLocal EXCEPT !.snap = [sets |-> sets, maps |-> maps]] \in Local
    <2>1. [sets |-> sets, maps |-> maps] \in [sets : SUBSET Sets, maps : Rows]
      BY DEF TypeInv, Typed, TypeOK
    <2>2. QED
      BY <2>1, NoLocalType DEF Local
  <1>3. CASE Search(r, c)
    BY <1>1, <1>2, <1>3, AsksCall DEF Search
  <1>4. CASE Get(r, c)
    <2>1. CASE Found(c) \/ (c.op = "checksum" /\ mirror)
      BY <1>1, <1>4, <2>1, EndedCall DEF Get, Answer, Serve
    <2>2. CASE ~(Found(c) \/ (c.op = "checksum" /\ mirror))
      BY <1>1, <1>2, <1>4, <2>2, AsksCall DEF Get
    <2>3. QED
      BY <2>1, <2>2
  <1>5. CASE Score(r, c)
    <2>1. local'[r] = local[r] /\ pc'[r] \in {"compute", "download"} /\ c.op = "score"
      BY <1>5 DEF Score, Goes, TypeInv, Typed, TypeOK
    <2>2. local[r].getting = None
      BY DEF Begin, TypeInv, CallSound
    <2>3. QED
      BY <1>1, <2>1, <2>2, NoneDistinct DEF CallSound
  <1>6. QED
    BY <1>3, <1>4, <1>5 DEF Begin

LEMMA WithoutCall ==
    ASSUME TypeInv, NEW r \in Requests, pc[r] \in {"post", "get"}, Without(r), UNCHANGED call
    PROVE  CallSound(r)'
  <1>1. call[r] \in Calls /\ CallSound(r)
    BY Subject DEF TypeInv
  <1>2. CASE local[r].getting = "set" /\ call[r].op # "set"
    BY <1>1, <1>2 DEF Without, Goes, CallSound, TypeInv, Typed, TypeOK
  <1>3. CASE ~(local[r].getting = "set" /\ call[r].op # "set")
    BY <1>1, <1>3, EndedCall DEF Without, Answer
  <1>4. QED
    BY <1>2, <1>3

\* What the steps about the token leave of the handler's variables.
LEMMA TokenSteps ==
    ASSUME TypeInv, NEW r \in Requests, StoreToken(r) \/ Refused(r) \/ Issue(r)
    PROVE  /\ local'[r].getting = local[r].getting /\ local'[r].own = local[r].own
           /\ local'[r].snap = local[r].snap
           /\ pc[r] \in {"post", "posted", "get"} /\ pc'[r] \in {"post", "posted", "get"}
           /\ call' = call
  <1> DEFINE Alike(v) == v.getting = local[r].getting /\ v.own = local[r].own
                         /\ v.snap = local[r].snap
  <1>v. local[r] \in Local /\ local \in [Requests -> Local] /\ pc \in [Requests -> Labels]
    BY DEF TypeInv, Typed, TypeOK
  <1>1. CASE StoreToken(r)
    BY <1>1, <1>v DEF StoreToken, Goes
  <1>2. CASE Refused(r)
    <2> DEFINE v == [local[r] EXCEPT !.retried = TRUE, !.since = revocations]
    <2>1. Alike(v)
      BY <1>v DEF Local
    <2>2. local' = [local EXCEPT ![r] = v] /\ pc' = [pc EXCEPT ![r] = "post"]
          /\ pc[r] = "get" /\ call' = call
      BY <1>2 DEF Refused
    <2> HIDE DEF v
    <2>3. local'[r] = v /\ pc'[r] = "post"
      BY <1>v, <2>2
    <2>4. QED
      BY <2>1, <2>2, <2>3
  <1>3. CASE Issue(r)
    <2> DEFINE v == [local[r] EXCEPT !.held = revocations]
    <2>1. Alike(v)
      BY <1>v DEF Local
    <2>2. local' = [local EXCEPT ![r] = v] /\ pc' = [pc EXCEPT ![r] = "posted"]
          /\ pc[r] = "post" /\ call' = call
      BY <1>3 DEF Issue
    <2> HIDE DEF v
    <2>3. local'[r] = v /\ pc'[r] = "posted"
      BY <1>v, <2>2
    <2>4. QED
      BY <2>1, <2>2, <2>3
  <1>4. QED
    BY <1>1, <1>2, <1>3

LEMMA FetchCall ==
    ASSUME TypeInv, NEW r \in Requests, Fetch(r) \/ Issue(r)
    PROVE  CallSound(r)'
  <1>s. CallSound(r)
    BY DEF TypeInv
  <1>v. local[r] \in Local
    BY DEF TypeInv, Typed, TypeOK
  <1>1. CASE \E c \in Calls : Begin(r, c)
    BY <1>1, BeginCall
  <1>2. CASE StoreToken(r) \/ Refused(r) \/ Issue(r)
    BY <1>s, <1>2, TokenSteps DEF CallSound
  <1>3. CASE RefusedAgain(r) \/ NothingFetched(r)
    BY <1>3, WithoutCall DEF RefusedAgain, NothingFetched
  <1>4. CASE FetchedMap(r)
    <2> DEFINE b == call[r].id
               v == [local[r] EXCEPT !.own = upstream[b]]
    <2>1. call[r].op \in {"beatmap", "checksum"} /\ call[r] \in Calls
      BY <1>4 DEF FetchedMap, TypeInv, CallSound
    <2>2. b \in Beatmaps /\ upstream[b] \in Versions /\ upstream[b] # None
      BY <1>4, <2>1, CallFields DEF FetchedMap, TypeInv, Typed, TypeOK, Rows
    <2>3. v \in Local /\ v.own # None /\ v.getting = local[r].getting /\ v.snap = local[r].snap
      BY <1>v, <2>2 DEF Local
    <2>4. call' = call
      BY <1>4 DEF FetchedMap
    <2>5. CASE v.snap.maps[b] # None
      BY <1>4, <2>1, <2>4, <2>5, EndedCall DEF FetchedMap, Serve
    <2>6. CASE v.snap.maps[b] = None /\ SetOf[b] \notin v.snap.sets
      BY <1>4, <2>1, <2>3, <2>4, <2>6, AsksCall DEF FetchedMap
    <2>7. CASE v.snap.maps[b] = None /\ SetOf[b] \in v.snap.sets
      <3>1. local' = [local EXCEPT ![r] = v] /\ pc' = [pc EXCEPT ![r] = "insert"]
        BY <1>4, <2>7 DEF FetchedMap
      <3> HIDE DEF v
      <3>2. local'[r] = v /\ pc'[r] = "insert"
        BY <3>1 DEF TypeInv, Typed, TypeOK
      <3>3. QED
        BY <1>s, <2>1, <2>3, <2>4, <3>2 DEF CallSound
    <2>8. QED
      BY <2>5, <2>6, <2>7
  <1>5. CASE FetchedSet(r)
    <2>1. /\ local'[r].getting = local[r].getting /\ local'[r].own = local[r].own
          /\ pc[r] = "get" /\ pc'[r] = "store" /\ local[r].getting = "set"
          /\ call' = call
      BY <1>5, <1>v DEF FetchedSet, TypeInv, Typed, TypeOK, Local
    <2>2. QED
      BY <1>s, <2>1 DEF CallSound
  <1>6. QED
    BY <1>1, <1>2, <1>3, <1>4, <1>5 DEF Fetch

LEMMA OtherCall ==
    ASSUME TypeInv, NEW r \in Requests, RequestStep(r), ~(Fetch(r) \/ Issue(r))
    PROVE  CallSound(r)'
  <1>s. CallSound(r)
    BY DEF TypeInv
  <1>1. call' = call /\ call[r] \in Calls
    BY Subject DEF RequestStep, Store, StoreSet, Recheck, Insert, Duplicate, Conflicts, DbError,
                   NoFile, StartWrite, EndWrite, WriteFails, Compute
  <1>2. CASE Insert(r) \/ Duplicate(r) \/ DbError(r) \/ NoFile(r) \/ WriteFails(r) \/ Compute(r)
    BY <1>1, <1>2, EndedCall DEF Insert, Duplicate, DbError, NoFile, WriteFails, Compute,
                                 Answer, Serve
  <1>3. CASE StoreSet(r) \/ Recheck(r)
    <2>1. CASE Goes(r, "recheck") \/ Goes(r, "insert")
      BY <1>s, <1>1, <1>3, <2>1 DEF StoreSet, Recheck, Goes, Answer, Serve, Ended, CallSound,
                                    TypeInv, Typed, TypeOK
    <2>2. CASE ~(Goes(r, "recheck") \/ Goes(r, "insert"))
      BY <1>1, <1>3, <2>2, EndedCall DEF StoreSet, Recheck, Answer, Serve
    <2>3. QED
      BY <2>1, <2>2
  <1>4. CASE StartWrite(r) \/ EndWrite(r)
    BY <1>s, <1>1, <1>4 DEF StartWrite, EndWrite, Goes, CallSound, TypeInv, Typed, TypeOK
  <1>5. QED
    BY <1>2, <1>3, <1>4 DEF RequestStep, Store

LEMMA StepIsRequest == ASSUME NEW r, Step(r) PROVE RequestStep(r)
  BY DEF Step, RequestStep

LEMMA NextType == TypeInv /\ [Next]_vars => TypeInv'
  <1> SUFFICES ASSUME TypeInv, [Next]_vars PROVE TypeInv'
    OBVIOUS
  <1>1. CASE \E r \in Requests : Step(r)
    <2>1. PICK r \in Requests : RequestStep(r)
      BY <1>1, StepIsRequest
    <2>2. Typed'
      BY <2>1, FetchType, StoreType, FileType DEF RequestStep
    <2>3. CallSound(r)'
      BY <2>1, FetchCall, OtherCall
    <2>4. \A q \in Requests \ {r} : CallSound(q)'
      BY <2>1, Others DEF TypeInv, CallSound, Same
    <2>5. QED
      BY <2>2, <2>3, <2>4 DEF TypeInv
  <1>2. CASE World
    <2>1. Typed'
      BY <1>2, WorldType
    <2>2. CASE UNCHANGED requestVars
      BY <2>1, <2>2 DEF TypeInv, CallSound, requestVars
    <2>3. CASE Crash
      BY <2>1, <2>3, NoneDistinct DEF Crash, TypeInv, Typed, TypeOK, CallSound, NoLocal
    <2>4. QED
      BY <1>2, <2>2, <2>3 DEF World, Update, Revoke, Lapse
  <1>3. CASE UNCHANGED vars
    BY <1>3 DEF vars, tables, fileVars, apiVars, tokenVars, requestVars, TypeInv, Typed, TypeOK,
                BegunBefore, CallSound
  <1>4. QED
    BY <1>1, <1>2, <1>3 DEF Next, Rest

\* Every variable keeps its type: no row is stored without a version that was
\* fetched.
THEOREM TypeCorrect == Spec => []TypeOK
  <1>1. TypeInv => TypeOK
    BY DEF TypeInv, Typed
  <1>2. QED
    BY <1>1, InitType, NextType, PTL DEF Spec

-----------------------------------------------------------------------------
(* One renewal suffices.                                                   *)

RenewInv == RenewalSuffices /\ \A r \in Requests : TokenSound(r)

\* Only a renewal brings a request that had a 401 to send a token again.
LEMMA RequestToken ==
    ASSUME TypeInv, NEW r \in Requests, TokenSound(r), RequestStep(r)
    PROVE  TokenSound(r)'
  <1> USE DEF TokenSound
  <1>v. local[r] \in Local
    BY DEF TypeInv, Typed, TypeOK
  <1>a. ASSUME NEW what, NEW v \in Local, Asks(r, what, v)
        PROVE  ~local'[r].retried
    BY <1>a DEF Asks, TypeInv, Typed, TypeOK, Local
  <1>s. [NoLocal EXCEPT !.snap = [sets |-> sets, maps |-> maps]] \in Local
    <2>1. [sets |-> sets, maps |-> maps] \in [sets : SUBSET Sets, maps : Rows]
      BY DEF TypeInv, Typed, TypeOK
    <2>2. QED
      BY <2>1, NoLocalType DEF Local
  <1>1. CASE \E c \in Calls : Begin(r, c)
    <2>1. PICK c \in Calls : Begin(r, c)
      BY <1>1
    <2>2. CASE Search(r, c)
      BY <2>2, <1>a, NoLocalType DEF Search
    <2>3. CASE Get(r, c)
      BY <2>3, <1>a, <1>s DEF Get, Answer, Serve, Ended, TypeInv, Typed, TypeOK
    <2>4. CASE Score(r, c)
      BY <2>4 DEF Score, Goes, TypeInv, Typed, TypeOK
    <2>5. QED
      BY <2>1, <2>2, <2>3, <2>4 DEF Begin
  <1>2. CASE Issue(r)
    BY <1>2, <1>v DEF Issue, apiVars, TypeInv, Typed, TypeOK, Local
  <1>3. CASE StoreToken(r)
    BY <1>3 DEF StoreToken, Goes, apiVars, TypeInv, Typed, TypeOK
  <1>4. CASE Refused(r) \/ RefusedAgain(r) \/ NothingFetched(r)
    BY <1>4 DEF Refused, RefusedAgain, NothingFetched, Without, Goes, Answer, Ended,
                TypeInv, Typed, TypeOK
  <1>5. CASE FetchedMap(r)
    <2> DEFINE v == [local[r] EXCEPT !.own = upstream[call[r].id]]
    <2>1. call[r].id \in Beatmaps
      BY <1>5, CallFields, Subject DEF FetchedMap, TypeInv, CallSound
    <2>2. v \in Local
      BY <1>v, <2>1 DEF Local, TypeInv, Typed, TypeOK, Rows
    <2>3. CASE Asks(r, "set", v)
      BY <1>a, <2>2, <2>3
    <2>4. CASE ~Asks(r, "set", v)
      BY <1>5, <2>4 DEF FetchedMap, Serve, Ended, TypeInv, Typed, TypeOK
    <2>5. QED
      BY <2>3, <2>4
  <1>6. CASE FetchedSet(r) \/ Store(r)
    BY <1>6 DEF FetchedSet, Store, StoreSet, Recheck, Insert, Duplicate, DbError, Goes, Answer,
                Serve, Ended, TypeInv, Typed, TypeOK
  <1>7. CASE NoFile(r) \/ StartWrite(r) \/ EndWrite(r) \/ WriteFails(r) \/ Compute(r)
    BY <1>7 DEF NoFile, StartWrite, EndWrite, WriteFails, Compute, Goes, Answer, Ended,
                TypeInv, Typed, TypeOK
  <1>8. QED
    BY <1>1, <1>2, <1>3, <1>4, <1>5, <1>6, <1>7 DEF RequestStep, Fetch

\* A second 401 tells of a revocation since the first.
LEMMA SecondRefusal ==
    ASSUME TypeInv, NEW r \in Requests, TokenSound(r), RefusedAgain(r)
    PROVE  revocations - local[r].since # 0
  <1>1. local[r].since \in Nat /\ revocations \in Nat
    BY LocalFields DEF TypeInv, Typed, TypeOK
  <1>2. local[r].since # revocations
    <2> SUFFICES ASSUME local[r].since = revocations PROVE FALSE
      OBVIOUS
    <2>1. ~mirror /\ local[r].held # revocations
      BY DEF RefusedAgain, Honoured
    <2>2. QED
      BY <2>1 DEF TokenSound, RefusedAgain
  <1>3. QED
    BY <1>1, <1>2

LEMMA RefusedOnlyAgain ==
    ASSUME NEW r \in Requests, RequestStep(r), ~RefusedAgain(r)
    PROVE  refused' = refused
  BY DEF RequestStep, Fetch, Begin, StoreToken, Refused, NothingFetched, FetchedMap, FetchedSet,
         Store, StoreSet, Recheck, Insert, Duplicate, DbError, Issue, NoFile, StartWrite, EndWrite,
         WriteFails, Compute, tokenVars

LEMMA ApiSame ==
    ASSUME NEW r \in Requests, RequestStep(r)
    PROVE  UNCHANGED apiVars
  BY DEF RequestStep, Fetch, Begin, StoreToken, Refused, RefusedAgain, NothingFetched, FetchedMap,
         FetchedSet, Store, StoreSet, Recheck, Insert, Duplicate, DbError, Issue, NoFile,
         StartWrite, EndWrite, WriteFails, Compute, apiVars

LEMMA NextRenew == TypeInv /\ RenewInv /\ [Next]_vars => RenewInv'
  <1> SUFFICES ASSUME TypeInv, RenewInv, [Next]_vars PROVE RenewInv'
    OBVIOUS
  <1>1. CASE \E r \in Requests : Step(r)
    <2>1. PICK r \in Requests : RequestStep(r)
      BY <1>1, StepIsRequest
    <2>2. TokenSound(r)'
      BY <2>1, RequestToken DEF RenewInv
    <2>3. \A q \in Requests \ {r} : TokenSound(q)'
      BY <2>1, Others, ApiSame DEF RenewInv, TokenSound, Same, apiVars
    <2>4. RenewalSuffices'
      <3>1. CASE RefusedAgain(r)
        BY <3>1, SecondRefusal DEF RefusedAgain, RenewInv, RenewalSuffices
      <3>2. CASE ~RefusedAgain(r)
        BY <2>1, <3>2, RefusedOnlyAgain DEF RenewInv, RenewalSuffices
      <3>3. QED
        BY <3>1, <3>2
    <2>5. QED
      BY <2>2, <2>3, <2>4 DEF RenewInv
  <1>2. CASE (\E b \in Beatmaps : Update(b)) \/ Lapse
    BY <1>2 DEF Update, Lapse, RenewInv, RenewalSuffices, TokenSound, apiVars, tokenVars, requestVars
  <1>3. CASE Revoke
    <2>1. \A r \in Requests : local[r].since # revocations + 1
      BY LocalFields DEF TypeInv, Typed, TypeOK, BegunBefore
    <2>2. QED
      BY <1>3, <2>1 DEF Revoke, RenewInv, RenewalSuffices, TokenSound, tokenVars, requestVars
  <1>4. CASE Crash
    BY <1>4 DEF Crash, RenewInv, RenewalSuffices, TokenSound, NoLocal
  <1>5. CASE UNCHANGED vars
    BY <1>5 DEF vars, apiVars, tokenVars, requestVars, RenewInv, RenewalSuffices, TokenSound
  <1>6. QED
    BY <1>1, <1>2, <1>3, <1>4, <1>5 DEF Next, World, Rest

\* A fetch is given up for a second 401 only if the API dropped its tokens
\* again after the first, for any number of requests renewing and dropping the
\* shared token.
THEOREM OneRenewalSuffices == Spec => []RenewalSuffices
  <1>1. Init => RenewInv
    BY DEF Init, RenewInv, RenewalSuffices, TokenSound
  <1>2. RenewInv => RenewalSuffices
    BY DEF RenewInv
  <1>3. QED
    BY <1>1, <1>2, InitType, NextType, NextRenew, PTL DEF Spec

-----------------------------------------------------------------------------
(* Sets are whole and answers hold.                                        *)

StoredInv ==
    /\ SetsWhole
    /\ \A r \in Requests : FetchSound(r) /\ AnswerSound(r)

\* Rows are never changed nor removed.
Grows ==
    /\ sets \subseteq sets'
    /\ \A b \in Beatmaps : maps[b] # None => maps'[b] = maps[b]

LEMMA NextGrows == TypeInv /\ [Next]_vars => Grows
  <1> SUFFICES ASSUME TypeInv, [Next]_vars PROVE Grows
    OBVIOUS
  <1>1. CASE \E r \in Requests : StoreSet(r) \/ Insert(r)
    <2>1. PICK r \in Requests : StoreSet(r) \/ Insert(r)
      BY <1>1
    <2>2. CASE StoreSet(r)
      BY <2>2 DEF StoreSet, Grows, TypeInv, Typed, TypeOK
    <2>3. CASE Insert(r)
      BY <2>3 DEF Insert, Grows, TypeInv, Typed, TypeOK, Rows
    <2>4. QED
      BY <2>1, <2>2, <2>3
  <1>2. CASE UNCHANGED <<sets, maps>>
    BY <1>2 DEF Grows
  <1>3. QED
    BY <1>1, <1>2
       DEF Next, World, Rest, Update, Revoke, Lapse, Crash, vars, tables,
           Step, Fetch, Begin, StoreToken, Refused, RefusedAgain, NothingFetched, FetchedMap,
           FetchedSet, Store, Recheck, Duplicate, DbError, Issue, NoFile,
           StartWrite, EndWrite, WriteFails, Compute

LEMMA NextSetsWhole == TypeInv /\ StoredInv /\ [Next]_vars => SetsWhole'
  <1> SUFFICES ASSUME TypeInv, StoredInv, [Next]_vars PROVE SetsWhole'
    OBVIOUS
  <1> USE DEF StoredInv, SetsWhole
  <1>1. ASSUME NEW r \in Requests, StoreSet(r) PROVE SetsWhole'
    <2> DEFINE s == Wanted(r)
    <2>1. s \in Sets
      BY <1>1, Subject DEF StoreSet
    <2>2. \A b \in Beatmaps :
            local[r].listing[b] # None => SetOf[b] = s /\ maps'[b] # None
      <3> SUFFICES ASSUME NEW b \in Beatmaps, local[r].listing[b] # None
                   PROVE  SetOf[b] = s /\ maps'[b] # None
        OBVIOUS
      <3>1. SetOf[b] = s
        BY <1>1 DEF StoreSet, FetchSound
      <3>2. CASE local[r].snap.maps[b] = None
        BY <1>1, <3>1, <3>2 DEF StoreSet, New, Listed
      <3>3. CASE local[r].snap.maps[b] # None
        BY <1>1, <3>1, <3>3, NextGrows DEF FetchSound, Grows
      <3>4. QED
        BY <3>1, <3>2, <3>3
    <2>3. \A b \in Beatmaps : maps'[b] # None => maps[b] # None \/ local[r].listing[b] # None
      BY <1>1 DEF StoreSet, New, Listed
    <2>4. sets' = sets \cup {s} /\ promised' = [promised EXCEPT ![s] = Listed(r)]
      BY <1>1 DEF StoreSet
    <2>5. \A b \in Beatmaps : maps[b] # None => maps'[b] # None
      BY NextGrows DEF Grows
    <2>6. QED
      BY <2>1, <2>2, <2>3, <2>4, <2>5 DEF Listed, TypeInv, Typed, TypeOK
  <1>2. ASSUME NEW r \in Requests, Insert(r) PROVE SetsWhole'
    <2>1. call[r].id \in Beatmaps
      BY <1>2, Subject DEF Insert
    <2>2. \A b \in Beatmaps : maps[b] # None => maps'[b] # None
      BY NextGrows DEF Grows
    <2>3. QED
      BY <1>2, <2>1, <2>2 DEF Insert, TypeInv, Typed, TypeOK, Rows
  <1>3. CASE UNCHANGED tables
    BY <1>3 DEF tables
  <1>4. QED
    BY <1>1, <1>2, <1>3
       DEF Next, World, Rest, Update, Revoke, Lapse, Crash, vars, tables,
           Step, Fetch, Begin, StoreToken, Refused, RefusedAgain, NothingFetched, FetchedMap,
           FetchedSet, Store, Recheck, Duplicate, DbError, Issue, NoFile,
           StartWrite, EndWrite, WriteFails, Compute

LEMMA EndedFetch ==
    ASSUME TypeInv, NEW r \in Requests, NEW end, NEW version, Ended(r, end, version)
    PROVE  FetchSound(r)'
  BY DEF Ended, NoLocal, NoRows, FetchSound, TypeInv, Typed, TypeOK

\* A request that keeps its snapshot, and does not come to store a set.
LEMMA SnapKept ==
    ASSUME NEW r \in Requests, FetchSound(r), Grows,
           local'[r].snap = local[r].snap, pc'[r] # "store"
    PROVE  FetchSound(r)'
  BY DEF FetchSound, Grows

LEMMA AsksFetch ==
    ASSUME TypeInv, NEW r \in Requests, NEW what, NEW v \in Local, Asks(r, what, v), Grows,
           \A b \in Beatmaps : v.snap.maps[b] # None => v.snap.maps[b] = maps[b]
    PROVE  FetchSound(r)'
  <1>1. local'[r].snap = v.snap
    BY DEF Asks, TypeInv, Typed, TypeOK, Local
  <1>2. pc'[r] # "store"
    BY DEF Asks, TypeInv, Typed, TypeOK
  <1>3. QED
    BY <1>1, <1>2 DEF FetchSound, Grows

\* What a step leaves in a request's snapshot and listing.
LEMMA RequestFetch ==
    ASSUME TypeInv, NEW r \in Requests, FetchSound(r), RequestStep(r), Grows
    PROVE  FetchSound(r)'
  <1>v. local[r] \in Local
    BY DEF TypeInv, Typed, TypeOK
  <1>1. CASE \E c \in Calls : Begin(r, c)
    <2>1. PICK c \in Calls : Begin(r, c)
      BY <1>1
    <2> DEFINE v == [NoLocal EXCEPT !.snap = [sets |-> sets, maps |-> maps]]
    <2>2. [sets |-> sets, maps |-> maps] \in [sets : SUBSET Sets, maps : Rows]
      BY DEF TypeInv, Typed, TypeOK
    <2>3. v \in Local /\ v.snap.maps = maps
      BY <2>2, NoLocalType DEF Local
    <2>4. CASE Search(r, c)
      BY <2>4, AsksFetch, NoLocalType DEF Search, NoLocal, NoRows
    <2>5. CASE Get(r, c)
      BY <2>3, <2>5, AsksFetch, EndedFetch DEF Get, Answer, Serve
    <2>6. CASE Score(r, c)
      BY <2>6, SnapKept DEF Score, Goes, TypeInv, Typed, TypeOK
    <2>7. QED
      BY <2>1, <2>4, <2>5, <2>6 DEF Begin
  <1>2. CASE Issue(r) \/ Refused(r) \/ StoreToken(r)
    BY <1>2, TokenSteps, SnapKept
  <1>3. CASE RefusedAgain(r) \/ NothingFetched(r)
    <2>1. CASE Goes(r, "insert")
      BY <2>1, SnapKept DEF Goes, TypeInv, Typed, TypeOK
    <2>2. CASE ~Goes(r, "insert")
      BY <1>3, <2>2, EndedFetch DEF RefusedAgain, NothingFetched, Without, Answer
    <2>3. QED
      BY <2>1, <2>2
  <1>4. CASE FetchedMap(r)
    <2> DEFINE b == call[r].id
               v == [local[r] EXCEPT !.own = upstream[b]]
    <2>1. b \in Beatmaps
      BY <1>4, CallFields, Subject DEF FetchedMap, TypeInv, CallSound
    <2>2. v \in Local /\ v.snap = local[r].snap
      BY <1>v, <2>1 DEF Local, TypeInv, Typed, TypeOK, Rows
    <2>3. CASE Asks(r, "set", v)
      <3>1. \A d \in Beatmaps : v.snap.maps[d] # None => v.snap.maps[d] = maps[d]
        BY <2>2 DEF FetchSound
      <3> HIDE DEF v
      <3>2. QED
        BY <2>2, <2>3, <3>1, AsksFetch
    <2>4. CASE v.snap.maps[b] # None
      BY <1>4, <2>4, EndedFetch DEF FetchedMap, Serve
    <2>5. CASE v.snap.maps[b] = None /\ ~Asks(r, "set", v)
      <3>1. local' = [local EXCEPT ![r] = v] /\ pc' = [pc EXCEPT ![r] = "insert"]
        BY <1>4, <2>5 DEF FetchedMap
      <3> HIDE DEF v
      <3>2. local'[r] = v /\ pc'[r] # "store"
        BY <3>1 DEF TypeInv, Typed, TypeOK
      <3>3. QED
        BY <2>2, <3>2, SnapKept
    <2>6. QED
      BY <2>3, <2>4, <2>5
  <1>5. CASE FetchedSet(r)
    <2>1. local'[r].snap = local[r].snap
      BY <1>5, <1>v DEF FetchedSet, TypeInv, Typed, TypeOK, Local
    <2>2. \A b \in Beatmaps : local'[r].listing[b] # None => SetOf[b] = Wanted(r)
      <3>1. PICK missing \in SUBSET Beatmaps :
              local' = [local EXCEPT ![r] = [local[r] EXCEPT !.listing =
                       [b \in Beatmaps |-> IF SetOf[b] = Wanted(r) /\ b \notin missing
                                             THEN upstream[b] ELSE None]]]
        BY <1>5 DEF FetchedSet
      <3>2. local'[r].listing = [b \in Beatmaps |-> IF SetOf[b] = Wanted(r) /\ b \notin missing
                                                     THEN upstream[b] ELSE None]
        BY <1>v, <3>1 DEF TypeInv, Typed, TypeOK, Local
      <3>3. QED
        BY <3>2
    <2>3. Wanted(r)' = Wanted(r)
      BY <1>5 DEF FetchedSet, Wanted
    <2>4. QED
      BY <2>1, <2>2, <2>3 DEF FetchSound, Grows
  <1>6. CASE Store(r)
    <2>1. CASE Goes(r, "recheck") \/ Goes(r, "insert")
      BY <2>1, SnapKept DEF Goes, TypeInv, Typed, TypeOK
    <2>2. CASE ~(Goes(r, "recheck") \/ Goes(r, "insert"))
      BY <1>6, <2>2, EndedFetch
         DEF Store, StoreSet, Recheck, Insert, Duplicate, DbError, Answer, Serve
    <2>3. QED
      BY <2>1, <2>2
  <1>7. CASE NoFile(r) \/ WriteFails(r) \/ Compute(r)
    BY <1>7, EndedFetch DEF NoFile, WriteFails, Compute, Answer
  <1>8. CASE StartWrite(r) \/ EndWrite(r)
    BY <1>8, SnapKept DEF StartWrite, EndWrite, Goes, TypeInv, Typed, TypeOK
  <1>9. QED
    BY <1>1, <1>2, <1>3, <1>4, <1>5, <1>6, <1>7, <1>8 DEF RequestStep, Fetch

\* The ends of a request.
LEMMA EndsWith ==
    ASSUME TypeInv, NEW r \in Requests, NEW end, NEW version, Ended(r, end, version),
           end = "row" => call'[r].id \in Beatmaps /\ maps'[call'[r].id] = version,
           end \in {"set", "duplicate"} => Wanted(r)' \in sets'
    PROVE  AnswerSound(r)'
  BY DEF Ended, AnswerSound, TypeInv, Typed, TypeOK

LEMMA GoesOn ==
    ASSUME NEW r \in Requests, AnswerSound(r), pc[r] # "done", UNCHANGED answer
    PROVE  AnswerSound(r)'
  BY NoneDistinct DEF AnswerSound

LEMMA RequestAnswer ==
    ASSUME TypeInv, StoredInv, NEW r \in Requests, RequestStep(r), Grows
    PROVE  AnswerSound(r)'
  <1>s. FetchSound(r) /\ AnswerSound(r)
    BY DEF StoredInv
  <1>v. local[r] \in Local
    BY DEF TypeInv, Typed, TypeOK
  <1>n. ASSUME NEW end \in {"none", "error", "pp", "bad pp"}, Answer(r, end)
        PROVE  AnswerSound(r)'
    BY <1>n, EndsWith DEF Answer
  <1>1. CASE \E c \in Calls : Begin(r, c)
    <2>1. PICK c \in Calls : Begin(r, c)
      BY <1>1
    <2>2. call'[r] = c /\ UNCHANGED <<sets, maps>>
      BY <2>1 DEF Begin, tables, TypeInv, Typed, TypeOK
    <2>3. CASE Search(r, c) \/ Score(r, c)
      BY <1>s, <2>1, <2>3, GoesOn DEF Begin, Search, Score, Asks, Goes
    <2>4. CASE Get(r, c) /\ Found(c) /\ c.op = "set"
      BY <2>2, <2>4, EndsWith DEF Get, Found, Answer, Wanted
    <2>5. CASE Get(r, c) /\ Found(c) /\ c.op # "set"
      BY <2>2, <2>5, CallFields, EndsWith DEF Get, Serve
    <2>6. CASE Get(r, c) /\ ~Found(c)
      BY <1>s, <1>n, <2>1, <2>6, GoesOn DEF Begin, Get, Asks
    <2>7. QED
      BY <2>1, <2>3, <2>4, <2>5, <2>6 DEF Begin
  <1>2. CASE Issue(r) \/ Refused(r) \/ StoreToken(r) \/ FetchedSet(r)
    BY <1>2, <1>s, GoesOn DEF Issue, Refused, StoreToken, FetchedSet, Goes
  <1>3. CASE RefusedAgain(r) \/ NothingFetched(r)
    BY <1>3, <1>s, <1>n, GoesOn DEF RefusedAgain, NothingFetched, Without, Goes
  <1>4. CASE FetchedMap(r)
    <2> DEFINE b == call[r].id
               v == [local[r] EXCEPT !.own = upstream[b]]
    <2>1. b \in Beatmaps /\ UNCHANGED <<call, maps>>
      BY <1>4, CallFields, Subject DEF FetchedMap, tables, TypeInv, CallSound
    <2>2. v.snap = local[r].snap
      BY <1>v DEF Local
    <2>3. CASE v.snap.maps[b] # None
      <3>1. Serve(r, v.snap.maps[b])
        BY <1>4, <2>3 DEF FetchedMap
      <3>2. v.snap.maps[b] = maps[b]
        BY <1>s, <2>1, <2>2, <2>3 DEF FetchSound
      <3>3. QED
        BY <2>1, <3>1, <3>2, EndsWith DEF Serve
    <2>4. CASE v.snap.maps[b] = None
      BY <1>4, <1>s, <2>4, GoesOn DEF FetchedMap, Asks
    <2>5. QED
      BY <2>3, <2>4
  <1>5. CASE StoreSet(r)
    <2>1. Wanted(r)' \in sets'
      BY <1>5, Subject DEF StoreSet, Wanted
    <2>2. QED
      BY <1>5, <1>s, <2>1, GoesOn, EndsWith DEF StoreSet, Answer, Goes
  <1>6. CASE Recheck(r)
    BY <1>6, <1>s, Subject, GoesOn, EndsWith DEF Recheck, Serve, Goes, tables
  <1>7. CASE Insert(r)
    <2>1. call[r].id \in Beatmaps
      BY <1>7, Subject DEF Insert
    <2>2. maps'[call'[r].id] = local[r].own
      BY <1>7, <2>1 DEF Insert, TypeInv, Typed, TypeOK, Rows
    <2>3. QED
      BY <1>7, <2>1, <2>2, EndsWith DEF Insert, Serve
  <1>8. CASE Duplicate(r)
    <2>1. CASE pc[r] = "insert"
      <3>1. call[r].op # "set" /\ call[r].id \in Beatmaps /\ maps[call[r].id] # None
        BY <1>8, <2>1, Subject DEF Duplicate, Conflicts
      <3>2. Wanted(r) \in sets
        BY <3>1 DEF Wanted, StoredInv, SetsWhole
      <3>3. QED
        BY <1>8, <3>2, EndsWith DEF Duplicate, Answer, Wanted, tables
    <2>2. CASE pc[r] = "store"
      <3>1. Wanted(r) \in sets
        BY <1>8, <1>s, <2>2 DEF Duplicate, Conflicts, New, Listed, FetchSound, StoredInv, SetsWhole
      <3>2. QED
        BY <1>8, <3>1, EndsWith DEF Duplicate, Answer, Wanted, tables
    <2>3. QED
      BY <1>8, <2>1, <2>2 DEF Duplicate, Conflicts
  <1>9. CASE DbError(r) \/ NoFile(r) \/ WriteFails(r) \/ Compute(r)
    BY <1>9, <1>n DEF DbError, NoFile, WriteFails, Compute
  <1>10. CASE StartWrite(r) \/ EndWrite(r)
    BY <1>10, <1>s, GoesOn DEF StartWrite, EndWrite, Goes
  <1>11. QED
    BY <1>1, <1>2, <1>3, <1>4, <1>5, <1>6, <1>7, <1>8, <1>9, <1>10 DEF RequestStep, Fetch, Store

\* A request that takes no step, while others only add rows.
LEMMA SameStored ==
    ASSUME TypeInv, StoredInv, Grows, NEW q \in Requests, Same(q)
    PROVE  FetchSound(q)' /\ AnswerSound(q)'
  <1>s. FetchSound(q) /\ AnswerSound(q)
    BY DEF StoredInv
  <1>1. FetchSound(q)'
    BY <1>s DEF FetchSound, Grows, Same, Wanted
  <1>2. answer[q].end = "row" => answer[q].version # None
    <2>1. answer[q] \in Answers
      BY DEF TypeInv, Typed, TypeOK
    <2>2. QED
      BY <2>1, NoneDistinct, NoVersion DEF Answers, Ends
  <1>3. AnswerSound(q)'
    BY <1>s, <1>2 DEF AnswerSound, Grows, Same, Wanted
  <1>4. QED
    BY <1>1, <1>3

LEMMA NextStored == TypeInv /\ StoredInv /\ [Next]_vars => StoredInv'
  <1> SUFFICES ASSUME TypeInv, StoredInv, [Next]_vars PROVE StoredInv'
    OBVIOUS
  <1>g. Grows
    BY NextGrows
  <1>1. SetsWhole'
    BY NextSetsWhole
  <1>2. CASE \E r \in Requests : Step(r)
    <2>1. PICK r \in Requests : RequestStep(r)
      BY <1>2, StepIsRequest
    <2>2. \A q \in Requests \ {r} : FetchSound(q)' /\ AnswerSound(q)'
      BY <1>g, <2>1, Others, SameStored
    <2>3. FetchSound(r)' /\ AnswerSound(r)'
      BY <1>g, <2>1, RequestFetch, RequestAnswer DEF StoredInv
    <2>4. QED
      BY <1>1, <2>2, <2>3 DEF StoredInv
  <1>3. CASE UNCHANGED requestVars
    BY <1>1, <1>3, <1>g, SameStored DEF StoredInv, Same, requestVars
  <1>4. CASE Crash
    <2> SUFFICES ASSUME NEW r \in Requests PROVE FetchSound(r)' /\ AnswerSound(r)'
      BY <1>1 DEF StoredInv
    <2>1. FetchSound(r)'
      BY <1>4 DEF Crash, FetchSound, NoLocal, NoRows, TypeInv, Typed, TypeOK
    <2>2. CASE pc[r] \in {"idle", "done"}
      <3>1. answer'[r] = answer[r] /\ pc'[r] = pc[r] /\ UNCHANGED <<call, maps, sets>>
        BY <1>4, <2>2 DEF Crash, tables, TypeInv, Typed, TypeOK
      <3>2. QED
        BY <2>1, <3>1 DEF AnswerSound, StoredInv, Wanted
    <2>3. CASE pc[r] \notin {"idle", "done"}
      <3>1. answer'[r].end = "lost" /\ pc'[r] = "done"
        BY <1>4, <2>3 DEF Crash, TypeInv, Typed, TypeOK
      <3>2. QED
        BY <2>1, <3>1 DEF AnswerSound
    <2>4. QED
      BY <2>1, <2>2, <2>3
  <1>5. QED
    BY <1>2, <1>3, <1>4 DEF Next, World, Rest, Update, Revoke, Lapse, vars, requestVars

LEMMA InitStored == Init => StoredInv
  <1> SUFFICES ASSUME Init PROVE StoredInv
    OBVIOUS
  <1>1. SetsWhole
    BY DEF Init, SetsWhole, NoRows
  <1>2. \A r \in Requests : FetchSound(r)
    BY DEF Init, FetchSound, NoLocal, NoRows
  <1>3. \A r \in Requests : AnswerSound(r)
    BY NoneDistinct DEF Init, AnswerSound
  <1>4. QED
    BY <1>1, <1>2, <1>3 DEF StoredInv

\* A cached set is stored with all it was fetched with, for any number of
\* requests that fetch it at once, and whichever of them fail.
THEOREM SetsAreWhole == Spec => []SetsWhole
  <1>1. StoredInv => SetsWhole
    BY DEF StoredInv
  <1>2. QED
    BY <1>1, InitType, NextType, InitStored, NextStored, PTL DEF Spec

\* What was answered stays what is stored.
THEOREM AnswersAreKept == Spec => []AnswersHold
  <1>1. StoredInv => AnswersHold
    BY DEF StoredInv, AnswerSound, AnswersHold
  <1>2. QED
    BY <1>1, InitType, NextType, InitStored, NextStored, PTL DEF Spec

-----------------------------------------------------------------------------
(* Performance is computed from whole files.                               *)

FileInv == FilesSound /\ \A r \in Requests : FileSound(r)

\* A step that leaves the files alone, of a request that does not begin to
\* read one.
LEMMA FilesKept ==
    ASSUME TypeInv, FileInv, NEW r \in Requests, RequestStep(r), UNCHANGED fileVars,
           pc[r] # "write", pc'[r] # "write",
           FileSound(r)'
    PROVE  FileInv'
  <1>1. \A q \in Requests \ {r} : FileSound(q)'
    BY Others DEF FileInv, FileSound, Same, fileVars
  <1>2. FilesSound'
    BY Others DEF FileInv, FilesSound, Same, fileVars
  <1>3. QED
    BY <1>1, <1>2 DEF FileInv

\* ... nor gets an answer computed from one.
LEMMA NotReading ==
    ASSUME TypeInv, StoredInv, NEW r \in Requests, pc[r] # "done",
           pc'[r] # "compute", answer'[r] = answer[r] \/ answer'[r].end # "bad pp"
    PROVE  FileSound(r)'
  BY NoneDistinct DEF FileSound, StoredInv, AnswerSound

\* The ways of a step that reads no file.
Moves(r) ==
    /\ pc'[r] \notin {"compute", "write"}
    /\ answer'[r] = answer[r] \/ answer'[r].end # "bad pp"

LEMMA EndedMoves ==
    ASSUME TypeInv, NEW r \in Requests, NEW end, NEW version, Ended(r, end, version), end # "bad pp"
    PROVE  Moves(r)
  BY DEF TypeInv, Typed, TypeOK, Ended, Moves

LEMMA GoesMoves ==
    ASSUME TypeInv, NEW r \in Requests, NEW l, Goes(r, l), l \notin {"compute", "write"}
    PROVE  Moves(r)
  BY DEF TypeInv, Typed, TypeOK, Goes, Moves

LEMMA AsksMoves ==
    ASSUME TypeInv, NEW r \in Requests, NEW what, NEW v, Asks(r, what, v)
    PROVE  Moves(r)
  BY DEF TypeInv, Typed, TypeOK, Asks, Moves

LEMMA Unrelated ==
    ASSUME TypeInv, StoredInv, FileInv, NEW r \in Requests, RequestStep(r), UNCHANGED fileVars,
           pc[r] \notin {"write", "done"}, Moves(r)
    PROVE  FileInv'
  <1>1. FileSound(r)'
    BY NotReading DEF Moves
  <1>2. QED
    BY <1>1, FilesKept DEF Moves

LEMMA FetchKeepsFiles ==
    ASSUME TypeInv, StoredInv, FileInv, LoopFree, NEW r \in Requests,
           Fetch(r) \/ Store(r) \/ NoFile(r)
    PROVE  FileInv'
  <1>1. CASE \E c \in Calls : Begin(r, c)
    <2>1. PICK c \in Calls : Begin(r, c)
      BY <1>1
    <2>0. RequestStep(r)
      BY <1>1 DEF RequestStep, Fetch
    <2>2. CASE Score(r, c) /\ files[c.id] # None
      <3>1. pc'[r] = "compute" /\ call'[r] = c /\ answer'[r] = answer[r] /\ UNCHANGED fileVars
        BY <2>1, <2>2 DEF Begin, Score,
             TypeInv, Typed, TypeOK, fileVars, Goes
      <3>2. c.id \in Beatmaps
        BY <2>2, CallFields DEF Score
      <3>3. files[c.id] = "whole" \/ c.id \in torn
        <4>1. files[c.id] \in {None, "part", "whole"}
          BY <3>2 DEF TypeInv, Typed, TypeOK
        <4>2. QED
          BY <2>2, <3>2, <4>1 DEF FileInv, FilesSound, LoopFree
      <3>4. FileSound(r)'
        BY <2>1, <3>1, <3>3, NoneDistinct DEF Begin, FileSound, fileVars, StoredInv, AnswerSound
      <3>5. QED
        BY <2>0, <2>1, <3>1, <3>4, FilesKept DEF Begin
    <2>3. CASE ~(Score(r, c) /\ files[c.id] # None)
      <3>1. Moves(r) /\ UNCHANGED fileVars /\ pc[r] = "idle"
        BY <2>1, <2>3, EndedMoves, GoesMoves, AsksMoves
           DEF Begin, Search, Get, Score, Answer, Serve
      <3>2. QED
        BY <2>0, <3>1, Unrelated
    <2>4. QED
      BY <2>2, <2>3
  <1>2. CASE StoreToken(r) \/ Refused(r) \/ RefusedAgain(r) \/ NothingFetched(r)
    <2>1. Moves(r) /\ UNCHANGED fileVars /\ pc[r] \notin {"write", "done"}
      BY <1>2, EndedMoves, GoesMoves
         DEF StoreToken, Refused, RefusedAgain, NothingFetched, Moves, TypeInv, Typed, TypeOK,
             Answer, Without
    <2>2. QED
      <3>1. RequestStep(r)
        BY <1>2 DEF RequestStep, Fetch
      <3>2. QED
        BY <2>1, <3>1, Unrelated
  <1>3. CASE FetchedMap(r) \/ FetchedSet(r)
    <2>1. Moves(r) /\ UNCHANGED fileVars /\ pc[r] \notin {"write", "done"}
      BY <1>3, EndedMoves, GoesMoves, AsksMoves
         DEF FetchedMap, FetchedSet, Moves, Serve, TypeInv, Typed, TypeOK
    <2>2. QED
      <3>1. RequestStep(r)
        BY <1>3 DEF RequestStep, Fetch
      <3>2. QED
        BY <2>1, <3>1, Unrelated
  <1>4. CASE Store(r) \/ NoFile(r)
    <2>1. Moves(r) /\ UNCHANGED fileVars /\ pc[r] \notin {"write", "done"}
      BY <1>4, EndedMoves, GoesMoves
         DEF Store, StoreSet, Recheck, Insert, Duplicate, Conflicts, DbError, NoFile, Answer, Serve
    <2>2. QED
      <3>1. RequestStep(r)
        BY <1>4 DEF RequestStep
      <3>2. QED
        BY <2>1, <3>1, Unrelated
  <1>5. QED
    BY <1>1, <1>2, <1>3, <1>4 DEF Fetch

\* Opening the file for writing empties it under whoever reads it: one that
\* found it whole finds it among the rewritten.
LEMMA StartWriteKeeps ==
    ASSUME TypeInv, StoredInv, FileInv, LoopFree, NEW r \in Requests, StartWrite(r)
    PROVE  FileInv'
  <1> DEFINE b == call[r].id
  <1>1. b \in Beatmaps /\ call' = call /\ pc[r] = "download" /\ torn' = torn
    BY Subject DEF StartWrite
  <1>2. pc' = [pc EXCEPT ![r] = "write"] /\ UNCHANGED <<answer, local>>
    BY DEF StartWrite, Goes
  <1>3. /\ files' = [files EXCEPT ![b] = "part"]
        /\ rewritten \subseteq rewritten'
        /\ files[b] # None => b \in rewritten'
    BY DEF StartWrite
  <1>4. \A q \in Requests : FileSound(q)'
    <2> SUFFICES ASSUME NEW q \in Requests PROVE FileSound(q)'
      OBVIOUS
    <2>1. CASE q = r
      BY <1>1, <1>2, <1>3, <2>1, NoneDistinct
         DEF FileSound, StoredInv, AnswerSound, TypeInv, Typed, TypeOK
    <2>2. CASE q # r
      <3>1. FileSound(q) /\ pc'[q] = pc[q] /\ call'[q] = call[q] /\ answer'[q] = answer[q]
        BY <1>1, <1>2, <2>2 DEF FileInv, TypeInv, Typed, TypeOK
      <3>2. CASE call[q].id = b
        BY <1>1, <1>3, <3>1, <3>2, NoneDistinct DEF FileSound
      <3>3. CASE call[q].id # b
        <4>1. pc[q] = "compute" => call[q].id \in Beatmaps
          BY Subject
        <4>2. QED
          BY <1>1, <1>3, <3>1, <3>3, <4>1 DEF FileSound, TypeInv, Typed, TypeOK
      <3>4. QED
        BY <3>2, <3>3
    <2>3. QED
      BY <2>1, <2>2
  <1>5. FilesSound'
    BY <1>1, <1>2, <1>3 DEF FileInv, FilesSound, LoopFree, TypeInv, Typed, TypeOK
  <1>6. QED
    BY <1>4, <1>5 DEF FileInv

\* The end of a write: the one file that was written changes.
LEMMA Written ==
    ASSUME TypeInv, StoredInv, FileInv, NEW r \in Requests, pc[r] = "write",
           NEW left \in {"part", "whole", None}, NEW l \in {"compute", "done"},
           files' = [files EXCEPT ![call[r].id] = left],
           pc' = [pc EXCEPT ![r] = l],
           torn \subseteq torn', UNCHANGED <<rewritten, call>>,
           left # "whole" => call[r].id \in torn',
           \A q \in Requests \ {r} : answer'[q] = answer[q],
           answer'[r].end # "bad pp"
    PROVE  FileInv'
  <1> DEFINE b == call[r].id
  <1>1. b \in Beatmaps
    BY Subject
  <1>2. \A q \in Requests : FileSound(q)'
    <2> SUFFICES ASSUME NEW q \in Requests PROVE FileSound(q)'
      OBVIOUS
    <2>1. CASE q = r
      BY <1>1, <2>1 DEF FileSound, TypeInv, Typed, TypeOK
    <2>2. CASE q # r
      <3>1. FileSound(q) /\ pc'[q] = pc[q] /\ call'[q] = call[q] /\ answer'[q] = answer[q]
        BY <2>2 DEF FileInv, TypeInv, Typed, TypeOK
      <3>2. pc[q] = "compute" => call[q].id \in Beatmaps
        BY Subject
      <3>3. QED
        BY <1>1, <3>1, <3>2 DEF FileSound, TypeInv, Typed, TypeOK
    <2>3. QED
      BY <2>1, <2>2
  <1>3. FilesSound'
    <2>1. \A q \in Requests : pc'[q] = "write" => pc[q] = "write" /\ q # r
      BY DEF TypeInv, Typed, TypeOK
    <2>2. \A q \in Requests : pc'[q] # "write"
      BY <2>1 DEF FileInv, FilesSound
    <2>3. \A d \in Beatmaps : files'[d] = "part" => d \in torn'
      BY <1>1 DEF FileInv, FilesSound, TypeInv, Typed, TypeOK
    <2>4. QED
      BY <2>2, <2>3 DEF FilesSound
  <1>4. QED
    BY <1>2, <1>3 DEF FileInv

LEMMA WriteEnds ==
    ASSUME TypeInv, StoredInv, FileInv, NEW r \in Requests, EndWrite(r) \/ WriteFails(r)
    PROVE  FileInv'
  <1>1. CASE EndWrite(r)
    <2>1. answer'[r].end # "bad pp"
      BY <1>1, NoneDistinct DEF EndWrite, Goes, StoredInv, AnswerSound
    <2>2. QED
      BY <1>1, <2>1, Written DEF EndWrite, Goes
  <1>2. CASE WriteFails(r)
    <2>1. PICK left \in {"part", None} : files' = [files EXCEPT ![call[r].id] = left]
      BY <1>2 DEF WriteFails
    <2>2. left # "whole"
      BY NoneDistinct
    <2>3. answer'[r].end # "bad pp" /\ \A q \in Requests \ {r} : answer'[q] = answer[q]
      BY <1>2 DEF WriteFails, Answer, Ended, TypeInv, Typed, TypeOK
    <2>4. QED
      BY <1>2, <2>1, <2>2, <2>3, Written DEF WriteFails, Answer, Ended
  <1>3. QED
    BY <1>1, <1>2

LEMMA ComputeKeeps ==
    ASSUME TypeInv, StoredInv, FileInv, NEW r \in Requests, Compute(r)
    PROVE  FileInv'
  <1>1. /\ pc[r] = "compute" /\ pc'[r] = "done" /\ UNCHANGED <<fileVars, call>>
        /\ answer'[r].end = "bad pp" => files[call[r].id] # "whole"
    BY DEF Compute, Answer, Ended, TypeInv, Typed, TypeOK
  <1>2. FileSound(r)'
    BY <1>1 DEF FileInv, FileSound, fileVars
  <1>3. QED
    BY <1>1, <1>2, FilesKept DEF RequestStep

LEMMA CrashKeepsFiles ==
    ASSUME TypeInv, StoredInv, FileInv, Crash
    PROVE  FileInv'
  <1>1. \A r \in Requests : pc'[r] \notin {"write", "compute"}
    BY DEF Crash
  <1>2. torn \subseteq torn' /\ UNCHANGED <<rewritten, call>>
    BY DEF Crash
  <1>3. \A b \in Beatmaps : files'[b] = "part" => b \in torn'
    BY DEF Crash, FileInv, FilesSound, TypeInv, Typed, TypeOK
  <1>4. \A r \in Requests : answer'[r].end = "bad pp" => answer[r].end = "bad pp"
    BY DEF Crash, TypeInv, Typed, TypeOK
  <1>5. QED
    BY <1>1, <1>2, <1>3, <1>4 DEF FileInv, FilesSound, FileSound

LEMMA NextFile == TypeInv /\ StoredInv /\ FileInv /\ [Next]_vars => FileInv'
  <1> SUFFICES ASSUME TypeInv, StoredInv, FileInv, [Next]_vars PROVE FileInv'
    OBVIOUS
  <1>1. CASE \E r \in Requests : Step(r)
    <2>1. PICK r \in Requests : Step(r)
      BY <1>1
    <2>2. CASE LoopFree /\ (Fetch(r) \/ Store(r) \/ NoFile(r))
      BY <2>2, FetchKeepsFiles
    <2>3. CASE LoopFree /\ StartWrite(r)
      BY <2>3, StartWriteKeeps
    <2>4. CASE EndWrite(r) \/ WriteFails(r)
      BY <2>4, WriteEnds
    <2>5. CASE Compute(r)
      BY <2>5, ComputeKeeps
    <2>6. CASE Issue(r)
      <3>1. pc[r] = "post" /\ Moves(r) /\ UNCHANGED fileVars
        BY <2>6 DEF Issue, Moves, TypeInv, Typed, TypeOK
      <3>2. RequestStep(r)
        BY <2>6 DEF RequestStep
      <3>3. QED
        BY <3>1, <3>2, Unrelated
    <2>7. QED
      BY <2>1, <2>2, <2>3, <2>4, <2>5, <2>6 DEF Step
  <1>2. CASE UNCHANGED <<requestVars, fileVars>>
    BY <1>2 DEF requestVars, fileVars, FileInv, FilesSound, FileSound
  <1>3. CASE Crash
    BY <1>3, CrashKeepsFiles
  <1>4. QED
    BY <1>1, <1>2, <1>3 DEF Next, World, Rest, Update, Revoke, Lapse, vars

\* Performance is computed from part of a file only where a crash or a failed
\* write left it, or a second download replaced the file while it was read.
THEOREM PpIsFromWhole == Spec => []PpFromWhole
  <1>1. Init => FileInv
    <2>1. Init => FilesSound
      BY NoneDistinct DEF Init, FilesSound
    <2>2. Init => \A r \in Requests : FileSound(r)
      <3> SUFFICES ASSUME Init, NEW r \in Requests PROVE FileSound(r)
        OBVIOUS
      <3>1. pc[r] = "idle" /\ answer[r].end = None
        BY DEF Init
      <3>2. QED
        BY <3>1, NoneDistinct DEF FileSound
    <2>3. QED
      BY <2>1, <2>2 DEF FileInv
  <1>2. FileInv => PpFromWhole
    BY DEF FileInv, FileSound, PpFromWhole
  <1>3. QED
    BY <1>1, <1>2, InitType, NextType, InitStored, NextStored, NextFile, PTL DEF Spec

\* No step, a crash among them, takes back or changes a beatmapset or a
\* beatmap row that is stored.
THEOREM RowsStay == Spec => [][Grows]_vars
  <1>1. TypeInv /\ [Next]_vars => [Grows]_vars
    BY NextGrows
  <1>2. QED
    BY <1>1, InitType, NextType, PTL DEF Spec

=============================================================================
