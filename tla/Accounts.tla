------------------------------ MODULE Accounts ------------------------------
(***************************************************************************)
(* The requests that change user rows and what hangs on them: friends and  *)
(* blocks, the administrator's updates, password resets, registration,     *)
(* the profile and its avatar (app/api/v2: friends, blocks, admin,         *)
(* password_reset, register, me).                                          *)
(*                                                                         *)
(* A handler runs in one transaction.  Its reads all see the snapshot its  *)
(* first SELECT takes, so what it decides is a function of the rows at its *)
(* beginning: Begin evaluates the checks there and keeps the write they    *)
(* lead to as a plan.  What it writes is flushed by `await db.commit()`,   *)
(* column by column, with the rows locked from flush to commit: Commit     *)
(* applies the plan to the rows of that moment, or the flush fails.        *)
(***************************************************************************)
EXTENDS Naturals, FiniteSets

CONSTANTS
    Ids,                    \* user ids
    Members, Admins,        \* users that exist at first, those with the admin bit
    Bots,                   \* users with is_bot
    Names, NameOf,          \* user names, the initial ones
    Tokens,                 \* reset tokens
    Requests,               \* HTTP requests
    Calls,                  \* what a request may ask for
    MaxFriends,             \* user.max_friends
    None                    \* no row, no value

ASSUME MembersAssumption == Admins \subseteq Members /\ Members \subseteq Ids
ASSUME AdminsAssumption == Admins \ Bots # {}
ASSUME NameAssumption ==
    /\ NameOf \in [Members -> Names]
    /\ \A u, v \in Members : NameOf[u] = NameOf[v] => u = v
ASSUME LimitAssumption == MaxFriends \in Nat

VARIABLES
    users,                  \* [Ids -> Row or None]
    statistics,             \* users that have their rows of user_statistics
    relations,              \* [Ids \X Ids -> Relation or None]
    resets,                 \* [Tokens -> Reset or None]
    files,                  \* the avatar file stored for a user: its extension,
                            \* "part" if it is cut short, or None
    pc,                     \* where each request is
    call,                   \* what it asks for
    plan,                   \* the columns it is going to write
    uses,                   \* history: passwords set with a token
    disturbed               \* history: topics of requests that did not run alone

tables == <<users, statistics, relations, resets>>
vars == <<tables, files, pc, call, plan, uses, disturbed>>

Flags == BOOLEAN \cup {None}
Images == {"png", "gif"}
Rows == [name : Names, restricted : BOOLEAN, admin : BOOLEAN, avatar : Images \cup {None}]
Relation == [friend : BOOLEAN, foe : BOOLEAN]
Reset == [user : Ids, used : BOOLEAN]

ASSUME NoneAssumption ==
    /\ None \notin Names \cup Ids /\ None \notin BOOLEAN /\ None \notin Images \cup {"part"}
    /\ None \notin Rows /\ None \notin Relation /\ None \notin Reset

\* The calls.  A privileges value counts for its administrator bit; `others`
\* says whether it differs from the row's in the other bits.
RelationCalls ==
    [op : {"addFriend", "removeFriend", "addBlock", "removeBlock"}, by : Ids, target : Ids]
AdminCalls == [op : {"update"}, by : Ids, target : Ids, restricted : Flags, admin : Flags,
               others : BOOLEAN]
ResetCalls == [op : {"generate"}, by : Ids, target : Ids, token : Tokens]
                \cup [op : {"confirm"}, token : Tokens]
NameCalls == [op : {"register"}, target : Ids, name : Names]
                \cup [op : {"rename"}, by : Ids, name : Names]
ImageCalls == [op : {"avatar"}, by : Ids, image : Images \cup {"corrupt"}]
AllCalls == RelationCalls \cup AdminCalls \cup ResetCalls \cup NameCalls \cup ImageCalls

ASSUME CallsAssumption == Calls \subseteq AllCalls

\* What a flush writes: a relation row inserted, set or deleted, the columns
\* that differ from the snapshot, the tokens to invalidate.
Plans == [row : {"insert", "set", "delete"}, to : Relation]
            \cup [restricted : Flags, admin : Flags]
            \cup [old : SUBSET Tokens]

TypeOK ==
    /\ users \in [Ids -> Rows \cup {None}]
    /\ statistics \in SUBSET Ids
    /\ relations \in [Ids \X Ids -> Relation \cup {None}]
    /\ resets \in [Tokens -> Reset \cup {None}]
    /\ files \in [Ids -> Images \cup {"part", None}]
    /\ pc \in [Requests -> {"idle", "store", "write", "done"}]
    /\ call \in [Requests -> Calls \cup {None}]
    /\ plan \in [Requests -> Plans \cup {None}]
    /\ uses \in [Tokens -> Nat]

Init ==
    /\ users = [u \in Ids |-> IF u \in Members
                  THEN [name |-> NameOf[u], restricted |-> FALSE,
                        admin |-> u \in Admins, avatar |-> None]
                  ELSE None]
    /\ statistics = Members
    /\ relations = [p \in Ids \X Ids |-> None]
    /\ resets = [t \in Tokens |-> None]
    /\ files = [u \in Ids |-> None]
    /\ pc = [r \in Requests |-> "idle"]
    /\ call = [r \in Requests |-> None]
    /\ plan = [r \in Requests |-> None]
    /\ uses = [t \in Tokens |-> 0]
    /\ disturbed = {}

-----------------------------------------------------------------------------
(* The checks.                                                             *)

Exists(u) == users[u] # None

\* get_current_user: restricted users are nobody, bots get no token.
Authenticated(u) == Exists(u) /\ ~users[u].restricted /\ u \notin Bots
Administrator(u) == Authenticated(u) /\ users[u].admin

Friends(u) == {v \in Ids : relations[<<u, v>>] # None /\ relations[<<u, v>>].friend}
Foes(u) == {v \in Ids : relations[<<u, v>>] # None /\ relations[<<u, v>>].foe}
MaxBlocks == (MaxFriends + 4) \div 5

\* Faulty variant: the limit admits one more.
MayRelateToo(c) ==
    CASE c.op = "addFriend" -> /\ c.target # c.by /\ Exists(c.target)
                               /\ Cardinality(Friends(c.by)) <= MaxFriends
                               /\ c.target \notin Friends(c.by)
      [] c.op = "addBlock" -> /\ c.target # c.by /\ Exists(c.target)
                              /\ Cardinality(Foes(c.by)) < MaxBlocks
                              /\ c.target \notin Foes(c.by)
      [] c.op = "removeFriend" -> c.target \in Friends(c.by)
      [] c.op = "removeBlock" -> c.target \in Foes(c.by)

\* Faulty variant: a removal takes any relation it finds.
MayRelateAny(c) ==
    IF c.op \in {"removeFriend", "removeBlock"} THEN relations[<<c.by, c.target>>] # None
    ELSE MayRelateToo(c)

MayRelate(c) ==
    CASE c.op = "addFriend" -> /\ c.target # c.by /\ Exists(c.target)
                               /\ Cardinality(Friends(c.by)) < MaxFriends
                               /\ c.target \notin Friends(c.by)
      [] c.op = "addBlock" -> /\ c.target # c.by /\ Exists(c.target)
                              /\ Cardinality(Foes(c.by)) < MaxBlocks
                              /\ c.target \notin Foes(c.by)
      [] c.op = "removeFriend" -> c.target \in Friends(c.by)
      [] c.op = "removeBlock" -> c.target \in Foes(c.by)

\* Faulty variant: the restriction of oneself is not refused.
MayUpdateOneself(c) ==
    /\ Administrator(c.by)
    /\ Exists(c.target) /\ c.target \notin Bots
    /\ c.target = c.by => c.admin # FALSE

\* update_user_admin, with both of its guards against locking oneself out.
MayUpdate(c) ==
    /\ Administrator(c.by)
    /\ Exists(c.target) /\ c.target \notin Bots
    /\ c.target = c.by => c.restricted # TRUE /\ c.admin # FALSE

\* _load_valid; whether the hour has passed is left open (Refuse).
Valid(t) == resets[t] # None /\ ~resets[t].used /\ Exists(resets[t].user)

TakenByOther(name, u) == \E v \in Ids \ {u} : Exists(v) /\ users[v].name = name

Accepted(c) ==
    \/ c \in RelationCalls /\ Authenticated(c.by) /\ MayRelate(c)
    \/ c \in AdminCalls /\ MayUpdate(c)
    \/ c \in ResetCalls /\ c.op = "generate" /\ Administrator(c.by) /\ Exists(c.target)
                        /\ resets[c.token] = None
    \/ c \in ResetCalls /\ c.op = "confirm" /\ Valid(c.token)
    \/ c \in NameCalls /\ c.op = "register" /\ ~Exists(c.target)
                      /\ ~TakenByOther(c.name, c.target)
    \/ c \in NameCalls /\ c.op = "rename" /\ Authenticated(c.by)
                      /\ ~TakenByOther(c.name, c.by)
    \/ c \in ImageCalls /\ Authenticated(c.by)

-----------------------------------------------------------------------------
(* The plans.                                                              *)

\* The relation row an add leaves: never both flags.
Turned(c) == [friend |-> c.op = "addFriend", foe |-> c.op = "addBlock"]

\* Faulty variant: blocking a friend leaves the friendship.
PlanRelationBoth(c) ==
    LET row == relations[<<c.by, c.target>>]
    IN  [row |-> IF row = None THEN "insert" ELSE "set",
         to |-> [friend |-> c.op = "addFriend" \/ (row # None /\ row.friend),
                 foe |-> c.op = "addBlock"]]

PlanRelation(c) ==
    LET row == relations[<<c.by, c.target>>]
    IN  CASE c.op \in {"addFriend", "addBlock"} ->
                 [row |-> IF row = None THEN "insert" ELSE "set", to |-> Turned(c)]
          [] c.op \in {"removeFriend", "removeBlock"} /\ row.friend /\ row.foe ->
                 [row |-> "set", to |-> [friend |-> c.op # "removeFriend",
                                         foe |-> c.op # "removeBlock"]]
          [] OTHER -> [row |-> "delete", to |-> row]

\* The session writes the columns whose value changes.
Changed(new, old) == IF new = old THEN None ELSE new

PlanUpdate(c) ==
    [restricted |-> Changed(c.restricted, users[c.target].restricted),
     admin |-> IF c.others THEN c.admin ELSE Changed(c.admin, users[c.target].admin)]

PlanReset(c) ==
    [old |-> {t \in Tokens : resets[t] # None /\ resets[t].user = c.target /\ ~resets[t].used}]

Planned(c) ==
    CASE c.op \in {"addFriend", "removeFriend", "addBlock", "removeBlock"} -> PlanRelation(c)
      [] c.op = "update" -> PlanUpdate(c)
      [] c.op = "generate" -> PlanReset(c)
      [] OTHER -> None

\* What a request's checks are about: two that are open at once on one topic
\* do not see each other's writes.
Topic(c) ==
    CASE c \in RelationCalls -> <<"relations", c.by>>
      [] c \in AdminCalls -> <<"admins", None>>
      [] c \in ResetCalls -> <<"resets", IF c.op = "generate" THEN c.target
                                         ELSE resets[c.token].user>>
      [] c \in NameCalls -> <<"names", None>>
      [] c \in ImageCalls -> <<"avatar", c.by>>

OpenRequests == {r \in Requests : pc[r] \in {"store", "write"}}

Begin(r, c) ==
    /\ pc[r] = "idle"
    /\ Accepted(c)
    /\ pc' = [pc EXCEPT ![r] = IF c \in ImageCalls THEN "store" ELSE "write"]
    /\ call' = [call EXCEPT ![r] = c]
    /\ plan' = [plan EXCEPT ![r] = Planned(c)]
    /\ disturbed' = IF \E s \in OpenRequests : Topic(call[s]) = Topic(c)
                      THEN disturbed \cup {Topic(c)} ELSE disturbed
    /\ UNCHANGED <<tables, files, uses>>

\* A check fails (any of a confirmation's may: the link may have expired).
Refuse(r, c) ==
    /\ pc[r] = "idle"
    /\ Accepted(c) => c.op = "confirm"
    /\ pc' = [pc EXCEPT ![r] = "done"]
    /\ UNCHANGED <<tables, files, call, plan, uses, disturbed>>

-----------------------------------------------------------------------------
(* The flush and the commit.                                               *)

Ends(r) == pc' = [pc EXCEPT ![r] = "done"] /\ UNCHANGED <<call, plan>>

\* Faulty variant: what is uploaded is stored without decoding it.
StoreAnything(r) ==
    /\ pc[r] = "store"
    /\ files' = [files EXCEPT ![call[r].by] = call[r].image]
    /\ pc' = [pc EXCEPT ![r] = "write"]
    /\ UNCHANGED <<tables, call, plan, uses, disturbed>>

\* _store_image: the user's files are unlinked and the new one is written with
\* no await between; a gif is not decoded.
StoreImage(r) ==
    /\ pc[r] = "store"
    /\ call[r].image \in Images
    /\ files' = [files EXCEPT ![call[r].by] = call[r].image]
    /\ pc' = [pc EXCEPT ![r] = "write"]
    /\ UNCHANGED <<tables, call, plan, uses, disturbed>>

\* Faulty variant: nobody notices that the image is lost.
StoreFailsUnseen(r) ==
    /\ pc[r] = "store"
    /\ files' = [files EXCEPT ![call[r].by] = None]
    /\ pc' = [pc EXCEPT ![r] = "write"]
    /\ UNCHANGED <<tables, call, plan, uses, disturbed>>

\* An image that does not decode, a full disk or the end of the server leaves
\* no file, or what was written of a gif.
StoreFails(r) ==
    /\ pc[r] = "store"
    /\ \E left \in {None} \cup (IF call[r].image = "gif" THEN {"part"} ELSE {}) :
          files' = [files EXCEPT ![call[r].by] = left]
    /\ disturbed' = disturbed \cup {Topic(call[r])}
    /\ Ends(r)
    /\ UNCHANGED <<tables, uses>>

\* An INSERT of a row that is there by now and an UPDATE of one that is gone
\* fail the flush; a DELETE of one that is gone does not.
CommitRelation(r) ==
    LET p == <<call[r].by, call[r].target>>
    IN  /\ pc[r] = "write" /\ call[r] \in RelationCalls
        /\ plan[r].row = "insert" => relations[p] = None
        /\ plan[r].row = "set" => relations[p] # None
        /\ relations' = [relations EXCEPT ![p] =
                            IF plan[r].row = "delete" THEN None ELSE plan[r].to]
        /\ Ends(r)
        /\ UNCHANGED <<users, statistics, resets, files, uses, disturbed>>

CommitUpdate(r) ==
    LET u == call[r].target
    IN  /\ pc[r] = "write" /\ call[r] \in AdminCalls
        /\ users' = [users EXCEPT
              ![u].restricted = IF plan[r].restricted = None THEN @ ELSE plan[r].restricted,
              ![u].admin = IF plan[r].admin = None THEN @ ELSE plan[r].admin]
        /\ Ends(r)
        /\ UNCHANGED <<statistics, relations, resets, files, uses, disturbed>>

\* The tokens seen unused are marked used and the new one is stored.
CommitGenerate(r) ==
    /\ pc[r] = "write" /\ call[r] \in ResetCalls /\ call[r].op = "generate"
    /\ resets[call[r].token] = None
    /\ resets' = [t \in Tokens |->
          IF t = call[r].token THEN [user |-> call[r].target, used |-> FALSE]
          ELSE IF t \in plan[r].old THEN [resets[t] EXCEPT !.used = TRUE]
          ELSE resets[t]]
    /\ Ends(r)
    /\ UNCHANGED <<users, statistics, relations, files, uses, disturbed>>

\* Faulty variant: the token is not marked.
CommitConfirmUnmarked(r) ==
    /\ pc[r] = "write" /\ call[r] \in ResetCalls /\ call[r].op = "confirm"
    /\ uses' = [uses EXCEPT ![call[r].token] = @ + 1]
    /\ Ends(r)
    /\ UNCHANGED <<tables, files, disturbed>>

\* The password is set and the token marked used, both whatever the rows say
\* by then.
CommitConfirm(r) ==
    /\ pc[r] = "write" /\ call[r] \in ResetCalls /\ call[r].op = "confirm"
    /\ resets' = [resets EXCEPT ![call[r].token].used = TRUE]
    /\ uses' = [uses EXCEPT ![call[r].token] = @ + 1]
    /\ Ends(r)
    /\ UNCHANGED <<users, statistics, relations, files, disturbed>>

\* Faulty variant: the user row is committed before its statistics.
CommitRegisterFirst(r) ==
    /\ pc[r] = "write" /\ call[r] \in NameCalls /\ call[r].op = "register"
    /\ ~Exists(call[r].target) /\ ~TakenByOther(call[r].name, call[r].target)
    /\ users' = [users EXCEPT ![call[r].target] =
          [name |-> call[r].name, restricted |-> FALSE, admin |-> FALSE, avatar |-> None]]
    /\ Ends(r)
    /\ UNCHANGED <<statistics, relations, resets, files, uses, disturbed>>

\* The unique keys decide at the flush; the row and its statistics are one
\* transaction.
CommitRegister(r) ==
    /\ pc[r] = "write" /\ call[r] \in NameCalls /\ call[r].op = "register"
    /\ ~Exists(call[r].target) /\ ~TakenByOther(call[r].name, call[r].target)
    /\ users' = [users EXCEPT ![call[r].target] =
          [name |-> call[r].name, restricted |-> FALSE, admin |-> FALSE, avatar |-> None]]
    /\ statistics' = statistics \cup {call[r].target}
    /\ Ends(r)
    /\ UNCHANGED <<relations, resets, files, uses, disturbed>>

CommitRename(r) ==
    /\ pc[r] = "write" /\ call[r] \in NameCalls /\ call[r].op = "rename"
    /\ ~TakenByOther(call[r].name, call[r].by)
    /\ users' = [users EXCEPT ![call[r].by].name = call[r].name]
    /\ Ends(r)
    /\ UNCHANGED <<statistics, relations, resets, files, uses, disturbed>>

\* avatar_url, which names the file by its extension.
CommitAvatar(r) ==
    /\ pc[r] = "write" /\ call[r] \in ImageCalls
    /\ users' = [users EXCEPT ![call[r].by].avatar = call[r].image]
    /\ Ends(r)
    /\ UNCHANGED <<statistics, relations, resets, files, uses, disturbed>>

\* The flush violates a key, finds its row gone, or is a deadlock's victim; or
\* the server stops.  The transaction leaves nothing, the file stays.
Fail(r) ==
    /\ pc[r] \in {"store", "write"}
    /\ disturbed' = IF pc[r] = "write" /\ call[r] \in ImageCalls
                      THEN disturbed \cup {Topic(call[r])} ELSE disturbed
    /\ Ends(r)
    /\ UNCHANGED <<tables, files, uses>>

Commit(r) ==
    \/ CommitRelation(r) \/ CommitUpdate(r) \/ CommitGenerate(r) \/ CommitConfirm(r)
    \/ CommitRegister(r) \/ CommitRename(r) \/ CommitAvatar(r)

Next ==
    \E r \in Requests :
        \/ \E c \in Calls : Begin(r, c) \/ Refuse(r, c)
        \/ StoreImage(r) \/ StoreFails(r)
        \/ Commit(r) \/ Fail(r)

Spec == Init /\ [][Next]_vars
-----------------------------------------------------------------------------
(* Properties.                                                             *)

\* blocks.py:154 handles a user who is both friend and foe as what "shouldn't
\* happen": it does not, and no row is neither, however adds and removals of
\* one relation interleave.
FriendOrFoe ==
    \A p \in Ids \X Ids : relations[p] # None => relations[p].friend # relations[p].foe

\* The limits on friends and blocks hold for a user whose relation requests
\* did not overlap.
LimitsHold ==
    \A u \in Ids :
        <<"relations", u>> \notin disturbed =>
            Cardinality(Friends(u)) <= MaxFriends /\ Cardinality(Foes(u)) <= MaxBlocks

\* A block ends only because its owner lifts it or befriends the user, unless
\* requests on that owner's relations overlapped (the removal of a friend
\* deletes by key what has become a block by then).
BlocksStick ==
    [][\A u, v \in Ids :
          v \in Foes(u) /\ <<"relations", u>> \notin disturbed =>
              \/ v \in Foes(u)'
              \/ \E r \in Requests :
                    /\ pc[r] = "write" /\ pc'[r] = "done"
                    /\ call[r] \in RelationCalls /\ call[r].by = u /\ call[r].target = v
                    /\ call[r].op \in {"removeBlock", "addFriend"}]_vars

\* A reset link sets one password, and a user has one live link at a time,
\* unless requests about that user's links overlapped.
LinksSingleUse ==
    \A t \in Tokens :
        resets[t] # None /\ <<"resets", resets[t].user>> \notin disturbed =>
            /\ uses[t] <= 1
            /\ \A s \in Tokens \ {t} :
                  resets[s] # None /\ resets[s].user = resets[t].user =>
                      resets[s].used \/ resets[t].used

\* No sequence of administrators' updates locks all of them out, unless two
\* overlapped (each may then demote or restrict the other).
AdminRemains ==
    <<"admins", None>> \notin disturbed => \E u \in Ids : Administrator(u)

\* Every account is complete: its name is its own and it has its statistics,
\* also when registrations and renamings of one name race.
AccountsComplete ==
    /\ statistics = {u \in Ids : Exists(u)}
    /\ \A u, v \in Ids : Exists(u) /\ Exists(v) /\ users[u].name = users[v].name => u = v

\* The avatar a user's row names is on disk, unless uploads of that user
\* overlapped, or one failed after it had removed the old file.
AvatarStored ==
    \A u \in Ids :
        Exists(u) /\ <<"avatar", u>> \notin disturbed
          /\ (\A r \in OpenRequests : call[r] \notin ImageCalls \/ call[r].by # u) =>
            users[u].avatar = files[u]
=============================================================================
