--------------------------- MODULE AccountsProofs ---------------------------
(***************************************************************************)
(* Proofs about Accounts, for any users, tokens, requests, calls and       *)
(* limits.  The heart is StillInv: a request that nobody's request on the  *)
(* same topic overlapped still finds, when it commits, what it was         *)
(* accepted and planned on, so that it is as if it ran at that moment.     *)
(* What holds also of requests that overlap (FriendOrFoe and               *)
(* AccountsComplete) rests on what every plan and the unique keys ensure.  *)
(***************************************************************************)
EXTENDS Accounts, FiniteSetTheorems, TLAPS

USE MembersAssumption, NameAssumption, LimitAssumption, NoneAssumption, CallsAssumption

-----------------------------------------------------------------------------
(* Calls, by their operation.                                              *)

RelationOps == {"addFriend", "removeFriend", "addBlock", "removeBlock"}

LEMMA CallKinds ==
    ASSUME NEW c \in Calls
    PROVE  /\ c.op \in RelationOps \cup {"update", "generate", "confirm", "register", "rename",
                                         "avatar"}
           /\ c \in RelationCalls <=> c.op \in RelationOps
           /\ c \in AdminCalls <=> c.op = "update"
           /\ c \in ResetCalls <=> c.op \in {"generate", "confirm"}
           /\ c \in NameCalls <=> c.op \in {"register", "rename"}
           /\ c \in ImageCalls <=> c.op = "avatar"
  <1>1. \/ c \in RelationCalls \/ c \in AdminCalls \/ c \in ResetCalls
        \/ c \in NameCalls \/ c \in ImageCalls
    BY DEF AllCalls
  <1>2. \A d \in RelationCalls : d.op \in RelationOps
    BY DEF RelationCalls, RelationOps
  <1>3. \A d \in AdminCalls : d.op = "update"
    BY DEF AdminCalls
  <1>4. \A d \in ResetCalls : d.op \in {"generate", "confirm"}
    BY DEF ResetCalls
  <1>5. \A d \in NameCalls : d.op \in {"register", "rename"}
    BY DEF NameCalls
  <1>6. \A d \in ImageCalls : d.op = "avatar"
    BY DEF ImageCalls
  <1>7. QED
    BY <1>1, <1>2, <1>3, <1>4, <1>5, <1>6 DEF RelationOps

LEMMA CallFields ==
    ASSUME NEW c \in Calls
    PROVE  /\ c.op \in RelationOps => c.by \in Ids /\ c.target \in Ids
           /\ c.op = "update" => /\ c.by \in Ids /\ c.target \in Ids
                                 /\ c.restricted \in Flags /\ c.admin \in Flags
           /\ c.op = "generate" => c.by \in Ids /\ c.target \in Ids /\ c.token \in Tokens
           /\ c.op = "confirm" => c.token \in Tokens
           /\ c.op = "register" => c.target \in Ids /\ c.name \in Names
           /\ c.op = "rename" => c.by \in Ids /\ c.name \in Names
           /\ c.op = "avatar" => c.by \in Ids /\ c.image \in Images \cup {"corrupt"}
  <1>1. c.op \in RelationOps => c.by \in Ids /\ c.target \in Ids
    BY CallKinds DEF RelationCalls
  <1>2. c.op = "update" => /\ c.by \in Ids /\ c.target \in Ids
                           /\ c.restricted \in Flags /\ c.admin \in Flags
    BY CallKinds DEF AdminCalls
  <1>3. /\ c.op = "generate" => c.by \in Ids /\ c.target \in Ids /\ c.token \in Tokens
        /\ c.op = "confirm" => c.token \in Tokens
    BY CallKinds DEF ResetCalls
  <1>4. /\ c.op = "register" => c.target \in Ids /\ c.name \in Names
        /\ c.op = "rename" => c.by \in Ids /\ c.name \in Names
    BY CallKinds DEF NameCalls
  <1>5. c.op = "avatar" => c.by \in Ids /\ c.image \in Images \cup {"corrupt"}
    BY CallKinds DEF ImageCalls
  <1>6. QED
    BY <1>1, <1>2, <1>3, <1>4, <1>5

LEMMA TopicOf ==
    ASSUME NEW c \in Calls
    PROVE  /\ c.op \in RelationOps => Topic(c) = <<"relations", c.by>>
           /\ c.op = "update" => Topic(c) = <<"admins", None>>
           /\ c.op = "generate" => Topic(c) = <<"resets", c.target>>
           /\ c.op = "confirm" => Topic(c) = <<"resets", resets[c.token].user>>
           /\ c.op \in {"register", "rename"} => Topic(c) = <<"names", None>>
           /\ c.op = "avatar" => Topic(c) = <<"avatar", c.by>>
  BY CallKinds DEF Topic, RelationOps

LEMMA PlannedOf ==
    ASSUME NEW c \in Calls
    PROVE  /\ c.op \in RelationOps => Planned(c) = PlanRelation(c)
           /\ c.op = "update" => Planned(c) = PlanUpdate(c)
           /\ c.op = "generate" => Planned(c) = PlanReset(c)
           /\ c.op \in {"confirm", "register", "rename", "avatar"} => Planned(c) = None
  BY CallKinds DEF Planned, RelationOps

-----------------------------------------------------------------------------
(* Type correctness.                                                       *)

RelationPlans == [row : {"insert", "set", "delete"}, to : Relation]
UpdatePlans == [restricted : Flags, admin : Flags]
ResetPlans == [old : SUBSET Tokens]

\* What an open request holds, by its call; rows it is about are never gone.
Held(r) ==
    pc[r] \in {"store", "write"} =>
        /\ call[r] \in Calls
        /\ call[r].op \in RelationOps => plan[r] \in RelationPlans
        /\ call[r].op = "update" => plan[r] \in UpdatePlans /\ Exists(call[r].target)
        /\ call[r].op = "generate" =>
              /\ plan[r] \in ResetPlans
              /\ \A t \in plan[r].old : resets[t] # None /\ resets[t].user = call[r].target
        /\ call[r].op = "confirm" => resets[call[r].token] # None
        /\ call[r].op = "rename" => Exists(call[r].by)
        /\ call[r].op = "avatar" => /\ Exists(call[r].by)
                                    /\ pc[r] = "write" => call[r].image \in Images
        /\ pc[r] = "store" => call[r].op = "avatar"

TypeInv == TypeOK /\ \A r \in Requests : Held(r)

LEMMA InitType == Init => TypeInv
  <1> SUFFICES ASSUME Init PROVE TypeInv
    OBVIOUS
  <1>1. ASSUME NEW u \in Members
        PROVE  [name |-> NameOf[u], restricted |-> FALSE, admin |-> u \in Admins, avatar |-> None]
                  \in Rows
    BY DEF Rows
  <1>2. users \in [Ids -> Rows \cup {None}]
    BY <1>1 DEF Init
  <1>3. TypeOK
    BY <1>2 DEF Init, TypeOK
  <1>4. \A r \in Requests : Held(r)
    BY DEF Init, Held
  <1>5. QED
    BY <1>3, <1>4 DEF TypeInv

\* What a request may write when it is accepted.
LEMMA PlanType ==
    ASSUME TypeOK, NEW c \in Calls, Accepted(c)
    PROVE  /\ Planned(c) \in Plans \cup {None}
           /\ c.op \in RelationOps => Planned(c) \in RelationPlans
           /\ c.op = "update" => Planned(c) \in UpdatePlans /\ Exists(c.target)
           /\ c.op = "generate" =>
                 /\ Planned(c) \in ResetPlans
                 /\ \A t \in Planned(c).old : resets[t] # None /\ resets[t].user = c.target
           /\ c.op = "confirm" => resets[c.token] # None
           /\ c.op \in {"rename", "avatar"} => Exists(c.by)
  <1>1. ASSUME c.op \in RelationOps PROVE Planned(c) \in RelationPlans
    <2> DEFINE row == relations[<<c.by, c.target>>]
    <2>1. MayRelate(c)
      BY <1>1, CallKinds DEF Accepted, RelationOps
    <2>2. <<c.by, c.target>> \in Ids \X Ids /\ row \in Relation \cup {None}
      BY <1>1, CallFields DEF TypeOK
    <2>3. CASE c.op \in {"addFriend", "addBlock"}
      <3>1. Turned(c) \in Relation
        BY DEF Turned, Relation
      <3>2. PlanRelation(c) = [row |-> IF row = None THEN "insert" ELSE "set", to |-> Turned(c)]
        BY <2>3 DEF PlanRelation
      <3>3. QED
        BY <1>1, <3>1, <3>2, PlannedOf DEF RelationPlans
    <2>4. CASE c.op \in {"removeFriend", "removeBlock"}
      <3>1. row \in Relation
        <4>1. c.target \in Friends(c.by) \/ c.target \in Foes(c.by)
          BY <2>1, <2>4 DEF MayRelate
        <4>2. row # None
          BY <4>1 DEF Friends, Foes
        <4>3. QED
          BY <2>2, <4>2
      <3>2. [friend |-> c.op # "removeFriend", foe |-> c.op # "removeBlock"] \in Relation
        BY DEF Relation
      <3>3. \/ PlanRelation(c) = [row |-> "set", to |-> [friend |-> c.op # "removeFriend",
                                                         foe |-> c.op # "removeBlock"]]
            \/ PlanRelation(c) = [row |-> "delete", to |-> row]
        BY <2>4 DEF PlanRelation
      <3>4. QED
        BY <1>1, <3>1, <3>2, <3>3, PlannedOf DEF RelationPlans
    <2>5. QED
      BY <1>1, <2>3, <2>4 DEF RelationOps
  <1>2. ASSUME c.op = "update" PROVE Planned(c) \in UpdatePlans /\ Exists(c.target)
    <2>1. MayUpdate(c)
      BY <1>2, CallKinds DEF Accepted, RelationOps
    <2>2. Planned(c) \in UpdatePlans
      BY <1>2, CallFields, PlannedOf DEF PlanUpdate, Changed, UpdatePlans, Flags
    <2>3. QED
      BY <2>1, <2>2 DEF MayUpdate
  <1>3. ASSUME c.op = "generate"
        PROVE  /\ Planned(c) \in ResetPlans
               /\ \A t \in Planned(c).old : resets[t] # None /\ resets[t].user = c.target
    BY <1>3, PlannedOf DEF PlanReset, ResetPlans
  <1>4. c.op = "confirm" => resets[c.token] # None
    BY CallKinds DEF Accepted, Valid, RelationOps
  <1>5. c.op \in {"rename", "avatar"} => Exists(c.by)
    BY CallKinds DEF Accepted, Authenticated, RelationOps
  <1>6. Planned(c) \in Plans \cup {None}
    <2>1. Plans = RelationPlans \cup UpdatePlans \cup ResetPlans
      BY DEF Plans, RelationPlans, UpdatePlans, ResetPlans
    <2>2. QED
      BY <1>1, <1>2, <1>3, <2>1, CallKinds, PlannedOf
  <1>7. QED
    BY <1>1, <1>2, <1>3, <1>4, <1>5, <1>6

\* Rows stay, and a link stays its user's.
Kept ==
    /\ \A u \in Ids : Exists(u) => Exists(u)'
    /\ \A t \in Tokens : resets[t] # None => resets'[t] # None /\ resets'[t].user = resets[t].user

\* A step of request r alone.
StepOf(r) ==
    \A s \in Requests \ {r} : pc'[s] = pc[s] /\ call'[s] = call[s] /\ plan'[s] = plan[s]

LEMMA StepHeld ==
    ASSUME TypeInv, NEW r \in Requests, TypeOK', Kept, StepOf(r), Held(r)'
    PROVE  TypeInv'
  <1>1. ASSUME NEW s \in Requests \ {r} PROVE Held(s)'
    <2>1. Held(s)
      BY DEF TypeInv
    <2>2. pc[s] \in {"store", "write"} =>
              /\ call[s].op \in {"update", "generate"} => call[s].target \in Ids
              /\ call[s].op \in {"rename", "avatar"} => call[s].by \in Ids
              /\ call[s].op = "confirm" => call[s].token \in Tokens
              /\ call[s].op = "generate" => plan[s].old \subseteq Tokens
      BY <2>1, CallFields DEF Held, ResetPlans
    <2>3. QED
      BY <2>1, <2>2 DEF Held, Kept, StepOf
  <1>2. QED
    BY <1>1 DEF TypeInv

LEMMA EndsStep ==
    ASSUME TypeInv, NEW r \in Requests, Ends(r)
    PROVE  /\ StepOf(r) /\ Held(r)' /\ pc'[r] = "done"
           /\ pc' \in [Requests -> {"idle", "store", "write", "done"}]
           /\ call' \in [Requests -> Calls \cup {None}] /\ plan' \in [Requests -> Plans \cup {None}]
  BY DEF Ends, StepOf, Held, TypeInv, TypeOK

LEMMA BeginType ==
    ASSUME TypeInv, NEW r \in Requests, NEW c \in Calls, Begin(r, c)
    PROVE  TypeInv' /\ StepOf(r) /\ Kept
  <1>1. /\ Planned(c) \in Plans \cup {None}
        /\ pc' = [pc EXCEPT ![r] = IF c.op = "avatar" THEN "store" ELSE "write"]
        /\ call' = [call EXCEPT ![r] = c] /\ plan' = [plan EXCEPT ![r] = Planned(c)]
        /\ UNCHANGED <<tables, files, uses>>
    BY PlanType, CallKinds DEF Begin, TypeInv
  <1>2. TypeOK' /\ StepOf(r)
    BY <1>1 DEF TypeInv, TypeOK, tables, StepOf
  <1>3. Held(r)'
    <2>1. /\ pc'[r] = IF c.op = "avatar" THEN "store" ELSE "write"
          /\ call'[r] = c /\ plan'[r] = Planned(c)
      BY <1>1 DEF TypeInv, TypeOK
    <2>2. Accepted(c)
      BY DEF Begin
    <2>3. QED
      BY <1>1, <2>1, <2>2, PlanType DEF Held, TypeInv, tables, Exists
  <1>4. Kept
    BY <1>1 DEF Kept, tables, Exists
  <1>5. QED
    BY <1>2, <1>3, <1>4, StepHeld

\* The requests that are refused, fail or handle the uploaded file.
LEMMA OtherType ==
    ASSUME TypeInv, NEW r \in Requests,
           (\E c \in Calls : Refuse(r, c)) \/ StoreImage(r) \/ StoreFails(r) \/ Fail(r)
    PROVE  TypeInv' /\ StepOf(r) /\ Kept
  <1>1. UNCHANGED <<tables, call, plan, uses>>
    BY DEF Refuse, StoreImage, StoreFails, Fail, Ends
  <1>2. \E l \in {"write", "done"} :
            pc' = [pc EXCEPT ![r] = l] /\ (l = "write" => StoreImage(r))
    BY DEF Refuse, StoreImage, StoreFails, Fail, Ends
  <1>3. files' \in [Ids -> Images \cup {"part", None}]
    <2>1. CASE StoreImage(r) \/ StoreFails(r)
      <3>1. call[r].by \in Ids
        BY <2>1, CallFields DEF StoreImage, StoreFails, TypeInv, Held
      <3>2. QED
        BY <2>1, <3>1 DEF StoreImage, StoreFails, TypeInv, TypeOK
    <2>2. CASE (\E c \in Calls : Refuse(r, c)) \/ Fail(r)
      BY <2>2 DEF Refuse, Fail, TypeInv, TypeOK
    <2>3. QED
      BY <2>1, <2>2
  <1>4. TypeOK' /\ StepOf(r) /\ Kept
    BY <1>1, <1>2, <1>3 DEF TypeInv, TypeOK, tables, StepOf, Kept, Exists
  <1>5. Held(r)'
    <2>1. Held(r)
      BY DEF TypeInv
    <2>2. QED
      BY <1>1, <1>2, <2>1 DEF Held, StoreImage, tables, Exists, TypeInv, TypeOK
  <1>6. QED
    BY <1>4, <1>5, StepHeld

\* The row an administrator's update leaves.
LEMMA UpdateRow ==
    ASSUME TypeInv, NEW r \in Requests, CommitUpdate(r)
    PROVE  LET u == call[r].target
           IN  /\ call[r] \in Calls /\ call[r].op = "update" /\ plan[r] \in UpdatePlans
               /\ u \in Ids /\ users[u] \in Rows
               /\ users' \in [Ids -> Rows \cup {None}]
               /\ \A v \in Ids \ {u} : users'[v] = users[v]
               /\ users'[u] \in Rows
               /\ users'[u].name = users[u].name /\ users'[u].avatar = users[u].avatar
               /\ users'[u].restricted = IF plan[r].restricted = None THEN users[u].restricted
                                         ELSE plan[r].restricted
               /\ users'[u].admin = IF plan[r].admin = None THEN users[u].admin
                                    ELSE plan[r].admin
  <1> DEFINE u == call[r].target
             a == IF plan[r].restricted = None THEN users[u].restricted ELSE plan[r].restricted
             b == IF plan[r].admin = None THEN users[u].admin ELSE plan[r].admin
  <1>1. /\ call[r] \in Calls /\ call[r].op = "update" /\ plan[r] \in UpdatePlans
        /\ u \in Ids /\ users[u] \in Rows
    <2>1. call[r] \in Calls /\ call[r].op = "update"
      BY CallKinds DEF CommitUpdate, TypeInv, Held
    <2>2. QED
      BY <2>1, CallFields DEF CommitUpdate, TypeInv, TypeOK, Held, Exists
  <1>2. a \in BOOLEAN /\ b \in BOOLEAN
    BY <1>1 DEF UpdatePlans, Flags, Rows
  <1>3. users' = [users EXCEPT ![u].restricted = a, ![u].admin = b]
    BY DEF CommitUpdate
  <1>4. users \in [Ids -> Rows \cup {None}]
    BY DEF TypeInv, TypeOK
  <1> HIDE DEF a, b
  <1>5. /\ users'[u] = [[users[u] EXCEPT !.restricted = a] EXCEPT !.admin = b]
        /\ \A v \in Ids \ {u} : users'[v] = users[v]
        /\ users' = [v \in Ids |-> users'[v]]
    BY <1>1, <1>3, <1>4
  <1>6. /\ users'[u] \in Rows
        /\ users'[u].name = users[u].name /\ users'[u].avatar = users[u].avatar
        /\ users'[u].restricted = a /\ users'[u].admin = b
    <2> DEFINE z == [users[u] EXCEPT !.restricted = a]
    <2>1. z \in Rows /\ z.name = users[u].name /\ z.restricted = a /\ z.avatar = users[u].avatar
      BY <1>1, <1>2 DEF Rows
    <2>2. users'[u] = [z EXCEPT !.admin = b]
      BY <1>5
    <2> HIDE DEF z
    <2>3. QED
      BY <1>2, <2>1, <2>2 DEF Rows
  <1>7. users' \in [Ids -> Rows \cup {None}]
    BY <1>4, <1>5, <1>6
  <1>8. QED
    BY <1>1, <1>5, <1>6, <1>7 DEF a, b
\* What each commit writes, and the request it is of.
LEMMA RelationWrites ==
    ASSUME TypeInv, NEW r \in Requests, CommitRelation(r)
    PROVE  LET p == <<call[r].by, call[r].target>>
           IN  /\ call[r] \in Calls /\ call[r].op \in RelationOps
               /\ call[r].by \in Ids /\ call[r].target \in Ids /\ plan[r] \in RelationPlans
               /\ relations' \in [Ids \X Ids -> Relation \cup {None}]
               /\ relations'[p] = IF plan[r].row = "delete" THEN None ELSE plan[r].to
               /\ \A q \in (Ids \X Ids) \ {p} : relations'[q] = relations[q]
  <1> DEFINE p == <<call[r].by, call[r].target>>
  <1>1. /\ call[r] \in Calls /\ call[r].op \in RelationOps
        /\ call[r].by \in Ids /\ call[r].target \in Ids /\ plan[r] \in RelationPlans
    BY CallKinds, CallFields DEF CommitRelation, TypeInv, Held
  <1>2. p \in Ids \X Ids /\ relations \in [Ids \X Ids -> Relation \cup {None}]
    BY <1>1 DEF TypeInv, TypeOK
  <1>3. /\ (IF plan[r].row = "delete" THEN None ELSE plan[r].to) \in Relation \cup {None}
        /\ relations' = [relations EXCEPT ![p] =
                            IF plan[r].row = "delete" THEN None ELSE plan[r].to]
    BY <1>1 DEF CommitRelation, RelationPlans
  <1> HIDE DEF p
  <1>4. /\ relations' \in [Ids \X Ids -> Relation \cup {None}]
        /\ relations'[p] = IF plan[r].row = "delete" THEN None ELSE plan[r].to
        /\ \A q \in (Ids \X Ids) \ {p} : relations'[q] = relations[q]
    BY <1>2, <1>3
  <1>5. QED
    BY <1>1, <1>4 DEF p

LEMMA GenerateWrites ==
    ASSUME TypeInv, NEW r \in Requests, CommitGenerate(r)
    PROVE  /\ call[r] \in Calls /\ call[r].op = "generate" /\ call[r].target \in Ids
           /\ call[r].token \in Tokens /\ plan[r] \in ResetPlans /\ resets[call[r].token] = None
           /\ resets' \in [Tokens -> Reset \cup {None}]
           /\ resets'[call[r].token].user = call[r].target /\ ~resets'[call[r].token].used
           /\ resets'[call[r].token] # None
           /\ \A t \in Tokens \ ({call[r].token} \cup plan[r].old) : resets'[t] = resets[t]
           /\ \A t \in plan[r].old :
                 /\ resets[t] # None /\ resets[t].user = call[r].target
                 /\ resets'[t] # None /\ resets'[t].user = call[r].target /\ resets'[t].used
  <1>1. /\ call[r] \in Calls /\ call[r].op = "generate" /\ call[r].target \in Ids
        /\ call[r].token \in Tokens /\ plan[r] \in ResetPlans /\ resets[call[r].token] = None
        /\ \A t \in plan[r].old : resets[t] # None /\ resets[t].user = call[r].target
    BY CallFields DEF CommitGenerate, TypeInv, Held
  <1>2. resets \in [Tokens -> Reset \cup {None}] /\ plan[r].old \subseteq Tokens
    BY <1>1 DEF TypeInv, TypeOK, ResetPlans
  <1>3. [user |-> call[r].target, used |-> FALSE] \in Reset
    BY <1>1 DEF Reset
  <1>4. \A t \in Tokens : resets'[t] =
            IF t = call[r].token THEN [user |-> call[r].target, used |-> FALSE]
            ELSE IF t \in plan[r].old THEN [resets[t] EXCEPT !.used = TRUE]
            ELSE resets[t]
    BY DEF CommitGenerate
  <1>5. /\ resets'[call[r].token] = [user |-> call[r].target, used |-> FALSE]
        /\ \A t \in Tokens \ ({call[r].token} \cup plan[r].old) : resets'[t] = resets[t]
    BY <1>1, <1>2, <1>4
  <1>6. ASSUME NEW t \in plan[r].old
        PROVE  /\ resets'[t] \in Reset /\ resets'[t] # None
               /\ resets'[t].user = call[r].target /\ resets'[t].used
    <2> DEFINE row == [resets[t] EXCEPT !.used = TRUE]
    <2>1. resets[t] \in Reset /\ resets[t].user = call[r].target
      BY <1>1, <1>2
    <2>2. row \in Reset /\ row.user = call[r].target /\ row.used
      BY <2>1 DEF Reset
    <2>3. resets'[t] = row
      BY <1>1, <1>2, <1>4
    <2> HIDE DEF row
    <2>4. QED
      BY <2>2, <2>3
  <1>7. resets' \in [Tokens -> Reset \cup {None}]
    <2>1. resets' = [t \in Tokens |-> resets'[t]]
      BY DEF CommitGenerate
    <2>2. \A t \in Tokens : resets'[t] \in Reset \cup {None}
      BY <1>2, <1>3, <1>5, <1>6
    <2>3. QED
      BY <2>1, <2>2
  <1>8. /\ resets'[call[r].token].user = call[r].target /\ ~resets'[call[r].token].used
        /\ resets'[call[r].token] # None
    <2> DEFINE row == resets'[call[r].token]
    <2>1. row = [user |-> call[r].target, used |-> FALSE]
      BY <1>5
    <2>2. row.user = call[r].target /\ ~row.used
      BY <2>1
    <2>3. QED
      BY <1>3, <2>1, <2>2
  <1>9. QED
    BY <1>1, <1>5, <1>6, <1>7, <1>8

LEMMA ConfirmWrites ==
    ASSUME TypeInv, NEW r \in Requests, CommitConfirm(r)
    PROVE  LET t == call[r].token
           IN  /\ call[r] \in Calls /\ call[r].op = "confirm" /\ t \in Tokens
               /\ resets[t] \in Reset
               /\ resets' \in [Tokens -> Reset \cup {None}] /\ uses' \in [Tokens -> Nat]
               /\ resets'[t] \in Reset /\ resets'[t].user = resets[t].user /\ resets'[t].used
               /\ uses'[t] = uses[t] + 1
               /\ \A s \in Tokens \ {t} : resets'[s] = resets[s] /\ uses'[s] = uses[s]
  <1> DEFINE t == call[r].token
  <1>1. call[r] \in Calls /\ call[r].op = "confirm" /\ t \in Tokens /\ resets[t] # None
    BY CallFields DEF CommitConfirm, TypeInv, Held
  <1>2. /\ resets' = [resets EXCEPT ![t].used = TRUE] /\ uses' = [uses EXCEPT ![t] = @ + 1]
        /\ resets \in [Tokens -> Reset \cup {None}] /\ uses \in [Tokens -> Nat]
    BY DEF CommitConfirm, TypeInv, TypeOK
  <1>3. resets[t] \in Reset
    BY <1>1, <1>2
  <1> HIDE DEF t
  <1> DEFINE row == [resets[t] EXCEPT !.used = TRUE]
  <1>4. row \in Reset /\ row.user = resets[t].user /\ row.used
    BY <1>3 DEF Reset
  <1>5. resets' = [resets EXCEPT ![t] = row]
    BY <1>1, <1>2
  <1> HIDE DEF row
  <1>6. /\ resets' \in [Tokens -> Reset \cup {None}] /\ resets'[t] = row
        /\ \A s \in Tokens \ {t} : resets'[s] = resets[s]
    BY <1>1, <1>2, <1>4, <1>5
  <1>7. /\ uses' \in [Tokens -> Nat] /\ uses'[t] = uses[t] + 1
        /\ \A s \in Tokens \ {t} : uses'[s] = uses[s]
    BY <1>1, <1>2
  <1>8. QED
    BY <1>1, <1>3, <1>4, <1>6, <1>7 DEF t

LEMMA RegisterWrites ==
    ASSUME TypeInv, NEW r \in Requests, CommitRegister(r)
    PROVE  LET u == call[r].target
           IN  /\ call[r] \in Calls /\ call[r].op = "register" /\ u \in Ids
               /\ call[r].name \in Names
               /\ users' \in [Ids -> Rows \cup {None}]
               /\ users'[u] \in Rows /\ users'[u].name = call[r].name
               /\ ~users'[u].admin /\ users'[u].avatar = None
               /\ \A v \in Ids \ {u} : users'[v] = users[v]
  <1>1. call[r] \in Calls /\ call[r].op = "register" /\ call[r].target \in Ids
        /\ call[r].name \in Names
    BY CallFields DEF CommitRegister, TypeInv, Held
  <1>2. [name |-> call[r].name, restricted |-> FALSE, admin |-> FALSE, avatar |-> None] \in Rows
    BY <1>1 DEF Rows
  <1>3. QED
    BY <1>1, <1>2 DEF CommitRegister, TypeInv, TypeOK

\* A renaming and a new avatar: columns of one row that is there.
LEMMA ProfileWrites ==
    ASSUME TypeInv, NEW r \in Requests, CommitRename(r) \/ CommitAvatar(r)
    PROVE  LET u == call[r].by
           IN  /\ call[r] \in Calls /\ u \in Ids
               /\ call[r].op = IF CommitRename(r) THEN "rename" ELSE "avatar"
               /\ users[u] \in Rows /\ users' \in [Ids -> Rows \cup {None}]
               /\ users'[u] \in Rows
               /\ users'[u].restricted = users[u].restricted /\ users'[u].admin = users[u].admin
               /\ users'[u].name = IF CommitRename(r) THEN call[r].name ELSE users[u].name
               /\ users'[u].avatar = IF CommitRename(r) THEN users[u].avatar ELSE call[r].image
               /\ \A v \in Ids \ {u} : users'[v] = users[v]
  <1> DEFINE u == call[r].by
  <1>1. /\ call[r] \in Calls /\ u \in Ids /\ users[u] \in Rows
        /\ call[r].op = IF CommitRename(r) THEN "rename" ELSE "avatar"
        /\ IF CommitRename(r) THEN call[r].name \in Names ELSE call[r].image \in Images
    <2>1. call[r] \in Calls /\ call[r].op = IF CommitRename(r) THEN "rename" ELSE "avatar"
      BY CallKinds DEF CommitRename, CommitAvatar, TypeInv, Held
    <2>2. QED
      BY <2>1, CallFields DEF CommitRename, CommitAvatar, TypeInv, TypeOK, Held, Exists
  <1>2. users \in [Ids -> Rows \cup {None}]
    BY DEF TypeInv, TypeOK
  <1> DEFINE row == IF CommitRename(r) THEN [users[u] EXCEPT !.name = call[r].name]
                    ELSE [users[u] EXCEPT !.avatar = call[r].image]
  <1>3. /\ row \in Rows /\ row.restricted = users[u].restricted /\ row.admin = users[u].admin
        /\ row.name = IF CommitRename(r) THEN call[r].name ELSE users[u].name
        /\ row.avatar = IF CommitRename(r) THEN users[u].avatar ELSE call[r].image
    BY <1>1 DEF Rows
  <1>4. users' = [users EXCEPT ![u] = row]
    BY <1>1, <1>2 DEF CommitRename, CommitAvatar
  <1> HIDE DEF row, u
  <1>5. /\ users' \in [Ids -> Rows \cup {None}] /\ users'[u] = row
        /\ \A v \in Ids \ {u} : users'[v] = users[v]
    BY <1>1, <1>2, <1>3, <1>4
  <1>6. QED
    BY <1>1, <1>3, <1>5 DEF u

LEMMA CommitType ==
    ASSUME TypeInv, NEW r \in Requests, Commit(r)
    PROVE  TypeInv' /\ StepOf(r) /\ Kept
  <1>1. Ends(r) /\ UNCHANGED files
    BY DEF Commit, CommitRelation, CommitUpdate, CommitGenerate, CommitConfirm, CommitRegister,
           CommitRename, CommitAvatar
  <1>2. SUFFICES TypeOK' /\ Kept
    BY <1>1, EndsStep, StepHeld
  <1>3. SUFFICES /\ users' \in [Ids -> Rows \cup {None}] /\ statistics' \in SUBSET Ids
                 /\ relations' \in [Ids \X Ids -> Relation \cup {None}]
                 /\ resets' \in [Tokens -> Reset \cup {None}] /\ uses' \in [Tokens -> Nat]
                 /\ Kept
    BY <1>1, EndsStep DEF TypeOK, TypeInv
  <1> USE DEF TypeInv, TypeOK, Kept, Exists
  <1>4. CASE CommitRelation(r)
    BY <1>4, RelationWrites DEF CommitRelation
  <1>5. CASE CommitUpdate(r)
    <2>1. /\ users' \in [Ids -> Rows \cup {None}]
          /\ \A v \in Ids \ {call[r].target} : users'[v] = users[v]
          /\ users'[call[r].target] \in Rows
      BY <1>5, UpdateRow
    <2>2. \A u \in Ids : users[u] # None => users'[u] # None
      BY <2>1
    <2>3. UNCHANGED <<statistics, relations, resets, uses>>
      BY <1>5 DEF CommitUpdate
    <2>4. QED
      BY <2>1, <2>2, <2>3
  <1>6. CASE CommitGenerate(r)
    <2>1. \A t \in Tokens : resets[t] # None => resets'[t] # None /\ resets'[t].user = resets[t].user
      BY <1>6, GenerateWrites
    <2>2. QED
      BY <1>6, <2>1, GenerateWrites DEF CommitGenerate
  <1>7. CASE CommitConfirm(r)
    <2>1. \A t \in Tokens : resets[t] # None => resets'[t] # None /\ resets'[t].user = resets[t].user
      BY <1>7, ConfirmWrites
    <2>2. QED
      BY <1>7, <2>1, ConfirmWrites DEF CommitConfirm
  <1>8. CASE CommitRegister(r)
    <2>1. /\ call[r].target \in Ids /\ users' \in [Ids -> Rows \cup {None}]
          /\ users'[call[r].target] # None
          /\ \A v \in Ids \ {call[r].target} : users'[v] = users[v]
      BY <1>8, RegisterWrites
    <2>2. statistics' \in SUBSET Ids /\ UNCHANGED <<relations, resets, uses>>
      BY <1>8, <2>1 DEF CommitRegister
    <2>3. QED
      BY <2>1, <2>2
  <1>9. CASE CommitRename(r) \/ CommitAvatar(r)
    BY <1>9, ProfileWrites DEF CommitRename, CommitAvatar
  <1>10. QED
    BY <1>4, <1>5, <1>6, <1>7, <1>8, <1>9 DEF Commit

\* A step that is no commit.
Quiet(r) == (\E c \in Calls : Begin(r, c) \/ Refuse(r, c)) \/ StoreImage(r) \/ StoreFails(r) \/ Fail(r)

LEMMA StepType ==
    ASSUME TypeInv, NEW r \in Requests, Quiet(r) \/ Commit(r)
    PROVE  TypeInv' /\ StepOf(r) /\ Kept
  BY BeginType, OtherType, CommitType DEF Quiet

LEMMA NextStep == Next <=> \E r \in Requests : Quiet(r) \/ Commit(r)
  BY DEF Next, Quiet

LEMMA NextType == TypeInv /\ [Next]_vars => TypeInv'
  <1> SUFFICES ASSUME TypeInv, [Next]_vars PROVE TypeInv'
    OBVIOUS
  <1>1. CASE UNCHANGED vars
    BY <1>1 DEF vars, tables, TypeInv, TypeOK, Held, Exists
  <1>2. QED
    BY <1>1, StepType, NextStep

\* Every variable keeps its type; what an open request is going to write is a
\* plan for its call, and rows it is about do not go away under it.
THEOREM TypeCorrect == Spec => []TypeOK
  <1>1. TypeInv => TypeOK
    BY DEF TypeInv
  <1>2. QED
    BY <1>1, InitType, NextType, PTL DEF Spec

-----------------------------------------------------------------------------
(* Friend or foe, for overlapping requests too.                            *)

Either(x) == x.friend # x.foe

\* What is planned for a relation is one or the other.
FoeInv ==
    /\ FriendOrFoe
    /\ \A r \in Requests :
          pc[r] = "write" /\ call[r].op \in RelationOps /\ plan[r].row # "delete" =>
              Either(plan[r].to)

LEMMA PlanEither ==
    ASSUME TypeInv, FriendOrFoe, NEW c \in Calls, c.op \in RelationOps, Accepted(c),
           Planned(c).row # "delete"
    PROVE  Either(Planned(c).to)
  <1> DEFINE row == relations[<<c.by, c.target>>]
  <1>1. <<c.by, c.target>> \in Ids \X Ids /\ MayRelate(c) /\ Planned(c) = PlanRelation(c)
    BY CallFields, CallKinds, PlannedOf DEF Accepted, RelationOps
  <1>2. CASE c.op \in {"addFriend", "addBlock"}
    <2>1. Either(Turned(c))
      BY <1>2 DEF Either, Turned
    <2>2. PlanRelation(c).to = Turned(c)
      BY <1>2 DEF PlanRelation
    <2>3. QED
      BY <1>1, <2>1, <2>2
  <1>3. CASE c.op \in {"removeFriend", "removeBlock"}
    <2>1. c.target \in Friends(c.by) \/ c.target \in Foes(c.by)
      BY <1>1, <1>3 DEF MayRelate
    <2>2. row # None /\ ~(row.friend /\ row.foe)
      BY <1>1, <2>1 DEF Friends, Foes, FriendOrFoe
    <2>3. PlanRelation(c).row = "delete"
      BY <1>3, <2>2 DEF PlanRelation
    <2>4. QED
      BY <1>1, <2>3
  <1>4. QED
    BY <1>2, <1>3 DEF RelationOps

LEMMA FoeNext == TypeInv /\ FoeInv /\ [Next]_vars => FoeInv'
  <1> SUFFICES ASSUME TypeInv, FoeInv, [Next]_vars PROVE FoeInv'
    OBVIOUS
  <1>1. CASE UNCHANGED vars
    BY <1>1 DEF vars, tables, FoeInv, FriendOrFoe
  <1>2. ASSUME NEW r \in Requests, Quiet(r) \/ Commit(r)
        PROVE  FoeInv'
    <2>1. StepOf(r)
      BY <1>2, StepType
    <2>2. FriendOrFoe'
      <3>1. CASE CommitRelation(r)
        <4>1. plan[r].row # "delete" => Either(plan[r].to)
          BY <3>1, RelationWrites DEF CommitRelation, FoeInv
        <4>2. ASSUME NEW p \in Ids \X Ids, relations'[p] # None PROVE Either(relations'[p])
          <5>1. CASE p = <<call[r].by, call[r].target>>
            <6>1. plan[r].row # "delete" /\ relations'[p] = plan[r].to
              BY <3>1, <4>2, <5>1, RelationWrites
            <6>2. QED
              BY <4>1, <6>1
          <5>2. CASE p # <<call[r].by, call[r].target>>
            BY <3>1, <4>2, <5>2, RelationWrites DEF FoeInv, FriendOrFoe, Either
          <5>3. QED
            BY <5>1, <5>2
        <4>3. QED
          BY <4>2 DEF FriendOrFoe, Either
      <3>2. CASE UNCHANGED relations
        BY <3>2 DEF FoeInv, FriendOrFoe
      <3>3. QED
        BY <1>2, <3>1, <3>2
           DEF Quiet, Begin, Refuse, StoreImage, StoreFails, Fail, tables, Commit, CommitUpdate,
               CommitGenerate, CommitConfirm, CommitRegister, CommitRename, CommitAvatar
    <2>3. ASSUME pc'[r] = "write", call'[r].op \in RelationOps, plan'[r].row # "delete"
          PROVE  Either(plan'[r].to)
      <3>1. CASE \E c \in Calls : Begin(r, c)
        <4>1. PICK c \in Calls : Begin(r, c)
          BY <3>1
        <4>2. Accepted(c) /\ call'[r] = c /\ plan'[r] = Planned(c)
          BY <4>1 DEF Begin, TypeInv, TypeOK
        <4>3. QED
          BY <2>3, <4>2, PlanEither DEF FoeInv
      <3>2. CASE StoreImage(r)
        BY <2>3, <3>2 DEF StoreImage, TypeInv, Held, RelationOps
      <3>3. CASE pc'[r] = "done"
        BY <2>3, <3>3
      <3>4. QED
        BY <1>2, <3>1, <3>2, <3>3, EndsStep
           DEF Quiet, Refuse, StoreFails, Fail, TypeInv, TypeOK, Commit, CommitRelation, CommitUpdate,
               CommitGenerate, CommitConfirm, CommitRegister, CommitRename, CommitAvatar
    <2>4. QED
      BY <2>1, <2>2, <2>3 DEF FoeInv, StepOf
  <1>3. QED
    BY <1>1, <1>2, NextStep

\* No user is both friend and foe of another, nor does a row stay that is
\* neither, however requests on one relation interleave.
THEOREM FriendOrFoeCorrect == Spec => []FriendOrFoe
  <1>1. Init => FoeInv
    BY DEF Init, FoeInv, FriendOrFoe
  <1>2. FoeInv => FriendOrFoe
    BY DEF FoeInv
  <1>3. QED
    BY <1>1, <1>2, InitType, NextType, FoeNext, PTL DEF Spec

-----------------------------------------------------------------------------
(* Accounts are complete, for overlapping requests too.                    *)

LEMMA CompleteNext == TypeInv /\ AccountsComplete /\ [Next]_vars => AccountsComplete'
  <1> SUFFICES ASSUME TypeInv, AccountsComplete, [Next]_vars PROVE AccountsComplete'
    OBVIOUS
  <1>1. CASE UNCHANGED vars
    BY <1>1 DEF vars, tables, AccountsComplete, Exists
  <1>2. ASSUME NEW r \in Requests, Quiet(r) \/ Commit(r)
        PROVE  AccountsComplete'
    <2>1. CASE UNCHANGED <<users, statistics>>
      BY <2>1 DEF AccountsComplete, Exists
    <2>2. CASE CommitRegister(r)
      <3> DEFINE u == call[r].target
      <3>1. /\ u \in Ids /\ users'[u] # None /\ users'[u].name = call[r].name
            /\ \A v \in Ids \ {u} : users'[v] = users[v]
            /\ ~Exists(u) /\ statistics' = statistics \cup {u}
            /\ \A v \in Ids \ {u} : Exists(v) => users[v].name # call[r].name
        BY <2>2, RegisterWrites DEF CommitRegister, TakenByOther
      <3> HIDE DEF u
      <3>2. QED
        BY <3>1 DEF AccountsComplete, Exists
    <2>3. CASE CommitRename(r)
      <3> DEFINE u == call[r].by
      <3>1. /\ u \in Ids /\ users[u] # None /\ users'[u] # None /\ users'[u].name = call[r].name
            /\ \A v \in Ids \ {u} : users'[v] = users[v]
            /\ statistics' = statistics
            /\ \A v \in Ids \ {u} : Exists(v) => users[v].name # call[r].name
        <4>1. /\ u \in Ids /\ users[u] # None /\ users'[u] # None
              /\ \A v \in Ids \ {u} : users'[v] = users[v]
          BY <2>3, ProfileWrites
        <4>2. users'[u].name = call[r].name
          BY <2>3, ProfileWrites
        <4>3. QED
          BY <2>3, <4>1, <4>2 DEF CommitRename, TakenByOther
      <3> HIDE DEF u
      <3>2. QED
        BY <3>1 DEF AccountsComplete, Exists
    <2>4. CASE CommitUpdate(r) \/ CommitAvatar(r)
      <3>1. PICK u \in Ids : /\ users[u] # None /\ users'[u] # None
                             /\ users'[u].name = users[u].name
                             /\ \A v \in Ids \ {u} : users'[v] = users[v]
        <4>1. CASE CommitUpdate(r)
          BY <4>1, UpdateRow
        <4>2. CASE CommitAvatar(r)
          <5>1. ~CommitRename(r)
            BY <4>2, CallKinds DEF CommitAvatar, CommitRename, TypeInv, Held
          <5>2. QED
            BY <4>2, <5>1, ProfileWrites
        <4>3. QED
          BY <2>4, <4>1, <4>2
      <3>2. statistics' = statistics
        BY <2>4 DEF CommitUpdate, CommitAvatar
      <3>3. QED
        BY <3>1, <3>2 DEF AccountsComplete, Exists
    <2>5. QED
      BY <1>2, <2>1, <2>2, <2>3, <2>4
         DEF Quiet, Begin, Refuse, StoreImage, StoreFails, Fail, tables, Commit, CommitRelation,
             CommitGenerate, CommitConfirm
  <1>3. QED
    BY <1>1, <1>2, NextStep

\* However registrations and renamings race, an account has its statistics
\* and a name no other has.
THEOREM AccountsCompleteCorrect == Spec => []AccountsComplete
  <1>1. Init => AccountsComplete
    <2> SUFFICES ASSUME Init PROVE AccountsComplete
      OBVIOUS
    <2>1. \A u \in Ids : Exists(u) <=> u \in Members
      <3>1. \A u \in Members : [name |-> NameOf[u], restricted |-> FALSE, admin |-> u \in Admins,
                              avatar |-> None] \in Rows
        BY DEF Rows
      <3>2. QED
        BY <3>1 DEF Init, Exists
    <2>2. \A u \in Members : users[u].name = NameOf[u]
      BY DEF Init
    <2>3. QED
      BY <2>1, <2>2 DEF AccountsComplete, Init
  <1>2. QED
    BY <1>1, InitType, NextType, CompleteNext, PTL DEF Spec

-----------------------------------------------------------------------------
(* Requests that ran alone.                                                *)

IsOpen(r) == pc[r] \in {"store", "write"}

\* On a topic whose requests did not overlap, one is open at most.
AloneInv ==
    \A q, r \in Requests :
        IsOpen(q) /\ IsOpen(r) /\ Topic(call[q]) = Topic(call[r])
          /\ Topic(call[r]) \notin disturbed => q = r

\* An open request stays on its topic, and a topic once shared is not alone.
LEMMA TopicStays ==
    ASSUME TypeInv, NEW r \in Requests, Quiet(r) \/ Commit(r)
    PROVE  /\ disturbed \subseteq disturbed'
           /\ \A s \in Requests : IsOpen(s) /\ IsOpen(s)' => Topic(call[s])' = Topic(call[s])
  <1>1. disturbed \subseteq disturbed'
    BY DEF Quiet, Begin, Refuse, StoreImage, StoreFails, Fail, Commit, CommitRelation, CommitUpdate,
           CommitGenerate, CommitConfirm, CommitRegister, CommitRename, CommitAvatar
  <1>2. ASSUME NEW s \in Requests, IsOpen(s), IsOpen(s)'
        PROVE  Topic(call[s])' = Topic(call[s])
    <2>1. call[s] \in Calls /\ call'[s] = call[s]
      <3>1. CASE s = r
        BY <1>2, <3>1, EndsStep
           DEF IsOpen, TypeInv, TypeOK, Held, Quiet, Begin, Refuse, StoreImage, StoreFails, Fail,
               Commit, CommitRelation, CommitUpdate, CommitGenerate, CommitConfirm,
               CommitRegister, CommitRename, CommitAvatar
      <3>2. CASE s # r
        BY <1>2, <3>2, StepType DEF StepOf, IsOpen, TypeInv, Held
      <3>3. QED
        BY <3>1, <3>2
    <2>2. CASE call[s].op = "confirm"
      <3>1. call[s].token \in Tokens /\ resets[call[s].token] # None
        BY <1>2, <2>1, <2>2, CallFields DEF IsOpen, TypeInv, Held
      <3>2. resets'[call[s].token].user = resets[call[s].token].user
        BY <3>1, StepType DEF Kept
      <3>3. Topic(call[s]) = <<"resets", resets[call[s].token].user>>
        BY <2>1, <2>2, TopicOf
      <3>4. Topic(call[s])' = <<"resets", resets'[call[s].token].user>>
        BY <2>1, <2>2, CallKinds DEF Topic, RelationOps
      <3>5. QED
        BY <3>2, <3>3, <3>4
    <2>3. CASE call[s].op # "confirm"
      BY <2>1, <2>3, CallKinds DEF Topic, RelationOps
    <2>4. QED
      BY <2>2, <2>3
  <1>3. QED
    BY <1>1, <1>2

LEMMA AloneNext == TypeInv /\ AloneInv /\ [Next]_vars => AloneInv'
  <1> SUFFICES ASSUME TypeInv, AloneInv, [Next]_vars PROVE AloneInv'
    OBVIOUS
  <1>1. CASE UNCHANGED vars
    <2>1. \A r \in Requests : Topic(call[r])' = Topic(call[r]) /\ IsOpen(r)' = IsOpen(r)
      BY <1>1 DEF vars, tables, Topic, IsOpen
    <2>2. QED
      BY <1>1, <2>1 DEF vars, AloneInv
  <1>2. ASSUME NEW r \in Requests, Quiet(r) \/ Commit(r)
        PROVE  AloneInv'
    <2>1. StepOf(r)
      BY <1>2, StepType
    <2>2. CASE \E c \in Calls : Begin(r, c)
      <3>1. PICK c \in Calls : Begin(r, c)
        BY <2>2
      <3>2. call'[r] = c /\ ~IsOpen(r) /\ Topic(c)' = Topic(c)
        BY <3>1 DEF Begin, IsOpen, TypeInv, TypeOK, tables, Topic
      <3>3. ASSUME NEW q \in Requests \ {r}, IsOpen(q)', Topic(call[q])' = Topic(c)',
                   Topic(c)' \notin disturbed'
            PROVE  FALSE
        <4>1. IsOpen(q) /\ Topic(call[q])' = Topic(call[q])
          BY <2>1, <3>3, <1>2, TopicStays DEF StepOf, IsOpen
        <4>2. QED
          BY <3>1, <3>2, <3>3, <4>1 DEF Begin, OpenRequests, IsOpen
      <3>4. ASSUME NEW p \in Requests \ {r}, NEW q \in Requests \ {r}, IsOpen(p)', IsOpen(q)',
                   Topic(call[p])' = Topic(call[q])', Topic(call[q])' \notin disturbed'
            PROVE  p = q
        <4>1. IsOpen(p) /\ IsOpen(q)
          BY <2>1, <3>4 DEF StepOf, IsOpen
        <4>2. QED
          BY <1>2, <3>4, <4>1, TopicStays DEF AloneInv
      <3>5. QED
        BY <3>2, <3>3, <3>4 DEF AloneInv
    <2>3. CASE ~\E c \in Calls : Begin(r, c)
      <3>1. IsOpen(r)' => IsOpen(r)
        BY <1>2, <2>3, EndsStep
           DEF IsOpen, Quiet, Refuse, StoreImage, StoreFails, Fail, TypeInv, TypeOK,
               Commit, CommitRelation, CommitUpdate, CommitGenerate, CommitConfirm,
               CommitRegister, CommitRename, CommitAvatar
      <3>2. \A s \in Requests : IsOpen(s)' => IsOpen(s)
        BY <2>1, <3>1 DEF StepOf, IsOpen
      <3>3. QED
        BY <1>2, <3>2, TopicStays DEF AloneInv
    <2>4. QED
      BY <2>2, <2>3
  <1>3. QED
    BY <1>1, <1>2, NextStep

-----------------------------------------------------------------------------
(* Such a request finds, when it commits, what it was planned on.          *)

RelationStill(r) ==
    call[r].op \in RelationOps => MayRelate(call[r]) /\ plan[r] = PlanRelation(call[r])
UpdateStill(r) ==
    call[r].op = "update" => MayUpdate(call[r]) /\ plan[r] = PlanUpdate(call[r])
LinkStill(r) ==
    /\ call[r].op = "generate" => plan[r] = PlanReset(call[r])
    /\ call[r].op = "confirm" => Valid(call[r].token)

Pending(r) == pc[r] = "write" /\ Topic(call[r]) \notin disturbed

StillInv ==
    \A r \in Requests : Pending(r) => RelationStill(r) /\ UpdateStill(r) /\ LinkStill(r)

\* Two requests on different topics, of which r takes a step.
Apart(r, s) ==
    /\ r \in Requests /\ s \in Requests /\ r # s
    /\ Quiet(r) \/ (Commit(r) /\ Topic(call[r]) # Topic(call[s]))
    /\ pc[s] = "write" /\ call'[s] = call[s] /\ plan'[s] = plan[s]

\* The relations of other users.
LEMMA RelationsApart ==
    ASSUME TypeInv, NEW r \in Requests, NEW u \in Ids,
           Quiet(r) \/ (Commit(r) /\ (CommitRelation(r) => call[r].by # u))
    PROVE  /\ \A v \in Ids : relations'[<<u, v>>] = relations[<<u, v>>]
           /\ Friends(u)' = Friends(u) /\ Foes(u)' = Foes(u)
  <1>1. \A v \in Ids : relations'[<<u, v>>] = relations[<<u, v>>]
    <2>1. CASE CommitRelation(r) /\ call[r].by # u
      <3>1. \A v \in Ids : <<u, v>> \in (Ids \X Ids) \ {<<call[r].by, call[r].target>>}
        BY <2>1
      <3>2. QED
        BY <2>1, <3>1, RelationWrites
    <2>2. CASE UNCHANGED relations
      BY <2>2
    <2>3. QED
      BY <2>1, <2>2
         DEF Quiet, Begin, Refuse, StoreImage, StoreFails, Fail, tables, Commit, CommitUpdate,
             CommitGenerate, CommitConfirm, CommitRegister, CommitRename, CommitAvatar
  <1>2. QED
    BY <1>1 DEF Friends, Foes

LEMMA RelationStays ==
    ASSUME TypeInv, NEW r, NEW s, Apart(r, s), RelationStill(s)
    PROVE  RelationStill(s)'
  <1> SUFFICES ASSUME call[s].op \in RelationOps
               PROVE  MayRelate(call[s])' /\ plan[s] = PlanRelation(call[s])'
    BY DEF RelationStill, Apart
  <1> DEFINE c == call[s]
  <1>1. /\ c \in Calls /\ c.by \in Ids /\ c.target \in Ids /\ c' = c
        /\ MayRelate(c) /\ plan[s] = PlanRelation(c)
    BY CallFields DEF Apart, TypeInv, Held, RelationStill
  <1>2. Quiet(r) \/ (Commit(r) /\ (CommitRelation(r) => call[r].by # c.by))
    <2>1. SUFFICES ASSUME Topic(call[r]) # Topic(c), CommitRelation(r) PROVE call[r].by # c.by
      BY DEF Apart
    <2>2. call[r] \in Calls /\ call[r].op \in RelationOps
      BY <2>1, RelationWrites DEF Apart
    <2>3. QED
      BY <1>1, <2>1, <2>2, TopicOf
  <1>3. /\ relations'[<<c.by, c.target>>] = relations[<<c.by, c.target>>]
        /\ Friends(c.by)' = Friends(c.by) /\ Foes(c.by)' = Foes(c.by)
    BY <1>1, <1>2, RelationsApart DEF Apart
  <1>4. Exists(c.target) => Exists(c.target)'
    BY <1>1, StepType DEF Apart, Kept
  <1>5. MayRelate(c)'
    BY <1>1, <1>3, <1>4 DEF MayRelate, RelationOps
  <1>6. PlanRelation(c)' = PlanRelation(c)
    BY <1>1, <1>3 DEF PlanRelation, Turned
  <1>7. QED
    BY <1>1, <1>5, <1>6

\* Who is an administrator changes by administrators' updates only.
LEMMA FlagsStay ==
    ASSUME TypeInv, NEW r \in Requests, Quiet(r) \/ (Commit(r) /\ ~CommitUpdate(r)),
           NEW u \in Ids, Exists(u)
    PROVE  /\ Exists(u)' /\ users'[u].restricted = users[u].restricted
           /\ users'[u].admin = users[u].admin
  <1>1. Exists(u)'
    BY StepType DEF Kept
  <1>2. CASE UNCHANGED users
    BY <1>1, <1>2
  <1>3. CASE CommitRegister(r)
    BY <1>1, <1>3, RegisterWrites DEF CommitRegister, Exists
  <1>4. CASE CommitRename(r) \/ CommitAvatar(r)
    BY <1>1, <1>4, ProfileWrites
  <1>5. QED
    BY <1>2, <1>3, <1>4
       DEF Quiet, Begin, Refuse, StoreImage, StoreFails, Fail, tables, Commit, CommitRelation,
           CommitGenerate, CommitConfirm

LEMMA UpdateStays ==
    ASSUME TypeInv, NEW r, NEW s, Apart(r, s), UpdateStill(s)
    PROVE  UpdateStill(s)'
  <1> SUFFICES ASSUME call[s].op = "update"
               PROVE  MayUpdate(call[s])' /\ plan[s] = PlanUpdate(call[s])'
    BY DEF UpdateStill, Apart
  <1> DEFINE c == call[s]
  <1>1. /\ c \in Calls /\ c.by \in Ids /\ c.target \in Ids /\ c' = c
        /\ MayUpdate(c) /\ plan[s] = PlanUpdate(c)
    BY CallFields DEF Apart, TypeInv, Held, UpdateStill
  <1>2. Quiet(r) \/ (Commit(r) /\ ~CommitUpdate(r))
    <2>1. SUFFICES ASSUME Topic(call[r]) # Topic(c), CommitUpdate(r) PROVE FALSE
      BY DEF Apart
    <2>2. call[r] \in Calls /\ call[r].op = "update"
      BY <2>1, UpdateRow DEF Apart
    <2>3. QED
      BY <1>1, <2>1, <2>2, TopicOf
  <1>3. ASSUME NEW u \in {c.by, c.target}
        PROVE  /\ Exists(u) /\ Exists(u)'
               /\ users'[u].restricted = users[u].restricted /\ users'[u].admin = users[u].admin
    BY <1>1, <1>2, FlagsStay DEF Apart, MayUpdate, Administrator, Authenticated
  <1>4. MayUpdate(c)'
    BY <1>1, <1>3 DEF MayUpdate, Administrator, Authenticated
  <1>5. PlanUpdate(c)' = PlanUpdate(c)
    BY <1>1, <1>3 DEF PlanUpdate, Changed
  <1>6. QED
    BY <1>1, <1>4, <1>5

\* The links of other users.
OfUser(t, u) == resets[t] # None /\ resets[t].user = u

LEMMA LinksApart ==
    ASSUME TypeInv, NEW r \in Requests, NEW u \in Ids,
           Quiet(r) \/ (Commit(r) /\ Topic(call[r]) # <<"resets", u>>),
           NEW t \in Tokens, OfUser(t, u) \/ OfUser(t, u)'
    PROVE  resets'[t] = resets[t] /\ uses'[t] = uses[t]
  <1>1. CASE UNCHANGED <<resets, uses>>
    BY <1>1
  <1>2. CASE CommitGenerate(r) /\ Topic(call[r]) # <<"resets", u>>
    <2>1. call[r].target # u /\ UNCHANGED uses
      BY <1>2, GenerateWrites, TopicOf DEF CommitGenerate
    <2>2. t # call[r].token /\ t \notin plan[r].old
      BY <1>2, <2>1, GenerateWrites DEF OfUser
    <2>3. QED
      BY <1>2, <2>1, <2>2, GenerateWrites
  <1>3. CASE CommitConfirm(r) /\ Topic(call[r]) # <<"resets", u>>
    <2>1. resets[call[r].token].user # u
      BY <1>3, ConfirmWrites, TopicOf
    <2>2. t # call[r].token
      BY <1>3, <2>1, ConfirmWrites DEF OfUser
    <2>3. QED
      BY <1>3, <2>2, ConfirmWrites
  <1>4. QED
    BY <1>1, <1>2, <1>3
       DEF Quiet, Begin, Refuse, StoreImage, StoreFails, Fail, tables, Commit, CommitRelation,
           CommitUpdate, CommitRegister, CommitRename, CommitAvatar

LEMMA LinkStays ==
    ASSUME TypeInv, NEW r, NEW s, Apart(r, s), LinkStill(s)
    PROVE  LinkStill(s)'
  <1> DEFINE c == call[s]
  <1>1. c \in Calls /\ c' = c /\ r \in Requests /\ s \in Requests
    BY DEF Apart, TypeInv, Held
  <1>2. ASSUME c.op = "generate"
        PROVE  plan'[s] = PlanReset(c)'
    <2>1. c.target \in Ids /\ Topic(c) = <<"resets", c.target>>
      BY <1>1, <1>2, CallFields, TopicOf
    <2>2. \A t \in Tokens : OfUser(t, c.target) \/ OfUser(t, c.target)' => resets'[t] = resets[t]
      BY <1>1, <2>1, LinksApart DEF Apart
    <2>3. PlanReset(c)' = PlanReset(c)
      BY <1>1, <2>2 DEF PlanReset, OfUser
    <2>4. QED
      BY <1>2, <2>3 DEF Apart, LinkStill
  <1>3. ASSUME c.op = "confirm"
        PROVE  Valid(c.token)'
    <2>1. PICK u \in Ids : /\ c.token \in Tokens /\ OfUser(c.token, u) /\ Exists(u)
                           /\ ~resets[c.token].used /\ Topic(c) = <<"resets", u>>
      BY <1>1, <1>3, CallFields, TopicOf DEF Apart, LinkStill, Valid, OfUser, TypeInv, TypeOK, Reset
    <2>2. resets'[c.token] = resets[c.token]
      BY <1>1, <2>1, LinksApart DEF Apart
    <2>3. Exists(u)'
      BY <1>1, <2>1, StepType DEF Apart, Kept
    <2>4. QED
      BY <1>1, <2>1, <2>2, <2>3 DEF Valid, OfUser, Exists
  <1>4. QED
    BY <1>1, <1>2, <1>3 DEF LinkStill

\* A request that begins is accepted on what it is planned on.
LEMMA BeginStill ==
    ASSUME TypeInv, NEW r \in Requests, NEW c \in Calls, Begin(r, c)
    PROVE  RelationStill(r)' /\ UpdateStill(r)' /\ LinkStill(r)'
  <1>1. /\ call'[r] = c /\ plan'[r] = Planned(c) /\ Accepted(c)
        /\ UNCHANGED <<users, relations, resets>>
    BY DEF Begin, tables, TypeInv, TypeOK
  <1>2. /\ c.op \in RelationOps => MayRelate(c) /\ Planned(c) = PlanRelation(c)
        /\ c.op = "update" => MayUpdate(c) /\ Planned(c) = PlanUpdate(c)
        /\ c.op = "generate" => Planned(c) = PlanReset(c)
        /\ c.op = "confirm" => Valid(c.token)
    BY <1>1, CallKinds, PlannedOf DEF Accepted, RelationOps
  <1>3. RelationStill(r)'
    <2>1. MayRelate(c)' = MayRelate(c) /\ PlanRelation(c)' = PlanRelation(c)
      BY <1>1 DEF MayRelate, Friends, Foes, Exists, PlanRelation, Turned
    <2>2. QED
      BY <1>1, <1>2, <2>1 DEF RelationStill
  <1>4. UpdateStill(r)'
    <2>1. MayUpdate(c)' = MayUpdate(c) /\ PlanUpdate(c)' = PlanUpdate(c)
      BY <1>1 DEF MayUpdate, Administrator, Authenticated, Exists, PlanUpdate, Changed
    <2>2. QED
      BY <1>1, <1>2, <2>1 DEF UpdateStill
  <1>5. LinkStill(r)'
    <2>1. Valid(c.token)' = Valid(c.token) /\ PlanReset(c)' = PlanReset(c)
      BY <1>1 DEF Valid, Exists, PlanReset
    <2>2. QED
      BY <1>1, <1>2, <2>1 DEF LinkStill
  <1>6. QED
    BY <1>3, <1>4, <1>5

LEMMA StillNext == TypeInv /\ AloneInv /\ StillInv /\ [Next]_vars => StillInv'
  <1> SUFFICES ASSUME TypeInv, AloneInv, StillInv, [Next]_vars PROVE StillInv'
    OBVIOUS
  <1>1. ASSUME NEW r \in Requests, Quiet(r) \/ Commit(r), NEW s \in Requests, Pending(s)'
        PROVE  RelationStill(s)' /\ UpdateStill(s)' /\ LinkStill(s)'
    <2>1. CASE s # r
      <3>1. pc[s] = "write" /\ call'[s] = call[s] /\ plan'[s] = plan[s] /\ pc'[s] = "write"
        BY <1>1, <2>1, StepType DEF StepOf, Pending
      <3>2. Topic(call[s])' = Topic(call[s]) /\ Pending(s)
        BY <1>1, <3>1, TopicStays DEF IsOpen, Pending
      <3>3. Commit(r) => pc[r] = "write"
        BY DEF Commit, CommitRelation, CommitUpdate, CommitGenerate, CommitConfirm, CommitRegister,
               CommitRename, CommitAvatar
      <3>4. Apart(r, s)
        BY <1>1, <2>1, <3>1, <3>2, <3>3 DEF Apart, AloneInv, IsOpen, Pending
      <3>5. QED
        BY <3>2, <3>4, RelationStays, UpdateStays, LinkStays DEF StillInv
    <2>2. CASE s = r
      <3>1. CASE \E c \in Calls : Begin(r, c)
        BY <2>2, <3>1, BeginStill
      <3>2. CASE StoreImage(r)
        <4>1. call'[r] = call[r] /\ call[r].op = "avatar"
          BY <3>2 DEF StoreImage, TypeInv, Held
        <4>2. QED
          BY <2>2, <4>1 DEF RelationStill, RelationOps, UpdateStill, LinkStill
      <3>3. CASE pc'[r] = "done"
        BY <1>1, <2>2, <3>3 DEF Pending
      <3>4. QED
        BY <1>1, <3>1, <3>2, <3>3, EndsStep
           DEF Quiet, Refuse, StoreFails, Fail, TypeInv, TypeOK, Commit, CommitRelation, CommitUpdate,
               CommitGenerate, CommitConfirm, CommitRegister, CommitRename, CommitAvatar
    <2>3. QED
      BY <2>1, <2>2
  <1>2. CASE UNCHANGED vars
    <2>1. ASSUME NEW r \in Requests, Pending(r)'
          PROVE  RelationStill(r)' /\ UpdateStill(r)' /\ LinkStill(r)'
      <3>1. UNCHANGED <<users, relations, resets, pc, call, plan, disturbed>>
        BY <1>2 DEF vars, tables
      <3>2. Pending(r)
        <4>1. Topic(call[r])' = Topic(call[r])
          BY <3>1 DEF Topic
        <4>2. QED
          BY <2>1, <3>1, <4>1 DEF Pending
      <3>3. RelationStill(r) /\ UpdateStill(r) /\ LinkStill(r)
        BY <3>2 DEF StillInv
      <3>4. RelationStill(r)'
        BY <3>1, <3>3 DEF RelationStill, MayRelate, PlanRelation, Turned, Friends, Foes, Exists
      <3>5. UpdateStill(r)'
        BY <3>1, <3>3 DEF UpdateStill, MayUpdate, PlanUpdate, Administrator, Authenticated, Exists,
                          Changed
      <3>6. LinkStill(r)'
        BY <3>1, <3>3 DEF LinkStill, PlanReset, Valid, Exists
      <3>7. QED
        BY <3>4, <3>5, <3>6
    <2>2. QED
      BY <2>1 DEF StillInv
  <1>3. QED
    BY <1>1, <1>2, NextStep DEF StillInv

LEMMA InitStill == Init => AloneInv /\ StillInv /\ FoeInv
  BY DEF Init, AloneInv, IsOpen, StillInv, Pending, FoeInv, FriendOrFoe

SoundInv == TypeInv /\ FoeInv /\ AloneInv /\ StillInv

LEMMA SoundAlways == Spec => []SoundInv
  <1>1. Init => SoundInv
    BY InitType, InitStill DEF SoundInv
  <1>2. SoundInv /\ [Next]_vars => SoundInv'
    BY NextType, FoeNext, AloneNext, StillNext DEF SoundInv
  <1>3. QED
    BY <1>1, <1>2, PTL DEF Spec

-----------------------------------------------------------------------------
(* An administrator remains.                                               *)

\* Whoever updates a row alone is still an administrator afterwards.
LEMMA UpdaterRemains ==
    ASSUME SoundInv, NEW r \in Requests, CommitUpdate(r), <<"admins", None>> \notin disturbed
    PROVE  Administrator(call[r].by)'
  <1> DEFINE c == call[r]
             u == call[r].by
  <1>1. /\ c \in Calls /\ c.op = "update" /\ u \in Ids /\ pc[r] = "write"
        /\ c.restricted \in Flags /\ c.admin \in Flags
    BY UpdateRow, CallFields DEF CommitUpdate, SoundInv
  <1>2. MayUpdate(c) /\ plan[r] = PlanUpdate(c)
    BY <1>1, TopicOf DEF SoundInv, StillInv, Pending, UpdateStill
  <1>3. users[u] # None /\ users[u].restricted = FALSE /\ users[u].admin = TRUE /\ u \notin Bots
    <2>1. users[u] \in Rows
      BY <1>1, <1>2 DEF MayUpdate, Administrator, Authenticated, Exists, SoundInv, TypeInv, TypeOK
    <2>2. users[u].restricted \in BOOLEAN /\ users[u].admin \in BOOLEAN
      BY <2>1 DEF Rows
    <2>3. ~users[u].restricted /\ users[u].admin
      BY <1>2 DEF MayUpdate, Administrator, Authenticated
    <2>4. QED
      BY <1>2, <2>1, <2>2, <2>3 DEF MayUpdate, Administrator, Authenticated
  <1>4. /\ users'[u] # None /\ users'[u].restricted = FALSE /\ users'[u].admin = TRUE
    <2>1. CASE c.target # u
      BY <1>1, <1>3, <2>1, UpdateRow DEF SoundInv
    <2>2. CASE c.target = u
      <3>1. c.restricted \in {None, FALSE} /\ c.admin \in {None, TRUE}
        BY <1>1, <1>2, <2>2 DEF MayUpdate, Flags
      <3>2. plan[r].restricted \in {None, FALSE} /\ plan[r].admin \in {None, TRUE}
        <4>1. /\ plan[r].restricted = Changed(c.restricted, users[c.target].restricted)
              /\ plan[r].admin \in {c.admin, Changed(c.admin, users[c.target].admin)}
          BY <1>2 DEF PlanUpdate
        <4>2. QED
          BY <3>1, <4>1 DEF Changed
      <3>3. /\ users'[u] \in Rows
            /\ users'[u].restricted = IF plan[r].restricted = None THEN users[u].restricted
                                      ELSE plan[r].restricted
            /\ users'[u].admin = IF plan[r].admin = None THEN users[u].admin ELSE plan[r].admin
        BY <2>2, UpdateRow DEF SoundInv
      <3>4. QED
        BY <1>3, <3>2, <3>3
    <2>3. QED
      BY <2>1, <2>2
  <1>5. u' = u
    BY DEF CommitUpdate, Ends
  <1>6. QED
    BY <1>3, <1>4, <1>5 DEF Administrator, Authenticated, Exists

LEMMA AdminNext == SoundInv /\ AdminRemains /\ [Next]_vars => AdminRemains'
  <1> SUFFICES ASSUME SoundInv, AdminRemains, [Next]_vars, <<"admins", None>> \notin disturbed'
               PROVE  \E u \in Ids : Administrator(u)'
    BY DEF AdminRemains
  <1>1. CASE UNCHANGED vars
    BY <1>1 DEF vars, tables, AdminRemains, Administrator, Authenticated, Exists
  <1>2. ASSUME NEW r \in Requests, Quiet(r) \/ Commit(r)
        PROVE  \E u \in Ids : Administrator(u)'
    <2>1. <<"admins", None>> \notin disturbed
      BY <1>2, TopicStays DEF SoundInv
    <2>2. CASE CommitUpdate(r)
      <3>1. call[r].by \in Ids /\ call'[r] = call[r]
        BY <2>2, UpdateRow, CallFields DEF SoundInv, CommitUpdate, Ends
      <3>2. QED
        BY <2>1, <2>2, <3>1, UpdaterRemains
    <2>3. CASE ~CommitUpdate(r)
      <3>1. PICK u \in Ids : Administrator(u)
        BY <2>1 DEF AdminRemains
      <3>2. /\ Exists(u)' /\ users'[u].restricted = users[u].restricted
            /\ users'[u].admin = users[u].admin
        BY <1>2, <2>3, <3>1, FlagsStay DEF Administrator, Authenticated, SoundInv
      <3>3. QED
        BY <3>1, <3>2 DEF Administrator, Authenticated
    <2>4. QED
      BY <2>2, <2>3
  <1>3. QED
    BY <1>1, <1>2, NextStep

\* As long as no two administrators' updates overlap, no sequence of them
\* leaves the server without an administrator who can act.
THEOREM AdminRemainsCorrect == Spec => []AdminRemains
  <1>1. Init => AdminRemains
    <2> SUFFICES ASSUME Init PROVE \E u \in Ids : Administrator(u)
      BY DEF AdminRemains
    <2>1. PICK u \in Admins : u \notin Bots
      BY AdminsAssumption
    <2>2. u \in Ids /\ users[u] = [name |-> NameOf[u], restricted |-> FALSE,
                                   admin |-> u \in Admins, avatar |-> None]
      BY <2>1 DEF Init
    <2>3. users[u] \in Rows
      BY <2>1, <2>2 DEF Rows
    <2>4. ~users[u].restricted /\ users[u].admin
      <3>1. ~users[u].restricted
        BY <2>2
      <3>2. users[u].admin
        <4> DEFINE b == u \in Admins
        <4>1. b /\ users[u] = [name |-> NameOf[u], restricted |-> FALSE, admin |-> b,
                               avatar |-> None]
          BY <2>1, <2>2
        <4> HIDE DEF b
        <4>2. users[u].admin = b
          BY <4>1
        <4>3. QED
          BY <4>1, <4>2
      <3>3. QED
        BY <3>1, <3>2
    <2>5. QED
      BY <2>1, <2>2, <2>3, <2>4 DEF Administrator, Authenticated, Exists
  <1>2. QED
    BY <1>1, SoundAlways, AdminNext, PTL DEF Spec

-----------------------------------------------------------------------------
(* Reset links are used once.                                              *)

LinkInv ==
    /\ \A t \in Tokens : resets[t] = None => uses[t] = 0
    /\ \A t \in Tokens : \A u \in Ids :
          OfUser(t, u) /\ <<"resets", u>> \notin disturbed =>
              /\ uses[t] <= 1 /\ (~resets[t].used => uses[t] = 0)
              /\ \A s \in Tokens \ {t} : OfUser(s, u) => resets[s].used \/ resets[t].used

LEMMA LinkNext == SoundInv /\ LinkInv /\ [Next]_vars => LinkInv'
  <1> SUFFICES ASSUME SoundInv, LinkInv, [Next]_vars PROVE LinkInv'
    OBVIOUS
  <1>1. CASE UNCHANGED vars
    BY <1>1 DEF vars, tables, LinkInv, OfUser
  <1>2. ASSUME NEW r \in Requests, Quiet(r) \/ Commit(r)
        PROVE  LinkInv'
    <2> USE DEF OfUser
    <2>1. TypeInv /\ disturbed \subseteq disturbed'
      BY <1>2, TopicStays DEF SoundInv
    <2>2. ASSUME NEW t \in Tokens, resets'[t] = None PROVE uses'[t] = 0
      <3>1. resets[t] = None /\ uses[t] = 0
        BY <1>2, <2>1, <2>2, StepType DEF Kept, LinkInv
      <3>2. CASE CommitConfirm(r)
        BY <2>1, <3>1, <3>2, ConfirmWrites, NoneAssumption
      <3>3. CASE UNCHANGED uses
        BY <3>1, <3>3
      <3>4. QED
        BY <1>2, <3>2, <3>3
           DEF Quiet, Begin, Refuse, StoreImage, StoreFails, Fail, Commit, CommitRelation,
               CommitUpdate, CommitGenerate, CommitRegister, CommitRename, CommitAvatar
    <2>3. ASSUME NEW u \in Ids, <<"resets", u>> \notin disturbed', NEW t \in Tokens, OfUser(t, u)'
          PROVE  /\ uses'[t] <= 1 /\ (~resets'[t].used => uses'[t] = 0)
                 /\ \A s \in Tokens \ {t} : OfUser(s, u)' => resets'[s].used \/ resets'[t].used
      <3>1. <<"resets", u>> \notin disturbed
        BY <2>1, <2>3
      <3>2. CASE Quiet(r) \/ (Commit(r) /\ Topic(call[r]) # <<"resets", u>>)
        <4>1. \A s \in Tokens : OfUser(s, u)' => resets'[s] = resets[s] /\ uses'[s] = uses[s]
          BY <2>1, <3>2, LinksApart
        <4>2. QED
          BY <2>3, <3>1, <4>1 DEF LinkInv
      <3>3. CASE CommitGenerate(r) /\ Topic(call[r]) = <<"resets", u>>
        <4>1. call[r].target = u /\ plan[r] = PlanReset(call[r]) /\ UNCHANGED uses
          BY <2>1, <3>1, <3>3, GenerateWrites, TopicOf
             DEF CommitGenerate, SoundInv, StillInv, Pending, LinkStill
        <4>2. ASSUME NEW s \in Tokens, s # call[r].token, OfUser(s, u)' PROVE resets'[s].used
          <5>1. CASE s \in plan[r].old
            BY <2>1, <3>3, <5>1, GenerateWrites
          <5>2. CASE s \notin plan[r].old
            <6>1. resets'[s] = resets[s]
              BY <2>1, <3>3, <4>2, <5>2, GenerateWrites
            <6>2. QED
              BY <4>1, <4>2, <5>2, <6>1 DEF PlanReset
          <5>3. QED
            BY <5>1, <5>2
        <4>3. CASE t = call[r].token
          <5>1. uses[t] = 0
            BY <2>1, <3>3, <4>3, GenerateWrites DEF LinkInv
          <5>2. QED
            BY <4>1, <4>2, <4>3, <5>1
        <4>4. CASE t # call[r].token
          <5>1. resets'[t].used
            BY <2>3, <4>2, <4>4
          <5>2. OfUser(t, u)
            BY <2>1, <2>3, <3>3, <4>1, <4>4, GenerateWrites
          <5>3. uses[t] <= 1
            BY <3>1, <5>2 DEF LinkInv
          <5>4. QED
            BY <4>1, <5>1, <5>3
        <4>5. QED
          BY <4>3, <4>4
      <3>4. CASE CommitConfirm(r) /\ Topic(call[r]) = <<"resets", u>>
        <4> DEFINE w == call[r].token
        <4>1. w \in Tokens /\ OfUser(w, u) /\ ~resets[w].used
          <5>1. call[r] \in Calls /\ call[r].op = "confirm" /\ w \in Tokens /\ pc[r] = "write"
            BY <2>1, <3>4, ConfirmWrites DEF CommitConfirm
          <5>2. resets[w].user = u
            BY <3>4, <5>1, TopicOf
          <5>3. Valid(w)
            BY <3>1, <3>4, <5>1 DEF SoundInv, StillInv, Pending, LinkStill
          <5>4. QED
            BY <5>1, <5>2, <5>3 DEF Valid
        <4>2. uses[w] = 0
          BY <3>1, <4>1 DEF LinkInv
        <4>3. /\ resets'[w].used /\ uses'[w] = uses[w] + 1
              /\ \A s \in Tokens \ {w} : resets'[s] = resets[s] /\ uses'[s] = uses[s]
          BY <2>1, <3>4, ConfirmWrites
        <4> HIDE DEF w
        <4>4. CASE t = w
          BY <4>2, <4>3, <4>4
        <4>5. CASE t # w
          <5>1. resets'[t] = resets[t] /\ uses'[t] = uses[t] /\ OfUser(t, u)
            BY <2>3, <4>3, <4>5
          <5>2. ASSUME NEW s \in Tokens \ {t}, OfUser(s, u)'
                PROVE  resets'[s].used \/ resets'[t].used
            <6>1. CASE s = w
              BY <4>3, <6>1
            <6>2. CASE s # w
              BY <3>1, <4>3, <5>1, <5>2, <6>2 DEF LinkInv
            <6>3. QED
              BY <6>1, <6>2
          <5>3. uses'[t] <= 1 /\ (~resets'[t].used => uses'[t] = 0)
            BY <3>1, <5>1 DEF LinkInv
          <5>4. QED
            BY <5>2, <5>3
        <4>6. QED
          BY <4>4, <4>5
      <3>5. QED
        <4>1. CASE UNCHANGED <<resets, uses>>
          BY <2>3, <3>1, <4>1 DEF LinkInv
        <4>2. QED
          BY <1>2, <3>2, <3>3, <3>4, <4>1
             DEF Commit, CommitRelation, CommitUpdate, CommitRegister, CommitRename, CommitAvatar
    <2>4. QED
      BY <2>2, <2>3 DEF LinkInv
  <1>3. QED
    BY <1>1, <1>2, NextStep

\* A reset link sets one password, and a user has one live link at a time, as
\* long as that user's confirmations and generations do not overlap.
THEOREM LinksSingleUseCorrect == Spec => []LinksSingleUse
  <1>1. Init => LinkInv
    BY DEF Init, LinkInv, OfUser
  <1>2. SoundInv /\ LinkInv => LinksSingleUse
    <2> SUFFICES ASSUME SoundInv, LinkInv, NEW t \in Tokens, resets[t] # None,
                        <<"resets", resets[t].user>> \notin disturbed
                 PROVE  /\ uses[t] <= 1
                        /\ \A s \in Tokens \ {t} :
                              resets[s] # None /\ resets[s].user = resets[t].user =>
                                  resets[s].used \/ resets[t].used
      BY DEF LinksSingleUse
    <2>1. resets[t].user \in Ids
      BY DEF SoundInv, TypeInv, TypeOK, Reset
    <2>2. QED
      BY <2>1 DEF LinkInv, OfUser
  <1>3. QED
    BY <1>1, <1>2, SoundAlways, LinkNext, PTL DEF Spec

-----------------------------------------------------------------------------
(* The limits on relations, and what becomes of a block.                   *)

LEMMA NoMore ==
    ASSUME NEW S, NEW T, IsFiniteSet(S), T \subseteq S
    PROVE  IsFiniteSet(T) /\ Cardinality(T) <= Cardinality(S)
  BY FS_Subset

LEMMA OneMore ==
    ASSUME NEW S, NEW T, NEW x, IsFiniteSet(S), T \subseteq S \cup {x}
    PROVE  IsFiniteSet(T) /\ Cardinality(T) <= Cardinality(S) + 1
  <1>1. /\ IsFiniteSet(S \cup {x}) /\ Cardinality(S) \in Nat
        /\ Cardinality(S \cup {x}) <= Cardinality(S) + 1
    <2>1. /\ IsFiniteSet(S \cup {x})
          /\ Cardinality(S \cup {x}) = IF x \in S THEN Cardinality(S) ELSE Cardinality(S) + 1
      BY FS_AddElement
    <2>2. Cardinality(S) \in Nat
      BY FS_CardinalityType
    <2>3. QED
      BY <2>1, <2>2
  <1>2. IsFiniteSet(T) /\ Cardinality(T) <= Cardinality(S \cup {x})
    BY <1>1, NoMore
  <1>3. Cardinality(T) \in Nat /\ Cardinality(S \cup {x}) \in Nat
    BY <1>1, <1>2, FS_CardinalityType
  <1>4. QED
    BY <1>1, <1>2, <1>3

\* A commit gives its user one friend or one foe, whom it asked for.
LEMMA RelationGrows ==
    ASSUME TypeInv, NEW r \in Requests, Quiet(r) \/ Commit(r), NEW u \in Ids
    PROVE  \E x : Friends(u)' \subseteq Friends(u) \cup {x} /\ Foes(u)' \subseteq Foes(u) \cup {x}
  <1>1. CASE CommitRelation(r) /\ call[r].by = u
    <2>1. \A v \in Ids \ {call[r].target} : relations'[<<u, v>>] = relations[<<u, v>>]
      <3>1. \A v \in Ids \ {call[r].target} :
                <<u, v>> \in (Ids \X Ids) \ {<<call[r].by, call[r].target>>}
        OBVIOUS
      <3>2. QED
        BY <1>1, <3>1, RelationWrites
    <2>2. QED
      BY <2>1 DEF Friends, Foes
  <1>2. CASE Quiet(r) \/ (Commit(r) /\ (CommitRelation(r) => call[r].by # u))
    BY <1>2, RelationsApart
  <1>3. QED
    BY <1>1, <1>2

\* What an undisturbed commit does to its user's friends and foes.
LEMMA RelationCommit ==
    ASSUME SoundInv, NEW r \in Requests, CommitRelation(r),
           NEW u \in Ids, call[r].by = u, <<"relations", u>> \notin disturbed
    PROVE  LET v == call[r].target
           IN  /\ v \in Ids /\ MayRelate(call[r])
               /\ call[r].op = "addFriend" =>
                     Friends(u)' \subseteq Friends(u) \cup {v} /\ Foes(u)' \subseteq Foes(u)
               /\ call[r].op = "addBlock" =>
                     /\ Friends(u)' \subseteq Friends(u)
                     /\ Foes(u)' \subseteq Foes(u) \cup {v} /\ Foes(u) \subseteq Foes(u)'
               /\ call[r].op \in {"removeFriend", "removeBlock"} =>
                     Friends(u)' \subseteq Friends(u) /\ Foes(u)' \subseteq Foes(u)
               /\ call[r].op = "removeFriend" => v \notin Foes(u)
               /\ Foes(u) \subseteq Foes(u)' \cup {v}
  <1> DEFINE c == call[r]
             v == call[r].target
             p == <<call[r].by, call[r].target>>
             row == relations[p]
  <1>1. /\ c \in Calls /\ c.op \in RelationOps /\ v \in Ids /\ p = <<u, v>> /\ pc[r] = "write"
        /\ relations'[p] = IF plan[r].row = "delete" THEN None ELSE plan[r].to
        /\ \A q \in (Ids \X Ids) \ {p} : relations'[q] = relations[q]
    BY RelationWrites DEF CommitRelation, SoundInv
  <1>2. MayRelate(c) /\ plan[r] = PlanRelation(c)
    BY <1>1, TopicOf DEF SoundInv, StillInv, Pending, RelationStill
  <1>3. \A w \in Ids \ {v} : relations'[<<u, w>>] = relations[<<u, w>>]
    <2>1. \A w \in Ids \ {v} : <<u, w>> \in (Ids \X Ids) \ {p}
      BY <1>1
    <2>2. QED
      BY <1>1, <2>1
  <1>4. Foes(u) \subseteq Foes(u)' \cup {v}
    BY <1>3 DEF Foes
  <1>5. CASE c.op \in {"addFriend", "addBlock"}
    <2>1. plan[r].row # "delete" /\ plan[r].to = Turned(c)
      BY <1>2, <1>5 DEF PlanRelation
    <2>2. relations'[<<u, v>>] = Turned(c) /\ Turned(c) \in Relation
      BY <1>1, <2>1 DEF Turned, Relation
    <2>3. relations'[<<u, v>>] # None
      BY <2>2
    <2>4. CASE c.op = "addFriend"
      <3>1. ~relations'[<<u, v>>].foe
        <4>1. ~Turned(c).foe
          BY <2>4 DEF Turned
        <4>2. QED
          BY <2>2, <4>1
      <3>2. QED
        BY <1>1, <1>2, <1>3, <1>4, <2>3, <2>4, <3>1 DEF Friends, Foes
    <2>5. CASE c.op = "addBlock"
      <3>1. ~relations'[<<u, v>>].friend /\ relations'[<<u, v>>].foe
        <4>1. ~Turned(c).friend /\ Turned(c).foe
          BY <2>5 DEF Turned
        <4>2. QED
          BY <2>2, <4>1
      <3>2. v \in Foes(u)'
        BY <1>1, <2>3, <3>1 DEF Foes
      <3>3. Friends(u)' \subseteq Friends(u) /\ Foes(u)' \subseteq Foes(u) \cup {v}
        BY <1>3, <3>1 DEF Friends, Foes
      <3>4. QED
        BY <1>1, <1>2, <1>4, <2>5, <3>2, <3>3
    <2>6. QED
      BY <1>5, <2>4, <2>5
  <1>6. CASE c.op \in {"removeFriend", "removeBlock"}
    <2>1. v \in Friends(u) \/ v \in Foes(u)
      BY <1>1, <1>2, <1>6 DEF MayRelate
    <2>2. row # None /\ row.friend # row.foe /\ ~(row.friend /\ row.foe)
      BY <1>1, <2>1 DEF Friends, Foes, SoundInv, FoeInv, FriendOrFoe
    <2>3. plan[r].row = "delete"
      BY <1>2, <1>6, <2>2 DEF PlanRelation
    <2>4. relations'[<<u, v>>] = None
      BY <1>1, <2>3
    <2>5. Friends(u)' \subseteq Friends(u) /\ Foes(u)' \subseteq Foes(u)
      BY <1>3, <2>4 DEF Friends, Foes
    <2>6. c.op = "removeFriend" => v \notin Foes(u)
      <3>1. SUFFICES ASSUME c.op = "removeFriend" PROVE ~row.foe
        BY <1>1 DEF Foes
      <3>2. v \in Friends(u)
        BY <1>1, <1>2, <3>1 DEF MayRelate
      <3>3. QED
        BY <1>1, <2>2, <3>2 DEF Friends, SoundInv, TypeInv, TypeOK, Relation
    <2>7. QED
      BY <1>1, <1>2, <1>4, <1>6, <2>5, <2>6
  <1>7. QED
    BY <1>1, <1>5, <1>6 DEF RelationOps

LimitInv ==
    /\ \A u \in Ids : IsFiniteSet(Friends(u)) /\ IsFiniteSet(Foes(u))
    /\ LimitsHold

LEMMA BlocksAreNumbers == MaxBlocks \in Nat
  BY DEF MaxBlocks

LEMMA LimitNext == SoundInv /\ LimitInv /\ [Next]_vars => LimitInv'
  <1> SUFFICES ASSUME SoundInv, LimitInv, [Next]_vars PROVE LimitInv'
    OBVIOUS
  <1>1. CASE UNCHANGED vars
    BY <1>1 DEF vars, tables, LimitInv, LimitsHold, Friends, Foes
  <1>2. ASSUME NEW r \in Requests, Quiet(r) \/ Commit(r), NEW u \in Ids
        PROVE  /\ IsFiniteSet(Friends(u))' /\ IsFiniteSet(Foes(u))'
               /\ <<"relations", u>> \notin disturbed' =>
                     Cardinality(Friends(u)') <= MaxFriends /\ Cardinality(Foes(u)') <= MaxBlocks
    <2>1. TypeInv /\ IsFiniteSet(Friends(u)) /\ IsFiniteSet(Foes(u))
      BY DEF SoundInv, LimitInv
    <2>2. IsFiniteSet(Friends(u)') /\ IsFiniteSet(Foes(u)')
      <3>1. PICK x : Friends(u)' \subseteq Friends(u) \cup {x} /\ Foes(u)' \subseteq Foes(u) \cup {x}
        BY <1>2, <2>1, RelationGrows
      <3>2. QED
        BY <2>1, <3>1, OneMore
    <2>3. /\ Cardinality(Friends(u)) \in Nat /\ Cardinality(Foes(u)) \in Nat
          /\ Cardinality(Friends(u)') \in Nat /\ Cardinality(Foes(u)') \in Nat
      BY <2>1, <2>2, FS_CardinalityType
    <2>4. ASSUME <<"relations", u>> \notin disturbed'
          PROVE  Cardinality(Friends(u)') <= MaxFriends /\ Cardinality(Foes(u)') <= MaxBlocks
      <3>1. /\ <<"relations", u>> \notin disturbed
            /\ Cardinality(Friends(u)) <= MaxFriends /\ Cardinality(Foes(u)) <= MaxBlocks
        BY <1>2, <2>1, <2>4, TopicStays DEF LimitInv, LimitsHold
      <3>2. CASE Friends(u)' \subseteq Friends(u) /\ Foes(u)' \subseteq Foes(u)
        <4>1. /\ Cardinality(Friends(u)') <= Cardinality(Friends(u))
              /\ Cardinality(Foes(u)') <= Cardinality(Foes(u))
          BY <2>1, <3>2, NoMore
        <4>2. QED
          BY <2>3, <3>1, <4>1, BlocksAreNumbers
      <3>3. CASE CommitRelation(r) /\ call[r].by = u
        <4>1. MayRelate(call[r]) /\ call[r].op \in RelationOps
          BY <2>1, <3>1, <3>3, RelationCommit, RelationWrites
        <4>2. CASE call[r].op = "addFriend"
          <5>1. Cardinality(Friends(u)) < MaxFriends
            BY <3>3, <4>1, <4>2 DEF MayRelate
          <5>2. /\ Cardinality(Friends(u)') <= Cardinality(Friends(u)) + 1
                /\ Cardinality(Foes(u)') <= Cardinality(Foes(u))
            BY <2>1, <3>1, <3>3, <4>2, RelationCommit, NoMore, OneMore
          <5>3. QED
            BY <2>3, <3>1, <5>1, <5>2, BlocksAreNumbers
        <4>3. CASE call[r].op = "addBlock"
          <5>1. Cardinality(Foes(u)) < MaxBlocks
            BY <3>3, <4>1, <4>3 DEF MayRelate
          <5>2. /\ Cardinality(Foes(u)') <= Cardinality(Foes(u)) + 1
                /\ Cardinality(Friends(u)') <= Cardinality(Friends(u))
            BY <2>1, <3>1, <3>3, <4>3, RelationCommit, NoMore, OneMore
          <5>3. QED
            BY <2>3, <3>1, <5>1, <5>2, BlocksAreNumbers
        <4>4. QED
          BY <3>1, <3>2, <3>3, <4>1, <4>2, <4>3, RelationCommit DEF RelationOps
      <3>4. QED
        <4>1. CASE Quiet(r) \/ (Commit(r) /\ (CommitRelation(r) => call[r].by # u))
          BY <2>1, <3>2, <4>1, RelationsApart
        <4>2. QED
          BY <1>2, <3>3, <4>1
    <2>5. QED
      BY <2>2, <2>4
  <1>3. QED
    BY <1>1, <1>2, NextStep DEF LimitInv, LimitsHold

\* The limits on friends and blocks hold for a user whose relation requests
\* did not overlap, for any limit and any sequence of adds and removals.
THEOREM LimitsHoldCorrect == Spec => []LimitsHold
  <1>1. Init => LimitInv
    <2> SUFFICES ASSUME Init PROVE LimitInv
      OBVIOUS
    <2>1. \A u \in Ids : Friends(u) = {} /\ Foes(u) = {}
      BY DEF Init, Friends, Foes
    <2>2. IsFiniteSet({}) /\ Cardinality({}) = 0
      BY FS_EmptySet
    <2>3. ASSUME NEW u \in Ids
          PROVE  /\ IsFiniteSet(Friends(u)) /\ IsFiniteSet(Foes(u))
                 /\ Cardinality(Friends(u)) <= MaxFriends /\ Cardinality(Foes(u)) <= MaxBlocks
      <3>1. Friends(u) = {} /\ Foes(u) = {}
        BY <2>1
      <3>2. QED
        BY <2>2, <3>1, BlocksAreNumbers
    <2>4. QED
      BY <2>3 DEF LimitInv, LimitsHold
  <1>2. LimitInv => LimitsHold
    BY DEF LimitInv
  <1>3. QED
    BY <1>1, <1>2, SoundAlways, LimitNext, PTL DEF Spec

\* A block of a user whose relation requests do not overlap ends only by the
\* commit of that user's own request to lift it or to befriend the blocked.
THEOREM BlocksStickCorrect == Spec => BlocksStick
  <1> DEFINE Sticks ==
        \A u, v \in Ids :
          v \in Foes(u) /\ <<"relations", u>> \notin disturbed =>
              \/ v \in Foes(u)'
              \/ \E r \in Requests :
                    /\ pc[r] = "write" /\ pc'[r] = "done"
                    /\ call[r] \in RelationCalls /\ call[r].by = u /\ call[r].target = v
                    /\ call[r].op \in {"removeBlock", "addFriend"}
  <1>1. SoundInv /\ [Next]_vars => [Sticks]_vars
    <2> SUFFICES ASSUME SoundInv, Next, NEW u \in Ids, NEW v \in Ids, v \in Foes(u),
                        <<"relations", u>> \notin disturbed, v \notin Foes(u)'
                 PROVE  \E r \in Requests :
                            /\ pc[r] = "write" /\ pc'[r] = "done"
                            /\ call[r] \in RelationCalls /\ call[r].by = u /\ call[r].target = v
                            /\ call[r].op \in {"removeBlock", "addFriend"}
      OBVIOUS
    <2>1. PICK r \in Requests : Quiet(r) \/ Commit(r)
      BY NextStep
    <2>2. CommitRelation(r) /\ call[r].by = u
      BY <2>1, RelationsApart DEF SoundInv
    <2>3. pc[r] = "write" /\ pc'[r] = "done" /\ call[r] \in RelationCalls /\ call[r].op \in RelationOps
      BY <2>2, EndsStep, RelationWrites DEF CommitRelation, SoundInv
    <2>4. call[r].target = v /\ call[r].op \notin {"addBlock", "removeFriend"}
      BY <2>2, RelationCommit
    <2>5. QED
      BY <2>2, <2>3, <2>4 DEF RelationOps
  <1>2. QED
    BY <1>1, SoundAlways, PTL DEF Spec, BlocksStick

-----------------------------------------------------------------------------
(* The avatar a row names is on disk.                                      *)

\* Request r has stored user u's new file and not yet named it.
Naming(r, u) == pc[r] = "write" /\ call[r].op = "avatar" /\ call[r].by = u

AvatarInv ==
    /\ \A u \in Ids : ~Exists(u) => files[u] = None
    /\ \A u \in Ids :
          Exists(u) /\ <<"avatar", u>> \notin disturbed /\ (\A r \in Requests : ~Naming(r, u)) =>
              users[u].avatar = files[u]
    /\ \A r \in Requests : \A u \in Ids :
          Naming(r, u) /\ <<"avatar", u>> \notin disturbed => files[u] = call[r].image

\* What a step does to the file of a user.
LEMMA FileSteps ==
    ASSUME TypeInv, NEW r \in Requests, Quiet(r) \/ Commit(r), NEW u \in Ids
    PROVE  \/ files'[u] = files[u]
           \/ /\ call[r] \in Calls /\ call[r].op = "avatar" /\ call[r].by = u /\ Exists(u)
              /\ pc[r] = "store"
              /\ \/ StoreImage(r) /\ files'[u] = call[r].image
                 \/ <<"avatar", u>> \in disturbed'
  <1>1. CASE UNCHANGED files
    BY <1>1
  <1>2. CASE StoreImage(r) \/ StoreFails(r)
    <2>1. /\ call[r] \in Calls /\ call[r].op = "avatar" /\ call[r].by \in Ids
          /\ Exists(call[r].by) /\ pc[r] = "store"
      BY <1>2, CallFields DEF StoreImage, StoreFails, TypeInv, Held
    <2>2. Topic(call[r]) = <<"avatar", call[r].by>>
      BY <2>1, TopicOf
    <2>3. QED
      BY <1>2, <2>1, <2>2 DEF StoreImage, StoreFails, TypeInv, TypeOK
  <1>3. QED
    BY <1>1, <1>2 DEF Quiet, Begin, Refuse, Fail, Commit, CommitRelation, CommitUpdate,
                      CommitGenerate, CommitConfirm, CommitRegister, CommitRename, CommitAvatar

\* What a step does to the avatar of a user's row.
LEMMA AvatarSteps ==
    ASSUME TypeInv, NEW r \in Requests, Quiet(r) \/ Commit(r), NEW u \in Ids, Exists(u)'
    PROVE  \/ Exists(u) /\ users'[u].avatar = users[u].avatar
           \/ ~Exists(u) /\ users'[u].avatar = None /\ UNCHANGED files
           \/ /\ CommitAvatar(r) /\ Naming(r, u) /\ Exists(u) /\ UNCHANGED files
              /\ users'[u].avatar = call[r].image
  <1>1. CASE UNCHANGED users
    BY <1>1 DEF Exists
  <1>2. CASE CommitUpdate(r)
    BY <1>2, UpdateRow DEF Exists
  <1>3. CASE CommitRegister(r)
    BY <1>3, RegisterWrites DEF CommitRegister, Exists
  <1>4. CASE CommitRename(r)
    BY <1>4, ProfileWrites DEF Exists
  <1>5. CASE CommitAvatar(r)
    <2>1. call[r] \in Calls /\ call[r].op = "avatar" /\ pc[r] = "write" /\ UNCHANGED files
      BY <1>5, CallKinds DEF CommitAvatar, TypeInv, Held
    <2>2. ~CommitRename(r)
      BY <2>1 DEF CommitRename
    <2>3. /\ call[r].by \in Ids /\ users[call[r].by] # None
          /\ users'[call[r].by].avatar = call[r].image
          /\ \A v \in Ids \ {call[r].by} : users'[v] = users[v]
      BY <1>5, <2>2, ProfileWrites
    <2>4. QED
      BY <1>5, <2>1, <2>3 DEF Naming, Exists
  <1>6. QED
    BY <1>1, <1>2, <1>3, <1>4, <1>5
       DEF Quiet, Begin, Refuse, StoreImage, StoreFails, Fail, tables, Commit, CommitRelation,
           CommitGenerate, CommitConfirm

\* A request that has stored a file goes on naming it, ends the topic's being
\* undisturbed, or names it in this step.
LEMMA NamingSteps ==
    ASSUME TypeInv, NEW r \in Requests, Quiet(r) \/ Commit(r), NEW u \in Ids,
           NEW s \in Requests
    PROVE  /\ Naming(s, u) => \/ Naming(s, u)' \/ <<"avatar", u>> \in disturbed'
                              \/ s = r /\ CommitAvatar(r)
           /\ Naming(s, u)' => \/ Naming(s, u) /\ call'[s] = call[s]
                               \/ s = r /\ StoreImage(r) /\ call[r].by = u /\ call[r].op = "avatar"
                                        /\ call'[r] = call[r]
  <1>1. CASE s # r
    BY <1>1, StepType DEF StepOf, Naming
  <1>2. CASE s = r
    <2>1. ASSUME Naming(r, u) PROVE <<"avatar", u>> \in disturbed' \/ CommitAvatar(r)
      <3>1. call[r] \in Calls /\ call[r].op = "avatar" /\ pc[r] = "write"
        BY <2>1 DEF Naming, TypeInv, Held
      <3>2. call[r] \in ImageCalls /\ Topic(call[r]) = <<"avatar", u>>
        BY <2>1, <3>1, CallKinds, TopicOf DEF Naming
      <3>3. Fail(r) \/ CommitAvatar(r)
        BY <3>1, CallKinds
           DEF Quiet, Begin, Refuse, StoreImage, StoreFails, Commit, CommitRelation, CommitUpdate,
               CommitGenerate, CommitConfirm, CommitRegister, CommitRename, RelationOps
      <3>4. QED
        BY <3>1, <3>2, <3>3 DEF Fail
    <2>2. ASSUME Naming(r, u)' PROVE StoreImage(r) /\ call[r].by = u /\ call[r].op = "avatar"
                                     /\ call'[r] = call[r]
      <3>1. CASE \E c \in Calls : Begin(r, c)
        <4>1. PICK c \in Calls : Begin(r, c)
          BY <3>1
        <4>2. call'[r] = c /\ (c \in ImageCalls => pc'[r] = "store")
          BY <4>1 DEF Begin, TypeInv, TypeOK
        <4>3. QED
          BY <2>2, <4>2, CallKinds DEF Naming
      <3>2. CASE StoreImage(r)
        BY <2>2, <3>2 DEF StoreImage, Naming
      <3>3. CASE pc'[r] = "done"
        BY <2>2, <3>3 DEF Naming
      <3>4. QED
        BY <3>1, <3>2, <3>3, EndsStep
           DEF Quiet, Refuse, StoreFails, Fail, TypeInv, TypeOK, Commit, CommitRelation, CommitUpdate,
               CommitGenerate, CommitConfirm, CommitRegister, CommitRename, CommitAvatar
    <2>3. QED
      BY <1>2, <2>1, <2>2
  <1>3. QED
    BY <1>1, <1>2

LEMMA AvatarNext == SoundInv /\ AvatarInv /\ [Next]_vars => AvatarInv'
  <1> SUFFICES ASSUME SoundInv, AvatarInv, [Next]_vars PROVE AvatarInv'
    OBVIOUS
  <1>1. CASE UNCHANGED vars
    BY <1>1 DEF vars, tables, AvatarInv, Naming, Exists
  <1>2. ASSUME NEW r \in Requests, Quiet(r) \/ Commit(r), NEW u \in Ids
        PROVE  /\ ~Exists(u)' => files'[u] = None
               /\ <<"avatar", u>> \notin disturbed' =>
                     /\ Exists(u)' /\ (\A s \in Requests : ~Naming(s, u)') =>
                           users'[u].avatar = files'[u]
                     /\ \A s \in Requests : Naming(s, u)' => files'[u] = call'[s].image
    <2>1. TypeInv
      BY DEF SoundInv
    <2>2. ~Exists(u)' => files'[u] = None
      <3>1. ~Exists(u)' => ~Exists(u)
        BY <1>2, <2>1, StepType DEF Kept
      <3>2. QED
        BY <1>2, <2>1, <3>1, FileSteps DEF AvatarInv
    <2>3. ASSUME <<"avatar", u>> \notin disturbed'
          PROVE  /\ Exists(u)' /\ (\A s \in Requests : ~Naming(s, u)') =>
                        users'[u].avatar = files'[u]
                 /\ \A s \in Requests : Naming(s, u)' => files'[u] = call'[s].image
      <3>1. <<"avatar", u>> \notin disturbed
        BY <1>2, <2>1, <2>3, TopicStays
      <3>2. ASSUME Exists(u)', \A s \in Requests : ~Naming(s, u)'
            PROVE  users'[u].avatar = files'[u]
        <4>1. ~StoreImage(r) \/ call[r].by # u \/ call[r].op # "avatar"
          BY <2>1, <3>2 DEF StoreImage, Naming, TypeInv, TypeOK
        <4>2. files'[u] = files[u]
          BY <1>2, <2>1, <2>3, <4>1, FileSteps
        <4>3. CASE CommitAvatar(r) /\ Naming(r, u) /\ users'[u].avatar = call[r].image
          BY <3>1, <4>2, <4>3 DEF AvatarInv
        <4>4. CASE ~Exists(u) /\ users'[u].avatar = None
          BY <4>2, <4>4 DEF AvatarInv
        <4>5. CASE Exists(u) /\ users'[u].avatar = users[u].avatar /\ ~(CommitAvatar(r) /\ Naming(r, u))
          <5>1. \A s \in Requests : ~Naming(s, u)
            BY <1>2, <2>1, <2>3, <3>2, <4>5, NamingSteps
          <5>2. QED
            BY <3>1, <4>2, <4>5, <5>1 DEF AvatarInv
        <4>6. CASE CommitAvatar(r) /\ Naming(r, u)
          <5>1. users'[u].avatar = call[r].image
            <6>1. call[r] \in Calls /\ call[r].op = "avatar" /\ call[r].by = u
              BY <2>1, <4>6 DEF Naming, TypeInv, Held
            <6>2. ~CommitRename(r)
              BY <6>1 DEF CommitRename
            <6>3. QED
              BY <2>1, <4>6, <6>1, <6>2, ProfileWrites
          <5>2. QED
            BY <4>3, <4>6, <5>1
        <4>7. QED
          BY <1>2, <2>1, <3>2, <4>3, <4>4, <4>5, <4>6, AvatarSteps
      <3>3. ASSUME NEW s \in Requests, Naming(s, u)'
            PROVE  files'[u] = call'[s].image
        <4>1. CASE s = r /\ StoreImage(r) /\ call[r].by = u /\ call'[r] = call[r]
          BY <2>1, <4>1 DEF StoreImage, TypeInv, TypeOK
        <4>2. CASE Naming(s, u) /\ call'[s] = call[s]
          <5>1. files[u] = call[s].image
            BY <3>1, <4>2 DEF AvatarInv
          <5>2. files'[u] = files[u]
            <6>1. SUFFICES ASSUME call[r] \in Calls, call[r].op = "avatar", call[r].by = u,
                                  pc[r] = "store"
                           PROVE  FALSE
              BY <1>2, <2>1, FileSteps
            <6>2. Topic(call[r]) = <<"avatar", u>> /\ Topic(call[s]) = <<"avatar", u>>
              BY <2>1, <4>2, <6>1, TopicOf DEF Naming, TypeInv, Held
            <6>3. r # s
              BY <4>2, <6>1 DEF Naming
            <6>4. QED
              BY <3>1, <4>2, <6>1, <6>2, <6>3 DEF SoundInv, AloneInv, IsOpen, Naming
          <5>3. QED
            BY <4>2, <5>1, <5>2
        <4>3. \/ Naming(s, u) /\ call'[s] = call[s]
              \/ s = r /\ StoreImage(r) /\ call[r].by = u /\ call'[r] = call[r]
          BY <1>2, <2>1, <3>3, NamingSteps
        <4>4. QED
          BY <4>1, <4>2, <4>3
      <3>4. QED
        BY <3>2, <3>3
    <2>4. QED
      BY <2>2, <2>3
  <1>3. QED
    BY <1>1, <1>2, NextStep DEF AvatarInv

\* The avatar a user's row names is the file that is stored, unless uploads of
\* that user overlapped or one failed after it had removed the old file.
THEOREM AvatarStoredCorrect == Spec => []AvatarStored
  <1>1. Init => AvatarInv
    <2> SUFFICES ASSUME Init PROVE AvatarInv
      OBVIOUS
    <2>1. \A u \in Ids : Exists(u) => users[u].avatar = None
      BY DEF Init, Exists
    <2>2. QED
      BY <2>1 DEF Init, AvatarInv, Naming
  <1>2. SoundInv /\ AvatarInv => AvatarStored
    <2> SUFFICES ASSUME SoundInv, AvatarInv, NEW u \in Ids, Exists(u),
                        <<"avatar", u>> \notin disturbed,
                        \A r \in OpenRequests : call[r] \notin ImageCalls \/ call[r].by # u
                 PROVE  users[u].avatar = files[u]
      BY DEF AvatarStored
    <2>1. ASSUME NEW r \in Requests, Naming(r, u) PROVE FALSE
      <3>1. call[r] \in Calls /\ call[r].op = "avatar" /\ r \in OpenRequests
        BY <2>1 DEF SoundInv, TypeInv, Held, Naming, OpenRequests
      <3>2. QED
        BY <2>1, <3>1, CallKinds DEF Naming
    <2>2. QED
      BY <2>1 DEF AvatarInv
  <1>3. QED
    BY <1>1, <1>2, SoundAlways, AvatarNext, PTL DEF Spec

-----------------------------------------------------------------------------
(* A request that nothing overlapped is as if its handler ran at once.     *)

\* The whole handler of call c on the rows of one moment: its checks but for
\* the caller's session, and what it writes.
AtOnce(c) ==
    \/ /\ c.op \in RelationOps /\ MayRelate(c)
       /\ relations' = [relations EXCEPT ![<<c.by, c.target>>] =
                           IF c.op \in {"addFriend", "addBlock"} THEN Turned(c) ELSE None]
       /\ UNCHANGED <<users, statistics, resets, uses>>
    \/ /\ c.op = "update" /\ MayUpdate(c)
       /\ users' = [users EXCEPT
             ![c.target].restricted = IF c.restricted = None THEN @ ELSE c.restricted,
             ![c.target].admin = IF c.admin = None THEN @ ELSE c.admin]
       /\ UNCHANGED <<statistics, relations, resets, uses>>
    \/ /\ c.op = "generate" /\ resets[c.token] = None
       /\ resets' = [t \in Tokens |->
             IF t = c.token THEN [user |-> c.target, used |-> FALSE]
             ELSE IF resets[t] # None /\ resets[t].user = c.target /\ ~resets[t].used
                  THEN [resets[t] EXCEPT !.used = TRUE]
                  ELSE resets[t]]
       /\ UNCHANGED <<users, statistics, relations, uses>>
    \/ /\ c.op = "confirm" /\ Valid(c.token)
       /\ resets' = [resets EXCEPT ![c.token].used = TRUE]
       /\ uses' = [uses EXCEPT ![c.token] = @ + 1]
       /\ UNCHANGED <<users, statistics, relations>>
    \/ /\ c.op = "register" /\ ~Exists(c.target) /\ ~TakenByOther(c.name, c.target)
       /\ users' = [users EXCEPT ![c.target] =
             [name |-> c.name, restricted |-> FALSE, admin |-> FALSE, avatar |-> None]]
       /\ statistics' = statistics \cup {c.target}
       /\ UNCHANGED <<relations, resets, uses>>
    \/ /\ c.op = "rename" /\ ~TakenByOther(c.name, c.by)
       /\ users' = [users EXCEPT ![c.by].name = c.name]
       /\ UNCHANGED <<statistics, relations, resets, uses>>
    \/ /\ c.op = "avatar"
       /\ users' = [users EXCEPT ![c.by].avatar = c.image]
       /\ UNCHANGED <<statistics, relations, resets, uses>>

LEMMA RelationAtOnce ==
    ASSUME SoundInv, NEW r \in Requests, CommitRelation(r), Topic(call[r]) \notin disturbed
    PROVE  AtOnce(call[r])
  <1> DEFINE c == call[r]
             p == <<c.by, c.target>>
             to == IF plan[r].row = "delete" THEN None ELSE plan[r].to
             end == IF c.op \in {"addFriend", "addBlock"} THEN Turned(c) ELSE None
  <1>1. /\ c \in Calls /\ c.op \in RelationOps /\ p \in Ids \X Ids
        /\ MayRelate(c) /\ plan[r] = PlanRelation(c)
    BY RelationWrites DEF SoundInv, StillInv, Pending, RelationStill, CommitRelation
  <1>2. to = end
    <2>1. CASE c.op \in {"addFriend", "addBlock"}
      <3>1. plan[r].row # "delete" /\ plan[r].to = Turned(c)
        BY <1>1, <2>1 DEF PlanRelation
      <3>2. QED
        BY <2>1, <3>1
    <2>2. CASE c.op \in {"removeFriend", "removeBlock"}
      <3>1. c.target \in Friends(c.by) \/ c.target \in Foes(c.by)
        BY <1>1, <2>2 DEF MayRelate
      <3>2. ~(relations[p].friend /\ relations[p].foe)
        BY <1>1, <3>1 DEF Friends, Foes, FriendOrFoe, FoeInv, SoundInv
      <3>3. plan[r].row = "delete"
        BY <1>1, <2>2, <3>2 DEF PlanRelation
      <3>4. QED
        BY <2>2, <3>3
    <2>3. QED
      BY <1>1, <2>1, <2>2 DEF RelationOps
  <1>3. /\ relations' = [relations EXCEPT ![p] = to]
        /\ UNCHANGED <<users, statistics, resets, uses>>
    BY DEF CommitRelation
  <1> HIDE DEF to
  <1>4. relations' = [relations EXCEPT ![p] = end]
    BY <1>2, <1>3
  <1>5. QED
    BY <1>1, <1>3, <1>4 DEF AtOnce

LEMMA UpdateAtOnce ==
    ASSUME SoundInv, NEW r \in Requests, CommitUpdate(r), Topic(call[r]) \notin disturbed
    PROVE  AtOnce(call[r])
  <1> DEFINE c == call[r]
             u == c.target
             a == IF plan[r].restricted = None THEN users[u].restricted ELSE plan[r].restricted
             b == IF plan[r].admin = None THEN users[u].admin ELSE plan[r].admin
             x == IF c.restricted = None THEN users[u].restricted ELSE c.restricted
             y == IF c.admin = None THEN users[u].admin ELSE c.admin
  <1>1. /\ c \in Calls /\ c.op = "update" /\ u \in Ids /\ users[u] \in Rows
        /\ MayUpdate(c) /\ plan[r] = PlanUpdate(c)
    BY UpdateRow DEF SoundInv, StillInv, Pending, UpdateStill, CommitUpdate
  <1>2. a = x /\ b = y
    <2>1. /\ plan[r].restricted = Changed(c.restricted, users[u].restricted)
          /\ plan[r].admin \in {c.admin, Changed(c.admin, users[u].admin)}
      BY <1>1 DEF PlanUpdate
    <2>2. users[u].restricted # None /\ users[u].admin # None
      BY <1>1 DEF Rows
    <2>3. QED
      BY <2>1, <2>2 DEF Changed
  <1>3. users \in [Ids -> Rows \cup {None}]
    BY DEF SoundInv, TypeInv, TypeOK
  <1>4. /\ users' = [users EXCEPT ![u].restricted = a, ![u].admin = b]
        /\ UNCHANGED <<statistics, relations, resets, uses>>
    <2>1. users' = [users EXCEPT
              ![u].restricted = IF plan[r].restricted = None THEN @ ELSE plan[r].restricted,
              ![u].admin = IF plan[r].admin = None THEN @ ELSE plan[r].admin]
      BY DEF CommitUpdate
    <2>2. users' = [users EXCEPT ![u].restricted = a, ![u].admin = b]
      BY <1>1, <1>3, <2>1 DEF Rows
    <2>3. QED
      BY <2>2 DEF CommitUpdate
  <1> HIDE DEF a, b
  <1>5. users' = [users EXCEPT ![u].restricted = x, ![u].admin = y]
    BY <1>2, <1>4
  <1>6. users' = [users EXCEPT
             ![u].restricted = IF c.restricted = None THEN @ ELSE c.restricted,
             ![u].admin = IF c.admin = None THEN @ ELSE c.admin]
    BY <1>1, <1>3, <1>5 DEF Rows
  <1>7. QED
    BY <1>1, <1>4, <1>6 DEF AtOnce

LEMMA LinkAtOnce ==
    ASSUME SoundInv, NEW r \in Requests, CommitGenerate(r) \/ CommitConfirm(r),
           Topic(call[r]) \notin disturbed
    PROVE  AtOnce(call[r])
  <1> DEFINE c == call[r]
  <1>1. CASE CommitGenerate(r)
    <2>1. c \in Calls /\ c.op = "generate" /\ resets[c.token] = None /\ plan[r] = PlanReset(c)
      BY <1>1, GenerateWrites DEF SoundInv, StillInv, Pending, LinkStill, CommitGenerate
    <2>2. \A t \in Tokens :
             t \in plan[r].old
               <=> resets[t] # None /\ resets[t].user = c.target /\ ~resets[t].used
      BY <2>1 DEF PlanReset
    <2>3. /\ resets' = [t \in Tokens |->
                IF t = c.token THEN [user |-> c.target, used |-> FALSE]
                ELSE IF t \in plan[r].old THEN [resets[t] EXCEPT !.used = TRUE]
                ELSE resets[t]]
          /\ UNCHANGED <<users, statistics, relations, uses>>
      BY <1>1 DEF CommitGenerate
    <2>4. resets' = [t \in Tokens |->
             IF t = c.token THEN [user |-> c.target, used |-> FALSE]
             ELSE IF resets[t] # None /\ resets[t].user = c.target /\ ~resets[t].used
                  THEN [resets[t] EXCEPT !.used = TRUE]
                  ELSE resets[t]]
      BY <2>2, <2>3
    <2>5. QED
      BY <2>1, <2>3, <2>4 DEF AtOnce
  <1>2. CASE CommitConfirm(r)
    <2>1. c.op = "confirm" /\ Valid(c.token)
      BY <1>2, ConfirmWrites DEF SoundInv, StillInv, Pending, LinkStill, CommitConfirm
    <2>2. QED
      BY <1>2, <2>1 DEF CommitConfirm, AtOnce
  <1>3. QED
    BY <1>1, <1>2

\* A request that no other on its topic overlapped commits what its handler
\* would have written had it run at the moment of the commit, and is accepted
\* there: overlapping is the only way to decide on rows that have changed.
THEOREM CommitsAsAtOnce ==
    Spec => [][\A r \in Requests :
                  Commit(r) /\ Topic(call[r]) \notin disturbed => AtOnce(call[r])]_vars
  <1> DEFINE Serial == \A r \in Requests :
                          Commit(r) /\ Topic(call[r]) \notin disturbed => AtOnce(call[r])
  <1>1. SoundInv => Serial
    <2> SUFFICES ASSUME SoundInv, NEW r \in Requests, Commit(r), Topic(call[r]) \notin disturbed
                 PROVE  AtOnce(call[r])
      OBVIOUS
    <2>1. CASE CommitRegister(r) \/ CommitRename(r)
      BY <2>1 DEF CommitRegister, CommitRename, AtOnce
    <2>2. CASE CommitAvatar(r)
      <3>1. call[r].op = "avatar"
        BY <2>2, CallKinds DEF CommitAvatar, ImageCalls
      <3>2. QED
        BY <2>2, <3>1 DEF CommitAvatar, AtOnce
    <2>3. QED
      BY <2>1, <2>2, RelationAtOnce, UpdateAtOnce, LinkAtOnce DEF Commit
  <1>2. SoundInv => [Serial]_vars
    BY <1>1
  <1> HIDE DEF Serial
  <1>3. Spec => [][Serial]_vars
    BY <1>2, SoundAlways, PTL
  <1>4. QED
    BY <1>3 DEF Serial

\* The flush of a relation request that no other of its user overlapped finds
\* its row as planned: no insert of a row that is there, no update of none.
THEOREM FlushesFindTheirRow ==
    Spec => [](\A r \in Requests :
                  pc[r] = "write" /\ call[r] \in RelationCalls
                    /\ Topic(call[r]) \notin disturbed =>
                      LET row == relations[<<call[r].by, call[r].target>>]
                      IN  plan[r].row = "insert" <=> row = None)
  <1> DEFINE Found == \A r \in Requests :
                  pc[r] = "write" /\ call[r] \in RelationCalls
                    /\ Topic(call[r]) \notin disturbed =>
                      LET row == relations[<<call[r].by, call[r].target>>]
                      IN  plan[r].row = "insert" <=> row = None
  <1>1. SoundInv => Found
    <2> SUFFICES ASSUME SoundInv, NEW r \in Requests, pc[r] = "write", call[r] \in RelationCalls,
                        Topic(call[r]) \notin disturbed
                 PROVE  plan[r].row = "insert" <=> relations[<<call[r].by, call[r].target>>] = None
      OBVIOUS
    <2>1. call[r].op \in RelationOps
      BY DEF RelationCalls, RelationOps
    <2>2. MayRelate(call[r]) /\ plan[r] = PlanRelation(call[r])
      BY <2>1 DEF SoundInv, StillInv, Pending, RelationStill
    <2>3. CASE call[r].op \in {"addFriend", "addBlock"}
      BY <2>2, <2>3 DEF PlanRelation
    <2>4. CASE call[r].op \in {"removeFriend", "removeBlock"}
      <3>1. relations[<<call[r].by, call[r].target>>] # None
        BY <2>2, <2>4 DEF MayRelate, Friends, Foes
      <3>2. plan[r].row # "insert"
        BY <2>2, <2>4 DEF PlanRelation
      <3>3. QED
        BY <3>1, <3>2
    <2>5. QED
      BY <2>1, <2>3, <2>4 DEF RelationOps
  <1> HIDE DEF Found
  <1>2. Spec => []Found
    BY <1>1, SoundAlways, PTL
  <1>3. QED
    BY <1>2 DEF Found

=============================================================================
