----------------------------- MODULE MCAccounts -----------------------------
(* The instance of Accounts that TLC checks: two administrators, a member  *)
(* whose relations, links and avatar the requests are about, a bot, and an *)
(* account to be registered.                                               *)
EXTENDS Accounts, TLC

CONSTANTS a1, a2, u1, bot, new, n1, n2, n3, n4, n5

MCNameOf == a1 :> n1 @@ a2 :> n2 @@ u1 :> n3 @@ bot :> n4

MCCalls ==
    [op : {"addFriend", "removeFriend", "addBlock", "removeBlock"}, by : {u1},
     target : {a1, a2}]
    \cup [op : {"addFriend"}, by : {u1}, target : {u1, new}]
    \cup [op : {"update"}, by : {a1, a2}, target : {a1, a2}, restricted : {None, TRUE},
          admin : {None, FALSE}, others : {FALSE}]
    \cup [op : {"update"}, by : {a1}, target : {u1, bot}, restricted : {TRUE}, admin : {TRUE},
          others : {FALSE}]
    \cup [op : {"update"}, by : {a1}, target : {u1}, restricted : {FALSE}, admin : {FALSE},
          others : BOOLEAN]
    \cup [op : {"generate"}, by : {a1}, target : {u1, bot}, token : Tokens]
    \cup [op : {"confirm"}, token : Tokens]
    \cup [op : {"register"}, target : {new}, name : {n3, n5}]
    \cup [op : {"rename"}, by : {u1}, name : {n1, n5}]
    \cup [op : {"avatar"}, by : {u1}, image : {"png", "gif", "corrupt"}]

Symmetry == Permutations(Requests) \cup Permutations(Tokens)
=============================================================================
