------------------------------- MODULE MCWire -------------------------------
(* Wire on streams of up to two messages of any type around the sizes where *)
(* the length takes another byte, and on one invocation with each object of *)
(* every class in which all fields are filled but one.                      *)
EXTENDS Wire

\* An activity of a type, with the fields that belong to it.
Activity(type) ==
    <<"object", "UserActivity",
      [n \in DOMAIN NoActivity |->
         IF n = "activity_type" THEN Value(type)
         ELSE IF type \in ActivityTypes /\ n \in ToSet(Written(type)) THEN Value(n) ELSE Zero]>>

RECURSIVE Full(_)
Filled(f) ==
    CASE f.kind \in {"plain", "enum", "time", "span"} -> Value(f.name)
      [] f.kind = "stats" -> <<"keys", {"great", "miss"}>>
      [] f.kind = "list" -> <<"list", <<Full(f.of), Full(f.of)>>>>
      [] f.kind \in {"model", "modelOpt"} -> Full(f.of)
Full(class) ==
    IF class = "UserActivity" THEN Activity("IN_LOBBY")
    ELSE <<"object", class, [n \in FieldNames(class) |-> Filled(FieldOf(class, n))]>>

\* The other values of a field, down to those of the objects it holds.
RECURSIVE Objects(_)
Others(f) ==
    CASE f.kind = "plain" -> {Zero, Alien} \cup (IF f.default = Nil THEN {Nil} ELSE {})
      [] f.kind = "enum" -> {Zero, Alien} \cup (IF f.default = Nil THEN {Nil} ELSE {})
      [] f.kind = "stats" -> {<<"keys", {}>>, <<"keys", {"great", "alien"}>>}
      [] f.kind = "list" -> {<<"list", <<>>>>} \cup {<<"list", <<o>>>> : o \in Objects(f.of)}
                              \cup (IF f.default = Nil THEN {Nil} ELSE {})
      [] f.kind = "model" -> {Missing(f)} \cup Objects(f.of)
      [] f.kind = "modelOpt" -> {Nil} \cup Objects(f.of)
      [] f.kind = "time" -> {Nil}
      [] f.kind = "span" -> {Zero}

Objects(class) ==
    IF class = "UserActivity"
    THEN {Activity(t) : t \in ActivityTypes \cup {"alien"}} \cup {<<"object", class, NoActivity>>}
    ELSE {Full(class)} \cup UNION {{<<"object", class, [Full(class)[3] EXCEPT ![n] = v]>> :
                   v \in Others(FieldOf(class, n))} : n \in FieldNames(class)}

Message(type, size, object, positions) ==
    [type |-> type, size |-> size, object |-> object, positions |-> positions]

MCKinds == {Message(t, n, Full("SpectatorUser"), 2) : t \in Types, n \in {2, 127, 128}}
MCStreams ==
    {<<m>> : m \in MCKinds \cup {Message("ping", n, Nil, 0) : n \in {16383, 16384}}}
      \cup (MCKinds \X MCKinds)
      \cup UNION {{<<Message("invocation", 2, x, n)>> :
                      x \in Objects(class), n \in 0 .. Len(Classes[class])} : class \in DOMAIN Classes}

=============================================================================
