---------------------------- MODULE FramesProofs ----------------------------
(***************************************************************************)
(* Proofs about Frames, for any streams, sizes and cuts.  First that the   *)
(* recursive functions Varint and ReadVarint satisfy their equations and   *)
(* that one undoes the other (VarintSurvives), then the invariant: the     *)
(* frames lie end to end in the data, up to a cut (LayoutInv), and the     *)
(* receiver is always where one of them starts, with the messages of those *)
(* before it (ReaderInv).                                                  *)
(***************************************************************************)
EXTENDS Frames, WellFoundedInduction, SequenceTheorems, TLAPS

-----------------------------------------------------------------------------
(* Recursion.  The prover cannot instantiate the library's induction        *)
(* theorems, which take a predicate as a parameter; a least element of the  *)
(* set of counterexamples does instead.                                     *)

\* Every set of numbers that is not empty has a least element.
LEMMA LeastElement ==
    ASSUME NEW S \in SUBSET Nat, S # {}
    PROVE  \E m \in S : \A k \in S : m <= k
<1>1. PICK m \in S : \A k \in S : <<k, m>> \notin {p \in Nat \X Nat : p[1] < p[2]}
  BY NatLessThanWellFounded, WFMin DEF OpToRel
<1>2. ASSUME NEW k \in S PROVE m <= k
  <2>1. SUFFICES ASSUME k < m PROVE FALSE
    OBVIOUS
  <2>2. <<k, m>> \in Nat \X Nat
    OBVIOUS
  <2> DEFINE pair == <<k, m>>
  <2>3. pair[1] < pair[2] /\ pair \in Nat \X Nat
    BY <2>1, <2>2
  <2>4. pair \in {p \in Nat \X Nat : p[1] < p[2]}
    <3> HIDE DEF pair
    <3> QED BY <2>3
  <2> QED BY <2>4, <1>1
<1> QED BY <1>2

\* What makes a recursion along `next` a definition: a measure goes down
\* with every step of it, until it is in Stop.
Descends(D, T, Stop, measure, base, next, step) ==
    /\ Stop \in SUBSET D /\ measure \in [D -> Nat]
    /\ base \in [D -> T] /\ next \in [D -> D] /\ step \in [D -> [T -> T]]
    /\ \A d \in D \ Stop : measure[next[d]] < measure[d]

\* The function it defines.
Follows(f, D, T, Stop, base, next, step) ==
    /\ f \in [D -> T]
    /\ \A d \in D : f[d] = IF d \in Stop THEN base[d] ELSE step[d][f[next[d]]]

\* There is a function that such a recursion defines.
LEMMA Recursion ==
    ASSUME NEW D, NEW T, NEW Stop, NEW measure, NEW base, NEW next, NEW step,
           Descends(D, T, Stop, measure, base, next, step)
    PROVE  \E f : Follows(f, D, T, Stop, base, next, step)
<1> DEFINE Below(n) == {d \in D : measure[d] < n}
           At(g, d) == IF d \in Stop THEN base[d] ELSE step[d][g[next[d]]]
           Good(g, n) == g \in [Below(n) -> T] /\ \A d \in Below(n) : g[d] = At(g, d)
           Bad == {n \in Nat : ~ \E g : Good(g, n)}
           Some(n) == CHOOSE g : Good(g, n)
           Odd == {n \in Nat : \E d \in D, p, q \in Nat :
                     /\ measure[d] = n /\ n < p /\ n < q
                     /\ Some(p)[d] # Some(q)[d]}
<1>0. /\ Stop \in SUBSET D /\ measure \in [D -> Nat]
      /\ base \in [D -> T] /\ next \in [D -> D] /\ step \in [D -> [T -> T]]
      /\ \A d \in D \ Stop : measure[next[d]] < measure[d]
  BY DEF Descends
<1> USE <1>0
<1>1. Bad = {}
  <2>1. SUFFICES ASSUME Bad # {} PROVE FALSE
    OBVIOUS
  <2>2. PICK m \in Bad : \A k \in Bad : m <= k
    BY <2>1, LeastElement
  <2>3. m # 0
    <3>1. Below(0) = {}
      OBVIOUS
    <3>2. Good([d \in Below(0) |-> base[d]], 0)
      BY <3>1
    <3> HIDE DEF Good
    <3> QED BY <3>2, <2>2
  <2>4. PICK g : Good(g, m - 1)
    <3> HIDE DEF Good
    <3>1. m \in Nat /\ m - 1 \in Nat
      BY <2>2, <2>3
    <3>2. m - 1 \notin Bad
      <4> HIDE DEF Bad
      <4> QED BY <2>2, <3>1
    <3> QED BY <3>1, <3>2
  <2> DEFINE h == [d \in Below(m) |-> At(g, d)]
  <2>5. ASSUME NEW d \in Below(m), d \notin Stop PROVE next[d] \in Below(m - 1) /\ next[d] \in Below(m)
    BY <2>5, <2>2
  <2>6. h \in [Below(m) -> T]
    <3>1. ASSUME NEW d \in Below(m) PROVE At(g, d) \in T
      <4>1. CASE d \in Stop BY <4>1
      <4>2. CASE d \notin Stop
        <5>1. g[next[d]] \in T
          BY <4>2, <2>5, <2>4
        <5> QED BY <4>2, <5>1
      <4> QED BY <4>1, <4>2
    <3> QED BY <3>1
  <2>7. ASSUME NEW d \in Below(m) PROVE h[d] = At(h, d)
    <3>1. CASE d \in Stop BY <3>1
    <3>2. CASE d \notin Stop
      <4>1. h[next[d]] = At(g, next[d])
        BY <3>2, <2>5
      <4>2. h[next[d]] = g[next[d]]
        BY <4>1, <3>2, <2>5, <2>4
      <4> QED BY <3>2, <4>2
    <3> QED BY <3>1, <3>2
  <2>8. Good(h, m)
    BY <2>6, <2>7
  <2> HIDE DEF h, Good
  <2> QED BY <2>8, <2>2
<1>2. ASSUME NEW n \in Nat PROVE Good(Some(n), n)
  BY <1>1
<1>3. Odd = {}
  <2>1. SUFFICES ASSUME Odd # {} PROVE FALSE
    OBVIOUS
  <2>2. PICK n \in Odd : \A k \in Odd : n <= k
    BY <2>1, LeastElement
  <2>3. PICK d \in D, p \in Nat, q \in Nat : /\ measure[d] = n /\ n < p /\ n < q
                                            /\ Some(p)[d] # Some(q)[d]
    BY <2>2
  <2> HIDE DEF Some
  <2>4. d \in Below(p) /\ d \in Below(q)
    BY <2>3
  <2>5. Some(p)[d] = At(Some(p), d) /\ Some(q)[d] = At(Some(q), d)
    BY <2>4, <1>2
  <2>6. d \notin Stop /\ Some(p)[next[d]] # Some(q)[next[d]]
    BY <2>3, <2>5
  <2>7. measure[next[d]] \in Odd
    BY <2>3, <2>6
  <2> HIDE DEF Odd
  <2> QED BY <2>7, <2>6, <2>3, <2>2
<1> DEFINE f == [d \in D |-> Some(measure[d] + 1)[d]]
<1> HIDE DEF Some
<1>4. f \in [D -> T]
  <2>1. ASSUME NEW d \in D PROVE f[d] \in T
    <3>1. measure[d] + 1 \in Nat /\ d \in Below(measure[d] + 1)
      OBVIOUS
    <3>2. Some(measure[d] + 1) \in [Below(measure[d] + 1) -> T]
      BY <3>1, <1>2
    <3>3. Some(measure[d] + 1)[d] \in T
      BY <3>1, <3>2
    <3> QED BY <3>3
  <2> QED BY <2>1
<1>5. ASSUME NEW d \in D PROVE f[d] = At(f, d)
  <2>1. measure[d] + 1 \in Nat /\ d \in Below(measure[d] + 1)
    OBVIOUS
  <2>2. f[d] = At(Some(measure[d] + 1), d)
    <3>1. Some(measure[d] + 1)[d] = At(Some(measure[d] + 1), d)
      BY <2>1, <1>2
    <3>2. f[d] = Some(measure[d] + 1)[d]
      OBVIOUS
    <3> QED BY <3>1, <3>2
  <2>3. CASE d \in Stop BY <2>2, <2>3
  <2>4. CASE d \notin Stop
    <3>1. measure[next[d]] \notin Odd
      BY <1>3
    <3>2. next[d] \in D /\ measure[next[d]] \in Nat /\ measure[next[d]] < measure[d]
      BY <2>4
    <3>3. Some(measure[d] + 1)[next[d]] = Some(measure[next[d]] + 1)[next[d]]
      BY <3>1, <3>2
    <3> QED BY <2>2, <2>4, <3>2, <3>3
  <2> QED BY <2>3, <2>4
<1>6. Follows(f, D, T, Stop, base, next, step)
  <2> HIDE DEF f
  <2> QED BY <1>4, <1>5 DEF Follows
<1> HIDE DEF f
<1> QED BY <1>6

-----------------------------------------------------------------------------
(* Varints.                                                                 *)

\* _write_varint's equation: there is such a function, and Varint is one.
LEMMA VarintDef ==
    /\ Varint \in [Nat -> Seq(Nat)]
    /\ \A n \in Nat : Varint[n] = IF n < 128 THEN <<n>> ELSE <<128 + (n % 128)>> \o Varint[n \div 128]
<1> DEFINE Stop == 0 .. 127
           measure == [n \in Nat |-> n]
           base == [n \in Nat |-> <<n>>]
           next == [n \in Nat |-> n \div 128]
           step == [n \in Nat |-> [t \in Seq(Nat) |-> <<128 + (n % 128)>> \o t]]
           E(g) == [n \in Nat |-> IF n < 128 THEN <<n>> ELSE <<128 + (n % 128)>> \o g[n \div 128]]
<1>1. Stop \in SUBSET Nat /\ measure \in [Nat -> Nat] /\ base \in [Nat -> Seq(Nat)]
  OBVIOUS
<1>2. next \in [Nat -> Nat] /\ \A n \in Nat \ Stop : measure[next[n]] < measure[n]
  OBVIOUS
<1>3. step \in [Nat -> [Seq(Nat) -> Seq(Nat)]]
  <2>1. ASSUME NEW n \in Nat, NEW t \in Seq(Nat) PROVE <<128 + (n % 128)>> \o t \in Seq(Nat)
    OBVIOUS
  <2> QED BY <2>1
<1>4. PICK g : Follows(g, Nat, Seq(Nat), Stop, base, next, step)
  <2> HIDE DEF Stop, measure, base, next, step
  <2>1. Descends(Nat, Seq(Nat), Stop, measure, base, next, step)
    BY <1>1, <1>2, <1>3 DEF Descends
  <2> QED BY <2>1, Recursion
<1>5. /\ g \in [Nat -> Seq(Nat)]
      /\ \A n \in Nat : g[n] = IF n \in Stop THEN base[n] ELSE step[n][g[next[n]]]
  <2> HIDE DEF Stop, measure, base, next, step
  <2> QED BY <1>4 DEF Follows
<1>6. ASSUME NEW n \in Nat
      PROVE  g[n] = IF n < 128 THEN <<n>> ELSE <<128 + (n % 128)>> \o g[n \div 128]
  <2>1. CASE n < 128
    <3>1. n \in Stop
      BY <2>1
    <3>2. g[n] = base[n]
      <4> HIDE DEF base, next, step, Stop
      <4> QED BY <3>1, <1>5
    <3>3. base[n] = <<n>>
      <4> HIDE DEF Stop
      <4> QED BY <3>1
    <3> QED BY <2>1, <3>2, <3>3
  <2>2. CASE n >= 128
    <3>1. n \in Nat \ Stop /\ next[n] = n \div 128 /\ next[n] \in Nat
      BY <2>2
    <3>2. g[n] = step[n][g[next[n]]] /\ g[next[n]] \in Seq(Nat)
      <4> HIDE DEF base, next, step, Stop
      <4> QED BY <3>1, <1>5
    <3>3. step[n] = [t \in Seq(Nat) |-> <<128 + (n % 128)>> \o t]
      BY <3>1
    <3>4. step[n][g[next[n]]] = <<128 + (n % 128)>> \o g[next[n]]
      <4> HIDE DEF step, next
      <4> QED BY <3>2, <3>3
    <3> HIDE DEF base, next, step, Stop
    <3>5. g[n] = <<128 + (n % 128)>> \o g[n \div 128]
      BY <3>1, <3>2, <3>4, Zenon
    <3>6. ~(n < 128)
      BY <2>2
    <3> QED BY <3>5, <3>6, Zenon
  <2> QED BY <2>1, <2>2
<1> HIDE DEF Stop, measure, base, next, step
<1>7. g = E(g) /\ g = [n \in Nat |-> g[n]]
  BY <1>5, <1>6
<1>8. Varint = CHOOSE h : h = E(h)
  BY DEF Varint
<1>9. Varint = E(Varint)
  <2> HIDE DEF E
  <2> QED BY <1>7, <1>8
<1>10. ASSUME NEW n \in Nat PROVE Varint[n] = g[n]
  <2> DEFINE Bad == {k \in Nat : Varint[k] # g[k]}
  <2>1. CASE Bad = {} BY <2>1
  <2>2. CASE Bad # {}
    <3>1. PICK m \in Bad : \A k \in Bad : m <= k
      BY <2>2, LeastElement
    <3>2. m >= 128 /\ Varint[m \div 128] # g[m \div 128]
      <4>1. Varint[m] = IF m < 128 THEN <<m>> ELSE <<128 + (m % 128)>> \o Varint[m \div 128]
        BY <1>9
      <4>2. Varint[m] # g[m] /\ m \in Nat
        OBVIOUS
      <4>3. g[m] = IF m < 128 THEN <<m>> ELSE <<128 + (m % 128)>> \o g[m \div 128]
        BY <4>2, <1>6
      <4>4. ~(m < 128) /\ Varint[m \div 128] # g[m \div 128]
        <5> HIDE DEF E, Bad
        <5> QED BY <4>1, <4>2, <4>3, Zenon
      <4> QED BY <4>2, <4>4
    <3>3. m \div 128 \in Nat /\ m \div 128 < m
      BY <3>2
    <3> QED BY <3>1, <3>2, <3>3
  <2> QED BY <2>1, <2>2
<1>11. Varint = g
  <2>1. DOMAIN Varint = Nat /\ Varint = [n \in Nat |-> Varint[n]]
    BY <1>9
  <2> QED BY <2>1, <1>7, <1>10
<1> QED BY <1>11, <1>5, <1>6

\* One round of _read_varint's loop at byte k, given what the rest reads as.
Round(bytes, k, rest) ==
    IF k = Len(bytes) THEN [value |-> 0, size |-> 0]
    ELSE IF bytes[k + 1] < 128 THEN [value |-> bytes[k + 1], size |-> 1]
    ELSE IF rest.size = 0 THEN [value |-> 0, size |-> 0]
    ELSE [value |-> (bytes[k + 1] % 128) + (128 * rest.value), size |-> rest.size + 1]

\* _read_varint's equation.
LEMMA ReadVarintDef ==
    ASSUME NEW bytes \in Seq(Nat)
    PROVE  \A o \in 0 .. Len(bytes) :
             /\ ReadVarint(bytes, o) \in [value : Nat, size : Nat]
             /\ ReadVarint(bytes, o) = Round(bytes, o, ReadVarint(bytes, o + 1))
<1> DEFINE D == 0 .. Len(bytes)
           T == [value : Nat, size : Nat]
           Stop == {k \in D : k = Len(bytes) \/ bytes[k + 1] < 128}
           measure == [k \in D |-> Len(bytes) - k]
           base == [k \in D |-> Round(bytes, k, [value |-> 0, size |-> 0])]
           next == [k \in D |-> IF k = Len(bytes) THEN k ELSE k + 1]
           step == [k \in D |-> [t \in T |-> Round(bytes, k, t)]]
           E(g) == [k \in D |-> Round(bytes, k, g[k + 1])]
           from == CHOOSE g : g = E(g)
<1>1. ASSUME NEW k \in D, NEW t \in T PROVE Round(bytes, k, t) \in T
  <2>1. CASE k = Len(bytes) BY <2>1 DEF Round
  <2>2. CASE k # Len(bytes)
    <3>1. bytes[k + 1] \in Nat /\ bytes[k + 1] % 128 \in Nat
      BY <2>2
    <3>2. t.value \in Nat /\ t.size \in Nat /\ 128 * t.value \in Nat
      OBVIOUS
    <3> QED BY <2>2, <3>1, <3>2 DEF Round
  <2> QED BY <2>1, <2>2
<1>2. base \in [D -> T] /\ step \in [D -> [T -> T]]
  <2>1. [value |-> 0, size |-> 0] \in T
    OBVIOUS
  <2> HIDE DEF D, T
  <2> QED BY <1>1, <2>1
<1>3. /\ Stop \in SUBSET D /\ measure \in [D -> Nat] /\ next \in [D -> D]
      /\ \A k \in D \ Stop : measure[next[k]] < measure[k]
  OBVIOUS
<1>4. PICK g : Follows(g, D, T, Stop, base, next, step)
  <2> HIDE DEF D, T, Stop, measure, base, next, step
  <2>1. Descends(D, T, Stop, measure, base, next, step)
    BY <1>2, <1>3 DEF Descends
  <2> QED BY <2>1, Recursion
<1>5. /\ g \in [D -> T]
      /\ \A k \in D : g[k] = IF k \in Stop THEN base[k] ELSE step[k][g[next[k]]]
  <2> HIDE DEF D, T, Stop, measure, base, next, step
  <2> QED BY <1>4 DEF Follows
<1>6. ASSUME NEW k \in D PROVE g[k] = Round(bytes, k, g[k + 1])
  <2>1. CASE k \in Stop
    <3>1. g[k] = Round(bytes, k, [value |-> 0, size |-> 0])
      <4> HIDE DEF Stop, D
      <4> QED BY <2>1, <1>5
    <3> QED BY <2>1, <3>1 DEF Round
  <2>2. CASE k \notin Stop
    <3>1. next[k] = k + 1 /\ next[k] \in D
      BY <2>2
    <3>2. g[k] = step[k][g[next[k]]] /\ g[next[k]] \in T
      <4> HIDE DEF D, T, Stop, base, next, step
      <4> QED BY <2>2, <3>1, <1>5
    <3>3. step[k][g[next[k]]] = Round(bytes, k, g[next[k]])
      <4> HIDE DEF D, T, next
      <4> QED BY <3>2
    <3> HIDE DEF D, T, Stop, base, next, step
    <3> QED BY <3>1, <3>2, <3>3
  <2> QED BY <2>1, <2>2
<1> HIDE DEF Stop, measure, base, next, step
<1>7. g = E(g)
  <2>1. g = [k \in D |-> g[k]]
    BY <1>5
  <2> HIDE DEF D
  <2> QED BY <2>1, <1>6
<1>8. from = E(from)
  <2> HIDE DEF E
  <2> QED BY <1>7
<1> HIDE DEF from
<1>9. ASSUME NEW o \in D PROVE ReadVarint(bytes, o) = from[o]
  BY DEF ReadVarint, from, Round
<1>10. ASSUME NEW k \in D PROVE from[k] = Round(bytes, k, from[k + 1])
  <2> HIDE DEF D
  <2>1. from[k] = E(from)[k]
    BY <1>8
  <2> QED BY <2>1
<1>11. ASSUME NEW k \in D PROVE from[k] = g[k]
  <2> DEFINE Bad == {n \in Nat : n <= Len(bytes) /\ from[Len(bytes) - n] # g[Len(bytes) - n]}
  <2>1. CASE Bad = {}
    <3>1. Len(bytes) - k \in Nat /\ Len(bytes) - k <= Len(bytes) /\ Len(bytes) - (Len(bytes) - k) = k
      OBVIOUS
    <3>2. Len(bytes) - k \notin Bad
      BY <2>1
    <3> QED BY <3>1, <3>2
  <2>2. CASE Bad # {}
    <3>1. PICK m \in Bad : \A n \in Bad : m <= n
      <4> HIDE DEF Bad
      <4>1. Bad \in SUBSET Nat
        BY DEF Bad
      <4> QED BY <4>1, <2>2, LeastElement
    <3> DEFINE l == Len(bytes) - m
    <3>2. l \in D /\ from[l] # g[l]
      OBVIOUS
    <3>3. from[l] = Round(bytes, l, from[l + 1]) /\ g[l] = Round(bytes, l, g[l + 1])
      <4> HIDE DEF l, D
      <4> QED BY <3>2, <1>6, <1>10
    <3>4. l # Len(bytes)
      <4> HIDE DEF l
      <4> QED BY <3>2, <3>3 DEF Round
    <3>5. m - 1 \in Nat /\ m - 1 <= Len(bytes) /\ m - 1 \notin Bad
      <4>1. m \in Nat /\ m # 0 /\ m <= Len(bytes)
        BY <3>4
      <4>2. m - 1 \in Nat /\ ~ (m <= m - 1) /\ m - 1 <= Len(bytes)
        BY <4>1
      <4> HIDE DEF Bad
      <4> QED BY <4>2, <3>1
    <3>6. Len(bytes) - (m - 1) = l + 1
      OBVIOUS
    <3>7. from[l + 1] = g[l + 1]
      BY <3>5, <3>6
    <3> HIDE DEF l
    <3> QED BY <3>2, <3>3, <3>7
  <2> QED BY <2>1, <2>2
<1>12. ASSUME NEW o \in D
       PROVE  /\ ReadVarint(bytes, o) \in T
              /\ ReadVarint(bytes, o) = Round(bytes, o, ReadVarint(bytes, o + 1))
  <2>1. ReadVarint(bytes, o) = Round(bytes, o, from[o + 1])
    BY <1>9, <1>10
  <2>2. o = Len(bytes) \/ ReadVarint(bytes, o + 1) = from[o + 1]
    BY <1>9
  <2>3. ReadVarint(bytes, o) \in T
    <3> HIDE DEF D, T
    <3> QED BY <1>5, <1>9, <1>11
  <2>4. CASE o = Len(bytes) BY <2>1, <2>3, <2>4 DEF Round
  <2>5. CASE o # Len(bytes)
    <3> HIDE DEF D, T
    <3> QED BY <2>1, <2>2, <2>3, <2>5
  <2> QED BY <2>4, <2>5
<1> QED BY <1>12

\* The bytes of a varint, one by one.
LEMMA VarintBytes ==
    ASSUME NEW n \in Nat
    PROVE  /\ Varint[n] \in Seq(Nat) /\ Len(Varint[n]) \in Nat \ {0}
           /\ n < 128 => Len(Varint[n]) = 1 /\ Varint[n][1] = n
           /\ n >= 128 =>
                /\ n \div 128 \in Nat /\ n \div 128 < n
                /\ Len(Varint[n]) = Len(Varint[n \div 128]) + 1
                /\ Varint[n][1] = 128 + (n % 128)
                /\ \A j \in 1 .. Len(Varint[n \div 128]) :
                     Varint[n][j + 1] = Varint[n \div 128][j]
<1>1. Varint[n] \in Seq(Nat) /\ Len(Varint[n]) \in Nat
  BY VarintDef
<1>2. CASE n < 128
  <2>1. Varint[n] = <<n>>
    BY <1>2, VarintDef
  <2> QED BY <2>1, <1>1, <1>2
<1>3. CASE n >= 128
  <2> DEFINE first == <<128 + (n % 128)>>
             rest == Varint[n \div 128]
  <2>1. n \div 128 \in Nat /\ n \div 128 < n
    BY <1>3
  <2>2. Varint[n] = first \o rest
    <3>1. Varint[n] = IF n < 128 THEN <<n>> ELSE first \o rest
      BY VarintDef, Zenon
    <3>2. ~ (n < 128)
      BY <1>3
    <3> QED BY <3>1, <3>2, Zenon
  <2>3. rest \in Seq(Nat) /\ Len(rest) \in Nat
    BY <2>1, VarintDef
  <2>4. first \in Seq(Nat) /\ Len(first) = 1 /\ first[1] = 128 + (n % 128)
    OBVIOUS
  <2> HIDE DEF first, rest
  <2>5. /\ Len(Varint[n]) = Len(rest) + 1
        /\ Varint[n][1] = 128 + (n % 128)
        /\ \A j \in 1 .. Len(rest) : Varint[n][j + 1] = rest[j]
    <3>1. /\ Len(first \o rest) = Len(first) + Len(rest)
          /\ \A i \in 1 .. Len(first) + Len(rest) :
               (first \o rest)[i] = IF i <= Len(first) THEN first[i] ELSE rest[i - Len(first)]
      BY <2>3, <2>4, ConcatProperties
    <3>2. (first \o rest)[1] = first[1]
      BY <2>3, <2>4, <3>1
    <3>3. ASSUME NEW j \in 1 .. Len(rest) PROVE (first \o rest)[j + 1] = rest[j]
      <4>1. j + 1 \in 1 .. Len(first) + Len(rest) /\ ~ (j + 1 <= Len(first)) /\ (j + 1) - Len(first) = j
        BY <2>3, <2>4
      <4> QED BY <3>1, <4>1
    <3> QED BY <2>2, <2>3, <2>4, <3>1, <3>2, <3>3
  <2> QED BY <2>1, <2>3, <2>5, <1>1, <1>3 DEF rest
<1> QED BY <1>2, <1>3

\* What _read_varint makes of the bytes of _write_varint(n), or of the first
\* of them when the data ends within: n, or the ValueError.
THEOREM VarintSurvives ==
    ASSUME NEW bytes \in Seq(Nat), NEW n \in Nat, NEW o \in 0 .. Len(bytes),
           \A j \in 1 .. Len(Varint[n]) : o + j <= Len(bytes) => bytes[o + j] = Varint[n][j]
    PROVE  ReadVarint(bytes, o) =
             IF o + Len(Varint[n]) <= Len(bytes) THEN [value |-> n, size |-> Len(Varint[n])]
             ELSE [value |-> 0, size |-> 0]
<1> DEFINE At(p, m) == \A j \in 1 .. Len(Varint[m]) :
                         p + j <= Len(bytes) => bytes[p + j] = Varint[m][j]
           Reads(p, m) == ReadVarint(bytes, p) =
                            IF p + Len(Varint[m]) <= Len(bytes)
                            THEN [value |-> m, size |-> Len(Varint[m])]
                            ELSE [value |-> 0, size |-> 0]
           Bad == {m \in Nat : \E p \in 0 .. Len(bytes) : At(p, m) /\ ~Reads(p, m)}
<1>1. SUFFICES ASSUME Bad # {} PROVE FALSE
  OBVIOUS
<1>2. PICK m \in Bad : \A k \in Bad : m <= k
  <2>1. Bad \in SUBSET Nat
    OBVIOUS
  <2> HIDE DEF Bad
  <2> QED BY <2>1, <1>1, LeastElement
<1>3. PICK p \in 0 .. Len(bytes) : At(p, m) /\ ~Reads(p, m)
  OBVIOUS
<1>4. m \in Nat
  OBVIOUS
<1>5. ReadVarint(bytes, p) = Round(bytes, p, ReadVarint(bytes, p + 1))
  BY ReadVarintDef
<1>6. Varint[m] \in Seq(Nat) /\ Len(Varint[m]) \in Nat \ {0}
  BY <1>4, VarintBytes
<1> HIDE DEF Bad
<1>7. CASE p = Len(bytes)
  BY <1>3, <1>5, <1>6, <1>7 DEF Round
<1>8. CASE p # Len(bytes) /\ m < 128
  <2>1. Len(Varint[m]) = 1 /\ Varint[m][1] = m
    BY <1>4, <1>8, VarintBytes
  <2>2. bytes[p + 1] = m
    BY <1>3, <1>8, <2>1
  <2> QED BY <1>3, <1>5, <1>8, <2>1, <2>2 DEF Round
<1>9. CASE p # Len(bytes) /\ m >= 128
  <2> DEFINE q == m \div 128
  <2>1. /\ q \in Nat /\ q < m
        /\ Len(Varint[m]) = Len(Varint[q]) + 1
        /\ Varint[m][1] = 128 + (m % 128)
        /\ \A j \in 1 .. Len(Varint[q]) : Varint[m][j + 1] = Varint[q][j]
    BY <1>4, <1>9, VarintBytes
  <2>2. m = (m % 128) + (128 * q) /\ (128 + (m % 128)) % 128 = m % 128 /\ m % 128 \in Nat
    BY <1>4
  <2>3. p + 1 \in 0 .. Len(bytes)
    BY <1>9
  <2> HIDE DEF q
  <2>4. Len(Varint[q]) \in Nat \ {0}
    BY <2>1, VarintBytes
  <2>5. bytes[p + 1] = 128 + (m % 128)
    BY <1>3, <1>6, <1>9, <2>1
  <2>6. At(p + 1, q)
    <3>1. SUFFICES ASSUME NEW j \in 1 .. Len(Varint[q]), (p + 1) + j <= Len(bytes)
                   PROVE  bytes[(p + 1) + j] = Varint[q][j]
      OBVIOUS
    <3>2. j + 1 \in 1 .. Len(Varint[m]) /\ p + (j + 1) <= Len(bytes) /\ (p + 1) + j = p + (j + 1)
      BY <2>1, <2>4, <3>1
    <3>3. bytes[p + (j + 1)] = Varint[m][j + 1]
      BY <1>3, <3>2
    <3> QED BY <2>1, <3>2, <3>3
  <2>7. Reads(p + 1, q)
    <3>1. q \notin Bad
      BY <1>2, <1>4, <2>1
    <3> HIDE DEF At, Reads
    <3> QED BY <3>1, <2>1, <2>3, <2>6 DEF Bad
  <2>10. /\ p \in Nat /\ Len(bytes) \in Nat /\ Len(Varint[q]) \in Nat
         /\ p + Len(Varint[m]) = (p + 1) + Len(Varint[q])
    <3>1. Len(Varint[m]) = Len(Varint[q]) + 1
      BY <2>1
    <3>2. Len(bytes) \in Nat /\ p \in Nat
      OBVIOUS
    <3>3. Len(Varint[q]) \in Nat
      BY <2>4
    <3> DEFINE l == Len(Varint[q])
    <3>4. p + (l + 1) = (p + 1) + l
      <4> HIDE DEF l
      <4>1. l \in Nat BY <3>3 DEF l
      <4> QED BY <3>2, <4>1
    <3> QED BY <3>1, <3>2, <3>3, <3>4, Zenon
  <2>8. CASE p + Len(Varint[m]) <= Len(bytes)
    <3>1. ReadVarint(bytes, p + 1) = [value |-> q, size |-> Len(Varint[q])]
      <4>1. (p + 1) + Len(Varint[q]) <= Len(bytes)
        BY <2>10, <2>8
      <4> QED BY <2>7, <4>1, Zenon
    <3>2. ReadVarint(bytes, p) = [value |-> m, size |-> Len(Varint[m])]
      BY <1>5, <1>9, <2>1, <2>2, <2>4, <2>5, <3>1 DEF Round
    <3> QED BY <1>3, <2>8, <3>2
  <2>9. CASE ~ (p + Len(Varint[m]) <= Len(bytes))
    <3>1. ReadVarint(bytes, p + 1) = [value |-> 0, size |-> 0]
      <4>1. ~ ((p + 1) + Len(Varint[q]) <= Len(bytes))
        BY <2>10, <2>9
      <4> QED BY <2>7, <4>1, Zenon
    <3>2. ReadVarint(bytes, p) = [value |-> 0, size |-> 0]
      BY <1>5, <1>9, <2>2, <2>5, <3>1 DEF Round
    <3> QED BY <1>3, <2>9, <3>2
  <2> QED BY <2>8, <2>9
<1> QED BY <1>4, <1>7, <1>8, <1>9

-----------------------------------------------------------------------------
(* The way of a message.                                                    *)

\* Where frame i starts.
Start(i) == IF i = 1 THEN 0 ELSE ends[i - 1]

TypeInv ==
    /\ outbox \in Streams
    /\ data \in Seq(Nat) /\ ends \in Seq(Nat) /\ Len(ends) <= Len(outbox)
    /\ stage \in {"write", "wire", "read", "done"}
    /\ offset \in Nat /\ inbox \in Seq(Nat)

\* The frames lie end to end, all of them once the message is sent, and the
\* data is that or, after a cut, the beginning of it.
LayoutInv ==
    /\ \A i \in 1 .. Len(ends) : ends[i] = Start(i) + Len(Frame(i))
    /\ \A i, k \in 1 .. Len(ends) : i < k => ends[i] < ends[k]
    /\ \A i \in 1 .. Len(ends) : \A j \in 1 .. Len(Frame(i)) :
         Start(i) + j <= Len(data) => data[Start(i) + j] = Frame(i)[j]
    /\ Len(data) <= Start(Len(ends) + 1)
    /\ stage = "write" => Len(data) = Start(Len(ends) + 1)
    /\ stage # "write" => Len(ends) = Len(outbox)

\* The receiver has unpacked the first r frames, and none of those stopped it.
ReadUpTo(r) ==
    /\ offset = Start(r + 1)
    /\ \A i \in 1 .. r : outbox[i].type # "corrupt"
    /\ {inbox[k] : k \in DOMAIN inbox} = {i \in 1 .. r : outbox[i].type # "empty"}

\* The receiver is at the start of a frame, or at the end of the last, with
\* the messages before it; once it is done, no frame to unpack is left there.
ReaderInv ==
    /\ stage \in {"write", "wire"} => offset = 0 /\ inbox = <<>>
    /\ offset <= Len(data)
    /\ \E r \in 0 .. Len(ends) : ReadUpTo(r)
    /\ \A j, k \in DOMAIN inbox : j < k => inbox[j] < inbox[k]
    /\ stage = "done" => ~Arrived

IInv == TypeInv /\ LayoutInv /\ ReaderInv

\* A message to pack, and the frame it gets.
LEMMA FrameBytes ==
    ASSUME outbox \in Streams, NEW i \in 1 .. Len(outbox)
    PROVE  /\ Len(outbox) \in Nat /\ i \in DOMAIN outbox
           /\ outbox[i].size \in Nat \ {0}
           /\ Varint[outbox[i].size] \in Seq(Nat) /\ Len(Varint[outbox[i].size]) \in Nat \ {0}
           /\ Frame(i) \in Seq(Nat)
           /\ Len(Frame(i)) = Len(Varint[outbox[i].size]) + outbox[i].size
           /\ \A j \in 1 .. Len(Varint[outbox[i].size]) : Frame(i)[j] = Varint[outbox[i].size][j]
           /\ \A j \in 1 .. outbox[i].size : Frame(i)[Len(Varint[outbox[i].size]) + j] = i
<1>1. /\ Len(outbox) \in Nat /\ i \in DOMAIN outbox /\ i \in Nat
      /\ outbox[i].size \in Nat \ {0}
  BY FramesAssumption DEF StreamsAssumption
<1> DEFINE v == Varint[outbox[i].size]
           n == outbox[i].size
<1>2. v \in Seq(Nat) /\ Len(v) \in Nat \ {0}
  BY <1>1, VarintBytes
<1>3. Packed(i) \in Seq(Nat) /\ Len(Packed(i)) = n /\ \A j \in 1 .. n : Packed(i)[j] = i
  BY <1>1 DEF Packed
<1>4. Frame(i) = v \o Packed(i)
  BY DEF Frame
<1>5. n \in Nat \ {0}
  BY <1>1
<1> HIDE DEF v, n
<1>6. /\ v \o Packed(i) \in Seq(Nat)
      /\ Len(v \o Packed(i)) = Len(v) + n
      /\ \A j \in 1 .. Len(v) + n :
           (v \o Packed(i))[j] = IF j <= Len(v) THEN v[j] ELSE Packed(i)[j - Len(v)]
  BY <1>2, <1>3, ConcatProperties
<1>7. ASSUME NEW j \in 1 .. Len(v) PROVE Frame(i)[j] = v[j]
  BY <1>2, <1>4, <1>5, <1>6
<1>8. ASSUME NEW j \in 1 .. n PROVE Frame(i)[Len(v) + j] = i
  <2>1. Len(v) + j \in 1 .. Len(v) + n /\ ~ (Len(v) + j <= Len(v)) /\ (Len(v) + j) - Len(v) = j
    BY <1>2, <1>5
  <2> QED BY <1>3, <1>4, <1>6, <2>1
<1> QED BY <1>1, <1>2, <1>4, <1>6, <1>7, <1>8 DEF v, n

\* Where the frames start.
LEMMA Starts ==
    ASSUME TypeInv, LayoutInv
    PROVE  /\ Len(ends) \in Nat
           /\ \A i \in 1 .. Len(ends) + 1 : Start(i) \in Nat
           /\ \A i \in 1 .. Len(ends) : ends[i] \in Nat /\ Start(i + 1) = ends[i] /\ Start(i) < ends[i]
           /\ \A i \in 1 .. Len(ends) : ends[i] <= Start(Len(ends) + 1)
<1>1. Len(ends) \in Nat /\ \A i \in 1 .. Len(ends) : ends[i] \in Nat
  BY DEF TypeInv
<1>2. ASSUME NEW i \in 1 .. Len(ends) + 1 PROVE Start(i) \in Nat
  <2>1. CASE i = 1 BY <2>1 DEF Start
  <2>2. CASE i # 1
    <3>1. i - 1 \in 1 .. Len(ends)
      BY <1>1, <2>2
    <3> QED BY <1>1, <2>2, <3>1 DEF Start
  <2> QED BY <2>1, <2>2
<1>3. ASSUME NEW i \in 1 .. Len(ends) PROVE Start(i + 1) = ends[i] /\ Start(i) < ends[i]
  <2>1. i \in 1 .. Len(outbox) /\ i \in 1 .. Len(ends) + 1 /\ i \in Nat /\ i # 0
    <3>1. Len(outbox) \in Nat
      BY FramesAssumption DEF TypeInv, StreamsAssumption
    <3> QED BY <1>1, <3>1 DEF TypeInv
  <2>2. Len(Frame(i)) \in Nat \ {0}
    <3>1. /\ Len(Frame(i)) = Len(Varint[outbox[i].size]) + outbox[i].size
          /\ Len(Varint[outbox[i].size]) \in Nat \ {0} /\ outbox[i].size \in Nat \ {0}
      BY <2>1, FrameBytes DEF TypeInv
    <3> QED BY <3>1
  <2>3. Start(i + 1) = ends[i]
    BY <2>1 DEF Start
  <2>4. ends[i] = Start(i) + Len(Frame(i)) /\ Start(i) \in Nat
    BY <1>2, <2>1 DEF LayoutInv
  <2> QED BY <2>2, <2>3, <2>4
<1>4. ASSUME NEW i \in 1 .. Len(ends) PROVE ends[i] <= Start(Len(ends) + 1)
  <2>1. Start(Len(ends) + 1) = ends[Len(ends)] /\ Len(ends) \in 1 .. Len(ends)
    BY <1>1, <1>3
  <2>2. CASE i = Len(ends) BY <1>1, <2>1, <2>2
  <2>3. CASE i < Len(ends)
    <3>1. ends[i] < ends[Len(ends)]
      BY <2>1, <2>3 DEF LayoutInv
    <3> QED BY <1>1, <2>1, <3>1
  <2> QED BY <1>1, <2>2, <2>3
<1> QED BY <1>1, <1>2, <1>3, <1>4

\* What the receiver finds at the start of frame r + 1: that frame, if it has
\* arrived whole and unpacks, and else nothing, whatever bytes there are.
LEMMA ArrivedFrame ==
    ASSUME TypeInv, LayoutInv, stage # "write",
           NEW r \in 0 .. Len(ends), offset = Start(r + 1), offset <= Len(data)
    PROVE  /\ Arrived <=> /\ r < Len(ends) /\ ends[r + 1] <= Len(data)
                          /\ outbox[r + 1].type # "corrupt"
           /\ Arrived => End = ends[r + 1] /\ Body[1] = r + 1
<1>1. data \in Seq(Nat) /\ Len(data) \in Nat /\ offset \in Nat /\ Len(ends) \in Nat
  BY DEF TypeInv
<1>2. CASE r = Len(ends)
  <2>1. Len(data) <= offset
    BY <1>2 DEF LayoutInv
  <2> QED BY <1>1, <1>2, <2>1 DEF Arrived
<1>3. CASE r # Len(ends)
  <2> DEFINE i == r + 1
             n == outbox[i].size
             v == Varint[n]
  <2>1. i \in 1 .. Len(ends) /\ i \in 1 .. Len(outbox) /\ Len(outbox) = Len(ends)
    BY <1>1, <1>3 DEF LayoutInv
  <2>2. /\ i \in DOMAIN outbox /\ n \in Nat \ {0} /\ Len(v) \in Nat \ {0}
        /\ Len(Frame(i)) = Len(v) + n
        /\ \A j \in 1 .. Len(v) : Frame(i)[j] = v[j]
        /\ \A j \in 1 .. n : Frame(i)[Len(v) + j] = i
    BY <2>1, FrameBytes DEF TypeInv
  <2>3. offset = Start(i) /\ ends[i] = offset + Len(v) + n /\ ends[i] \in Nat
    BY <1>1, <2>1, <2>2, Starts DEF LayoutInv
  <2>4. i \in Nat \ {0} /\ r < Len(ends)
    BY <1>1, <1>3
  <2> HIDE DEF i
  <2>5. \A j \in 1 .. Len(v) + n : offset + j <= Len(data) => data[offset + j] = Frame(i)[j]
    BY <2>1, <2>2, <2>3 DEF LayoutInv
  <2> HIDE DEF n, v
  <2>6. Length = IF offset + Len(v) <= Len(data) THEN [value |-> n, size |-> Len(v)]
                 ELSE [value |-> 0, size |-> 0]
    <3>1. \A j \in 1 .. Len(v) : offset + j <= Len(data) => data[offset + j] = v[j]
      <4>1. SUFFICES ASSUME NEW j \in 1 .. Len(v), offset + j <= Len(data)
                     PROVE  data[offset + j] = v[j]
        OBVIOUS
      <4>2. j \in 1 .. Len(v) + n
        BY <2>2
      <4> QED BY <2>2, <2>5, <4>1, <4>2
    <3>2. offset \in 0 .. Len(data) /\ n \in Nat
      BY <1>1, <2>2
    <3> QED BY <1>1, <3>1, <3>2, VarintSurvives DEF Length, v
  <2>7. CASE ends[i] > Len(data)
    <3>1. ~Arrived
      <4>1. CASE offset + Len(v) <= Len(data)
        <5>1. Length.size = Len(v) /\ Length.value = n
          BY <2>6, <4>1
        <5>2. End = ends[i]
          BY <2>3, <5>1 DEF End
        <5> QED BY <1>1, <2>3, <2>7, <5>2 DEF Arrived
      <4>2. CASE ~ (offset + Len(v) <= Len(data))
        <5>1. Length.size = 0
          BY <2>6, <4>2
        <5> QED BY <5>1 DEF Arrived
      <4> QED BY <4>1, <4>2
    <3> QED BY <1>1, <2>3, <2>7, <3>1 DEF i
  <2>8. CASE ends[i] <= Len(data)
    <3>1. offset + Len(v) <= Len(data) /\ offset < Len(data)
      BY <1>1, <2>2, <2>3, <2>8
    <3>2. Length.size = Len(v) /\ Length.value = n
      BY <2>6, <3>1
    <3>3. End = ends[i]
      BY <2>3, <3>2 DEF End
    <3> DEFINE from == offset + Len(v) + 1
    <3>4. /\ from \in Int /\ ends[i] \in Int /\ ends[i] - from + 1 = n /\ from <= ends[i]
          /\ \A k \in 1 .. n : /\ Len(v) + k \in 1 .. Len(v) + n
                               /\ offset + (Len(v) + k) <= Len(data)
                               /\ from + k - 1 = offset + (Len(v) + k)
                               /\ from + k - 1 \in 1 .. Len(data)
          /\ \A p \in from .. ends[i] : p \in 1 .. Len(data)
      <4> DEFINE l == Len(v)
                 e == ends[i]
                 d == Len(data)
      <4>1. /\ offset \in Nat /\ l \in Nat \ {0} /\ n \in Nat \ {0} /\ d \in Nat
            /\ e = offset + l + n /\ e <= d /\ from = offset + l + 1
        BY <1>1, <2>2, <2>3, <2>8
      <4> HIDE DEF from, l, e, d
      <4>3. e \in Int /\ from \in Int /\ l \in Int /\ n \in Int /\ n > 0 /\ l > 0
        BY <4>1
      <4>4. e - from + 1 = n /\ from <= e
        BY <4>1, <4>3
      <4>5. ASSUME NEW k \in 1 .. n
            PROVE  /\ l + k \in 1 .. l + n /\ offset + (l + k) <= d
                   /\ from + k - 1 = offset + (l + k) /\ from + k - 1 \in 1 .. d
        <5>1. k \in Nat /\ 1 <= k /\ k <= n
          BY <4>3
        <5>2. from + k - 1 = offset + (l + k)
          BY <4>1, <4>3, <5>1
        <5>3. offset + (l + k) <= d
          BY <4>1, <4>3, <5>1
        <5>4. l + k \in 1 .. l + n /\ offset + (l + k) \in Nat \ {0}
          BY <4>1, <4>3, <5>1
        <5> QED BY <4>1, <5>2, <5>3, <5>4
      <4>6. ASSUME NEW p \in from .. e PROVE p \in 1 .. d
        BY <4>1, <4>3
      <4>2. /\ from \in Int /\ e \in Int /\ e - from + 1 = n /\ from <= e
            /\ \A k \in 1 .. n : /\ l + k \in 1 .. l + n /\ offset + (l + k) <= d
                                 /\ from + k - 1 = offset + (l + k) /\ from + k - 1 \in 1 .. d
            /\ \A p \in from .. e : p \in 1 .. d
        BY <4>3, <4>4, <4>5, <4>6
      <4> QED BY <4>2, Zenon DEF l, e, d
    <3>5. ASSUME NEW k \in 1 .. n PROVE from + k - 1 \in 1 .. Len(data) /\ data[from + k - 1] = i
      <4> HIDE DEF from
      <4> QED BY <2>2, <2>5, <3>4
    <3>6. \A p \in from .. ends[i] : data[p] \in Nat
      <4> HIDE DEF from
      <4> QED BY <1>1, <3>4
    <3>7. Body = SubSeq(data, from, ends[i])
      BY <3>2, <3>3 DEF Body
    <3> HIDE DEF from
    <3>8. /\ SubSeq(data, from, ends[i]) \in Seq(Nat)
          /\ Len(SubSeq(data, from, ends[i])) = n
          /\ \A k \in 1 .. n : SubSeq(data, from, ends[i])[k] = data[from + k - 1]
      BY <3>4, <3>6, SubSeqProperties
    <3>9. /\ Packed(i) \in Seq(Nat) /\ Len(Packed(i)) = n
          /\ \A k \in 1 .. n : Packed(i)[k] = i
      BY <2>2, <2>4 DEF Packed, n
    <3>10. Body = Packed(i)
      BY <3>5, <3>7, <3>8, <3>9, SeqEqual
    <3>11. Body # <<>> /\ Body[1] = i
      BY <2>2, <3>9, <3>10
    <3>12. Arrived <=> outbox[i].type # "corrupt"
      BY <2>2, <2>3, <2>8, <3>1, <3>2, <3>3, <3>10, <3>11 DEF Arrived, Unpacks
    <3> QED BY <2>4, <2>8, <3>3, <3>11, <3>12 DEF i
  <2> QED BY <1>1, <2>3, <2>7, <2>8
<1> QED BY <1>2, <1>3

\* No frame is packed, none is read.
LEMMA InitIInv == Init => IInv
<1> SUFFICES ASSUME Init PROVE IInv
  OBVIOUS
<1> USE DEF Init
<1>1. Len(ends) = 0 /\ Len(data) = 0 /\ ends \in Seq(Nat) /\ data \in Seq(Nat) /\ inbox \in Seq(Nat)
  OBVIOUS
<1>2. TypeInv
  <2>1. Len(outbox) \in Nat
    BY FramesAssumption DEF StreamsAssumption
  <2> QED BY <1>1, <2>1 DEF TypeInv
<1>3. LayoutInv
  BY <1>1 DEF LayoutInv, Start
<1>4. ReadUpTo(0)
  BY DEF ReadUpTo, Start
<1>5. ReaderInv
  BY <1>1, <1>4 DEF ReaderInv
<1> QED BY <1>2, <1>3, <1>5 DEF IInv

\* One more frame, at the end.
LEMMA PackStep == IInv /\ Pack => IInv'
<1> SUFFICES ASSUME IInv, Pack PROVE IInv'
  OBVIOUS
<1> USE DEF IInv
<1>0. PICK n : n = Len(ends) + 1
  OBVIOUS
<1>1. /\ data \in Seq(Nat) /\ ends \in Seq(Nat) /\ Len(data) \in Nat /\ Len(ends) \in Nat
      /\ n \in Nat /\ n \in 1 .. Len(outbox) /\ outbox' = outbox /\ stage = "write" /\ stage' = stage
      /\ offset' = 0 /\ inbox' = <<>> /\ outbox \in Streams
  <2>1. Len(outbox) \in Nat
    BY FramesAssumption DEF TypeInv, StreamsAssumption
  <2> QED BY <1>0, <2>1 DEF Pack, TypeInv, ReaderInv
<1>2. /\ Frame(n) \in Seq(Nat) /\ Len(Frame(n)) \in Nat \ {0}
  <2>1. /\ Frame(n) \in Seq(Nat) /\ Len(Frame(n)) = Len(Varint[outbox[n].size]) + outbox[n].size
        /\ Len(Varint[outbox[n].size]) \in Nat \ {0} /\ outbox[n].size \in Nat \ {0}
    BY <1>1, FrameBytes
  <2> QED BY <2>1
<1>3. data' = data \o Frame(n) /\ ends' = Append(ends, Len(data'))
  BY <1>0 DEF Pack
<1>4. /\ data' \in Seq(Nat) /\ Len(data') = Len(data) + Len(Frame(n)) /\ Len(data') \in Nat
      /\ \A p \in 1 .. Len(data) : data'[p] = data[p]
      /\ \A j \in 1 .. Len(Frame(n)) : data'[Len(data) + j] = Frame(n)[j]
  <2>1. /\ data \o Frame(n) \in Seq(Nat)
        /\ Len(data \o Frame(n)) = Len(data) + Len(Frame(n))
        /\ \A p \in 1 .. Len(data) + Len(Frame(n)) :
             (data \o Frame(n))[p] = IF p <= Len(data) THEN data[p] ELSE Frame(n)[p - Len(data)]
    BY <1>1, <1>2, ConcatProperties
  <2>2. ASSUME NEW p \in 1 .. Len(data) PROVE data'[p] = data[p]
    BY <1>1, <1>2, <1>3, <2>1
  <2>3. ASSUME NEW j \in 1 .. Len(Frame(n)) PROVE data'[Len(data) + j] = Frame(n)[j]
    <3>1. /\ Len(data) + j \in 1 .. Len(data) + Len(Frame(n))
          /\ ~ (Len(data) + j <= Len(data)) /\ (Len(data) + j) - Len(data) = j
      BY <1>1, <1>2
    <3> QED BY <1>3, <2>1, <3>1
  <2>4. Len(data') \in Nat
    BY <1>1, <1>2, <1>3, <2>1
  <2> QED BY <1>3, <2>1, <2>2, <2>3, <2>4
<1>5. /\ ends' \in Seq(Nat) /\ Len(ends') = n
      /\ \A i \in 1 .. Len(ends) : ends'[i] = ends[i]
      /\ ends'[n] = Len(data')
  BY <1>0, <1>1, <1>3, <1>4, AppendProperties
<1>6. /\ \A i \in 1 .. n : Start(i) \in Nat
      /\ \A i \in 1 .. Len(ends) : ends[i] \in Nat /\ ends[i] <= Start(n)
  BY <1>0, Starts
<1>7. Len(data) = Start(n)
  BY <1>0, <1>1 DEF LayoutInv
<1>8. ASSUME NEW i PROVE Frame(i)' = Frame(i)
  BY <1>1 DEF Frame, Packed
<1>9. ASSUME NEW i \in 1 .. n PROVE Start(i)' = Start(i)
  <2>1. CASE i = 1 BY <2>1 DEF Start
  <2>2. CASE i # 1
    <3>1. i - 1 \in 1 .. Len(ends)
      BY <1>0, <1>1, <2>2
    <3> QED BY <1>5, <2>2, <3>1 DEF Start
  <2> QED BY <2>1, <2>2
<1>11. TypeInv'
  BY <1>1, <1>4, <1>5 DEF TypeInv
<1>12. n \in Nat /\ Len(ends) = n - 1
  BY <1>0, <1>1
<1>10. Start(n + 1)' = Len(data')
  <2>1. n + 1 # 1 /\ (n + 1) - 1 = n
    BY <1>1, <1>12
  <2> QED BY <1>5, <2>1 DEF Start
<1>13. LayoutInv'
  <2>1. ASSUME NEW i \in 1 .. n PROVE ends'[i] = Start(i)' + Len(Frame(i)')
    <3>1. CASE i = n
      BY <1>4, <1>5, <1>7, <1>8, <1>9, <1>12, <3>1
    <3>2. CASE i # n
      <4>1. i \in 1 .. Len(ends)
        BY <1>12, <3>2
      <4> QED BY <1>5, <1>8, <1>9, <4>1 DEF LayoutInv
    <3> QED BY <3>1, <3>2
  <2>2. ASSUME NEW i \in 1 .. n, NEW k \in 1 .. n, i < k PROVE ends'[i] < ends'[k]
    <3>1. i \in 1 .. Len(ends) /\ ends'[i] = ends[i]
      BY <1>5, <1>12, <2>2
    <3>2. CASE k = n
      BY <1>1, <1>2, <1>4, <1>5, <1>6, <1>7, <3>1, <3>2
    <3>3. CASE k # n
      <4>1. k \in 1 .. Len(ends)
        BY <1>12, <3>3
      <4> QED BY <1>5, <2>2, <3>1, <4>1 DEF LayoutInv
    <3> QED BY <3>2, <3>3
  <2>3. ASSUME NEW i \in 1 .. n, NEW j \in 1 .. Len(Frame(i)), Start(i) + j <= Len(data')
        PROVE  data'[Start(i) + j] = Frame(i)[j]
    <3>1. CASE i = n
      BY <1>4, <1>7, <3>1
    <3>2. CASE i # n
      <4>1. i \in 1 .. Len(ends)
        BY <1>12, <3>2
      <4>2. Start(i) \in Nat /\ ends[i] = Start(i) + Len(Frame(i)) /\ ends[i] <= Len(data)
        BY <1>6, <1>7, <4>1 DEF LayoutInv
      <4>3. Start(i) + j \in 1 .. Len(data)
        <5>1. j \in Nat /\ 1 <= j /\ j <= Len(Frame(i)) /\ Len(Frame(i)) \in Nat
          BY <1>1, <1>12, FrameBytes
        <5>2. Start(i) + j \in Nat \ {0} /\ Start(i) + j <= ends[i]
          BY <4>2, <5>1
        <5> DEFINE p == Start(i) + j
        <5>3. p \in Nat \ {0} /\ p <= ends[i] /\ ends[i] \in Nat /\ ends[i] <= Len(data)
          BY <1>6, <4>1, <4>2, <5>2
        <5>4. p \in 1 .. Len(data)
          <6> HIDE DEF p
          <6> QED BY <1>1, <5>3
        <5> QED BY <5>4
      <4> QED BY <1>4, <4>1, <4>3 DEF LayoutInv
    <3> QED BY <3>1, <3>2
  <2>4. Len(data') <= Start(n + 1)' /\ Len(data') = Start(n + 1)'
    BY <1>4, <1>10
  <2>5. \A i \in 1 .. n : \A j \in 1 .. Len(Frame(i)') :
          Start(i)' + j <= Len(data') => data'[Start(i)' + j] = Frame(i)'[j]
    BY <1>8, <1>9, <2>3
  <2> QED BY <1>1, <1>5, <2>1, <2>2, <2>4, <2>5 DEF LayoutInv
<1>14. ReaderInv'
  <2>1. ReadUpTo(0)'
    BY <1>1 DEF ReadUpTo, Start
  <2> QED BY <1>1, <1>4, <1>5, <1>12, <2>1 DEF ReaderInv
<1> QED BY <1>11, <1>13, <1>14

\* A step that keeps the outbox, the data and the ends, and does not go back
\* to writing, keeps the frames where they are.
LEMMA LayoutKept ==
    ASSUME LayoutInv, UNCHANGED <<outbox, data, ends>>,
           stage' = "write" => stage = "write", stage = "write" => Len(ends) = Len(outbox)
    PROVE  LayoutInv' /\ \A i : Start(i)' = Start(i)
<1>1. ASSUME NEW i PROVE Frame(i)' = Frame(i) /\ Start(i)' = Start(i)
  BY DEF Frame, Packed, Start
<1>2. Start(Len(ends) + 1)' = Start(Len(ends) + 1)
  BY DEF Start
<1> QED BY <1>1, <1>2 DEF LayoutInv

\* What is left of the data is the beginning of the same frames.
LEMMA CutStep == IInv /\ Cut => IInv'
<1> SUFFICES ASSUME IInv, Cut PROVE IInv'
  OBVIOUS
<1> USE DEF IInv
<1>1. PICK e \in 0 .. (Len(data) - 1) : data' = SubSeq(data, 1, e)
  BY DEF Cut
<1>2. /\ outbox' = outbox /\ ends' = ends /\ stage' = "wire" /\ stage = "wire"
      /\ offset' = 0 /\ inbox' = <<>> /\ ends \in Seq(Nat)
      /\ data \in Seq(Nat) /\ Len(data) \in Nat /\ Len(ends) \in Nat
  BY DEF Cut, TypeInv, ReaderInv
<1>3. data' \in Seq(Nat) /\ Len(data') = e /\ \A p \in 1 .. e : data'[p] = data[p]
  <2>1. \A p \in 1 .. e : data[p] \in Nat
    BY <1>2
  <2> QED BY <1>1, <2>1, SubSeqProperties
<1>4. TypeInv'
  BY <1>2, <1>3 DEF TypeInv
<1>5. LayoutInv'
  <2>1. ASSUME NEW i PROVE Frame(i)' = Frame(i) /\ Start(i)' = Start(i)
    BY <1>2 DEF Frame, Packed, Start
  <2>2. Start(Len(ends) + 1)' = Start(Len(ends) + 1)
    BY <1>2 DEF Start
  <2>3. ASSUME NEW i \in 1 .. Len(ends), NEW j \in 1 .. Len(Frame(i)), Start(i) + j <= e
        PROVE  data'[Start(i) + j] = Frame(i)[j]
    <3>1. Start(i) \in Nat /\ i \in 1 .. Len(outbox)
      <4>1. Len(outbox) \in Nat
        BY FramesAssumption DEF TypeInv, StreamsAssumption
      <4> QED BY <1>2, <4>1, Starts DEF TypeInv
    <3>2. j \in Nat \ {0}
      BY <3>1, FrameBytes DEF TypeInv
    <3> DEFINE p == Start(i) + j
    <3>3. p \in Nat \ {0} /\ p <= e
      BY <2>3, <3>1, <3>2
    <3>4. p \in 1 .. e /\ p <= Len(data)
      <4> HIDE DEF p
      <4> QED BY <1>2, <3>3
    <3>5. data[p] = Frame(i)[j]
      BY <3>4 DEF LayoutInv
    <3> QED BY <1>3, <3>4, <3>5
  <2>4. \A i \in 1 .. Len(ends) : \A j \in 1 .. Len(Frame(i)') :
          Start(i)' + j <= Len(data') => data'[Start(i)' + j] = Frame(i)'[j]
    BY <1>3, <2>1, <2>3
  <2>5. Start(Len(ends) + 1) \in Nat /\ Len(data) <= Start(Len(ends) + 1)
    BY <1>2, Starts DEF LayoutInv
  <2>6. Len(data') <= Start(Len(ends) + 1)'
    BY <1>2, <1>3, <2>2, <2>5
  <2> QED BY <1>2, <2>1, <2>4, <2>6 DEF LayoutInv
<1>6. ReaderInv'
  <2>1. ReadUpTo(0)'
    BY <1>2 DEF ReadUpTo, Start
  <2> QED BY <1>2, <1>3, <2>1 DEF ReaderInv
<1> QED BY <1>4, <1>5, <1>6

\* Handing over the message changes none of it.
LEMMA SendStep == IInv /\ (Send \/ Receive) => IInv'
<1> SUFFICES ASSUME IInv, Send \/ Receive PROVE IInv'
  OBVIOUS
<1> USE DEF IInv
<1>1. /\ UNCHANGED <<outbox, data, ends, inbox, offset>> /\ stage' \in {"wire", "read"}
      /\ offset = 0 /\ inbox = <<>>
      /\ stage = "write" => Len(ends) = Len(outbox)
  BY DEF Send, Receive, ReaderInv
<1>2. TypeInv'
  BY <1>1 DEF TypeInv
<1>3. LayoutInv'
  BY <1>1, LayoutKept
<1>4. ReaderInv'
  <2>1. ReadUpTo(0)'
    BY <1>1 DEF ReadUpTo, Start
  <2> QED BY <1>1, <1>2, <2>1 DEF ReaderInv, TypeInv
<1> QED BY <1>2, <1>3, <1>4

\* By ArrivedFrame, one more frame, and its message if it is one.
LEMMA UnpackStep == IInv /\ Unpack => IInv'
<1> SUFFICES ASSUME IInv, Unpack PROVE IInv'
  OBVIOUS
<1> USE DEF IInv
<1>1. /\ UNCHANGED <<outbox, data, ends, stage>> /\ stage = "read" /\ Arrived
      /\ offset' = End
      /\ inbox' = IF outbox[Body[1]].type = "empty" THEN inbox ELSE Append(inbox, Body[1])
  BY DEF Unpack
<1>2. PICK r \in 0 .. Len(ends) : ReadUpTo(r)
  BY DEF ReaderInv
<1>3. /\ r < Len(ends) /\ ends[r + 1] <= Len(data) /\ outbox[r + 1].type # "corrupt"
      /\ End = ends[r + 1] /\ Body[1] = r + 1
  BY <1>1, <1>2, ArrivedFrame DEF ReadUpTo, ReaderInv
<1>4. inbox \in Seq(Nat) /\ Len(ends) \in Nat /\ r \in Nat /\ DOMAIN inbox = 1 .. Len(inbox) /\ Len(inbox) \in Nat
  BY DEF TypeInv
<1>5. LayoutInv' /\ \A i : Start(i)' = Start(i)
  BY <1>1, LayoutKept
<1>6. ends[r + 1] \in Nat /\ Start((r + 1) + 1) = ends[r + 1] /\ r + 1 \in 1 .. Len(ends)
  BY <1>3, <1>4, Starts
<1>7. inbox' \in Seq(Nat) /\ DOMAIN inbox' = 1 .. Len(inbox') /\ Len(inbox') \in Nat
  BY <1>1, <1>3, <1>4, AppendProperties
<1>8. TypeInv'
  BY <1>1, <1>3, <1>6, <1>7 DEF TypeInv
<1>9. {inbox[k] : k \in DOMAIN inbox} = {i \in 1 .. r : outbox[i].type # "empty"}
  BY <1>2 DEF ReadUpTo
<1>10. CASE outbox[r + 1].type = "empty"
  <2>1. inbox' = inbox
    BY <1>1, <1>3, <1>10
  <2>2. ReadUpTo(r + 1)'
    <3>1. {i \in 1 .. r : outbox[i].type # "empty"} = {i \in 1 .. r + 1 : outbox[i].type # "empty"}
      BY <1>4, <1>10
    <3>2. \A i \in 1 .. r + 1 : outbox[i].type # "corrupt"
      BY <1>2, <1>3, <1>4 DEF ReadUpTo
    <3> QED BY <1>1, <1>3, <1>5, <1>6, <1>9, <2>1, <3>1, <3>2 DEF ReadUpTo
  <2> QED BY <1>1, <1>3, <1>5, <1>6, <1>8, <2>1, <2>2 DEF ReaderInv
<1>11. CASE outbox[r + 1].type # "empty"
  <2>1. inbox' = Append(inbox, r + 1)
    BY <1>1, <1>3, <1>11
  <2>2. /\ Len(inbox') = Len(inbox) + 1 /\ inbox'[Len(inbox) + 1] = r + 1
        /\ \A k \in 1 .. Len(inbox) : inbox'[k] = inbox[k]
    BY <1>4, <2>1, AppendProperties
  <2>3. {inbox'[k] : k \in DOMAIN inbox'} = {inbox[k] : k \in DOMAIN inbox} \cup {r + 1}
    <3>1. DOMAIN inbox' = DOMAIN inbox \cup {Len(inbox) + 1}
      BY <1>4, <1>7, <2>2
    <3>2. \A k \in DOMAIN inbox : inbox'[k] = inbox[k]
      BY <1>4, <2>2
    <3> QED BY <2>2, <3>1, <3>2
  <2>4. ReadUpTo(r + 1)'
    <3>1. {i \in 1 .. r : outbox[i].type # "empty"} \cup {r + 1} = {i \in 1 .. r + 1 : outbox[i].type # "empty"}
      BY <1>4, <1>11
    <3>2. \A i \in 1 .. r + 1 : outbox[i].type # "corrupt"
      BY <1>2, <1>3, <1>4 DEF ReadUpTo
    <3> QED BY <1>1, <1>3, <1>5, <1>6, <1>9, <2>3, <3>1, <3>2 DEF ReadUpTo
  <2>5. ASSUME NEW j \in DOMAIN inbox', NEW k \in DOMAIN inbox', j < k PROVE inbox'[j] < inbox'[k]
    <3>1. j \in DOMAIN inbox /\ inbox'[j] = inbox[j] /\ inbox[j] \in Nat
      BY <1>4, <1>7, <2>2, <2>5
    <3>2. CASE k \in DOMAIN inbox
      BY <1>4, <2>2, <2>5, <3>1, <3>2 DEF ReaderInv
    <3>3. CASE k \notin DOMAIN inbox
      <4>1. inbox'[k] = r + 1
        BY <1>4, <1>7, <2>2, <3>3
      <4>2. inbox[j] \in 1 .. r
        BY <1>9, <3>1
      <4> QED BY <1>4, <3>1, <4>1, <4>2
    <3> QED BY <3>2, <3>3
  <2> QED BY <1>1, <1>3, <1>5, <1>6, <1>8, <2>4, <2>5 DEF ReaderInv
<1> QED BY <1>5, <1>8, <1>10, <1>11

\* The reader stays where it is.
LEMMA BreakStep == IInv /\ (Break \/ UNCHANGED vars) => IInv'
<1> SUFFICES ASSUME IInv, Break \/ UNCHANGED vars PROVE IInv'
  OBVIOUS
<1> USE DEF IInv
<1>1. /\ UNCHANGED <<outbox, data, ends, inbox, offset>> /\ stage' \in {stage, "done"}
      /\ stage' # stage => stage = "read" /\ stage' = "done" /\ ~Arrived
  BY DEF Break, vars
<1>2. TypeInv'
  BY <1>1 DEF TypeInv
<1>3. LayoutInv' /\ \A i : Start(i)' = Start(i)
  <2>1. CASE stage' = stage
    <3>1. ASSUME NEW i PROVE Frame(i)' = Frame(i) /\ Start(i)' = Start(i)
      BY <1>1 DEF Frame, Packed, Start
    <3>2. Start(Len(ends) + 1)' = Start(Len(ends) + 1)
      BY <1>1 DEF Start
    <3> QED BY <1>1, <2>1, <3>1, <3>2 DEF LayoutInv
  <2>2. CASE stage' # stage
    BY <1>1, <2>2, LayoutKept
  <2> QED BY <2>1, <2>2
<1>4. Arrived' = Arrived
  BY <1>1 DEF Arrived, Length, End, Body, Unpacks, Packed
<1>5. PICK r \in 0 .. Len(ends) : ReadUpTo(r)
  BY DEF ReaderInv
<1>6. ReadUpTo(r)'
  BY <1>1, <1>3, <1>5 DEF ReadUpTo
<1>7. ReaderInv'
  BY <1>1, <1>4, <1>6 DEF ReaderInv
<1> QED BY <1>2, <1>3, <1>7

\* By ArrivedFrame again, the frame at which the reader stopped was cut or does
\* not unpack; the frames before it arrived, those after it are not looked at.
LEMMA IInvSurvives ==
    ASSUME IInv PROVE FramesSurvive
<1> SUFFICES ASSUME stage = "done"
             PROVE  /\ \A j, k \in DOMAIN inbox : j < k => inbox[j] < inbox[k]
                    /\ {inbox[k] : k \in DOMAIN inbox} =
                         {i \in DOMAIN outbox : /\ ends[i] <= Len(data)
                                                /\ \A k \in 1 .. i : outbox[k].type # "corrupt"
                                                /\ outbox[i].type # "empty"}
  BY DEF FramesSurvive
<1> USE DEF IInv
<1>1. PICK r \in 0 .. Len(ends) : ReadUpTo(r)
  BY DEF ReaderInv
<1>2. /\ Len(ends) = Len(outbox) /\ Len(ends) \in Nat /\ r \in Nat /\ DOMAIN outbox = 1 .. Len(outbox)
      /\ Len(data) \in Nat /\ offset \in Nat /\ \A i \in 1 .. Len(ends) : ends[i] \in Nat
  BY FramesAssumption DEF TypeInv, LayoutInv, StreamsAssumption
<1>3. ~ (r < Len(ends) /\ ends[r + 1] <= Len(data) /\ outbox[r + 1].type # "corrupt")
  BY <1>1, ArrivedFrame DEF ReadUpTo, ReaderInv
<1>4. ASSUME NEW i \in 1 .. Len(ends), i <= r
      PROVE  ends[i] <= Len(data) /\ \A k \in 1 .. i : outbox[k].type # "corrupt"
  <2>1. r \in 1 .. Len(ends) /\ offset = ends[r] /\ offset <= Len(data)
    BY <1>1, <1>2, <1>4, Starts DEF ReadUpTo, ReaderInv
  <2>2. ends[i] <= ends[r]
    <3>1. CASE i = r BY <1>2, <2>1, <3>1
    <3>2. CASE i # r
      <4>1. ends[i] < ends[r]
        BY <1>2, <1>4, <2>1, <3>2 DEF LayoutInv
      <4> QED BY <1>2, <2>1, <4>1
    <3> QED BY <3>1, <3>2
  <2>3. ends[i] <= Len(data)
    BY <1>2, <2>1, <2>2
  <2> QED BY <1>1, <1>2, <1>4, <2>3 DEF ReadUpTo
<1>5. ASSUME NEW i \in 1 .. Len(ends), ~ (i <= r),
             ends[i] <= Len(data), \A k \in 1 .. i : outbox[k].type # "corrupt"
      PROVE  FALSE
  <2>1. r + 1 \in 1 .. Len(ends) /\ r + 1 \in 1 .. i /\ r < Len(ends)
    BY <1>2, <1>5
  <2>2. ends[r + 1] <= ends[i]
    <3>1. CASE i = r + 1 BY <1>2, <2>1, <3>1
    <3>2. CASE i # r + 1
      <4>1. ends[r + 1] < ends[i]
        BY <1>2, <1>5, <2>1, <3>2 DEF LayoutInv
      <4> QED BY <1>2, <2>1, <4>1
    <3> QED BY <3>1, <3>2
  <2>3. ends[r + 1] <= Len(data)
    BY <1>2, <1>5, <2>1, <2>2
  <2> QED BY <1>3, <1>5, <2>1, <2>3
<1>6. {i \in 1 .. r : outbox[i].type # "empty"} =
        {i \in DOMAIN outbox : /\ ends[i] <= Len(data)
                               /\ \A k \in 1 .. i : outbox[k].type # "corrupt"
                               /\ outbox[i].type # "empty"}
  BY <1>2, <1>4, <1>5
<1> QED BY <1>1, <1>6 DEF ReadUpTo, ReaderInv

\* Every step keeps the invariant.
LEMMA NextIInv == IInv /\ [Next]_vars => IInv'
  BY PackStep, CutStep, SendStep, UnpackStep, BreakStep DEF Next

\* The invariant of the frames and of the receiver's way through them.
THEOREM Layout == Spec => []IInv
<1>1. Init => IInv
  BY InitIInv
<1>2. IInv /\ [Next]_vars => IInv'
  BY NextIInv
<1> QED BY <1>1, <1>2, PTL DEF Spec

\* Whatever is sent and wherever it is cut, the messages unpacked are those
\* whose frames arrived whole before the first that does not unpack, in order.
THEOREM Frames_Survive == Spec => []FramesSurvive
<1>1. IInv => FramesSurvive
  BY IInvSurvives
<1> QED BY <1>1, Layout, PTL

=============================================================================
