------------------------------ MODULE Recursion ------------------------------
(***************************************************************************)
(* Induction over numbers and functions defined by recursion over them, as  *)
(* facts about sets and functions: what is computed in as many steps as a   *)
(* list has elements.                                                       *)
(***************************************************************************)
EXTENDS Integers, Functions, SequencesExt, FiniteSetsExt, SequenceTheorems, FiniteSetTheorems,
        WellFoundedInduction, TLAPS

\* Of some numbers one is the least.
LEMMA LeastExists ==
  ASSUME NEW W, W \subseteq Nat, W # {}
  PROVE  \E i \in W : \A j \in W : i <= j
<1>1. PICK n \in W : \A m \in W : ~(<<m, n>> \in OpToRel(<, Nat))
  BY NatLessThanWellFounded, WFMin
<1>2. \A m \in W : ~(m < n)
  BY <1>1 DEF OpToRel
<1> QED BY <1>2

\* A set of numbers with zero and every successor has all of them.
LEMMA SetInduction ==
  ASSUME NEW G, 0 \in G, \A n \in Nat : n \in G => n + 1 \in G
  PROVE  Nat \subseteq G
<1> DEFINE Bad == Nat \ G
<1> SUFFICES ASSUME Bad # {} PROVE FALSE
  OBVIOUS
<1>1. PICK n \in Bad : \A m \in Bad : ~(<<m, n>> \in OpToRel(<, Nat))
  <2> HIDE DEF Bad
  <2>1. Bad \subseteq Nat
    BY DEF Bad
  <2> QED BY <2>1, NatLessThanWellFounded, WFMin
<1>2. n # 0 /\ n - 1 \in Nat /\ n - 1 < n
  OBVIOUS
<1>3. n - 1 \notin Bad
  BY <1>1, <1>2 DEF OpToRel
<1>4. n = (n - 1) + 1
  BY <1>2
<1> QED BY <1>2, <1>3, <1>4

\* The same up to a bound.
LEMMA BoundedInduction ==
  ASSUME NEW N \in Nat, NEW G, 0 \in G, \A n \in 1 .. N : n - 1 \in G => n \in G
  PROVE  0 .. N \subseteq G
<1> DEFINE H == {n \in Nat : n <= N => n \in G}
<1>1. 0 \in H
  OBVIOUS
<1>2. \A n \in Nat : n \in H => n + 1 \in H
  <2> SUFFICES ASSUME NEW n \in Nat, n \in H, n + 1 <= N PROVE n + 1 \in G
    OBVIOUS
  <2>1. n + 1 \in 1 .. N /\ (n + 1) - 1 = n /\ n \in G
    OBVIOUS
  <2> QED BY <2>1
<1> HIDE DEF H
<1>3. Nat \subseteq H
  BY <1>1, <1>2, SetInduction
<1> QED BY <1>3 DEF H

\* From base, step leads N times to a value of D.
Stays(D, base, N, step) ==
    /\ N \in Nat /\ base \in D
    /\ \A n \in 1 .. N : \A v \in D : step[<<n, v>>] \in D

\* f has these values.
Computes(f, D, base, N, step) ==
    /\ f \in [0 .. N -> D]
    /\ f[0] = base
    /\ \A n \in 1 .. N : f[n] = step[<<n, f[n - 1]>>]

\* A function whose value at each number follows from the value before it exists.
LEMMA RecursionExists ==
  ASSUME NEW D, NEW base, NEW N, NEW step, Stays(D, base, N, step)
  PROVE  \E f : Computes(f, D, base, N, step)
<1> USE DEF Stays
<1> DEFINE Upto(n, f) == f[0] = base /\ \A k \in 1 .. n : f[k] = step[<<k, f[k - 1]>>]
           G == {n \in 0 .. N : \E f \in [0 .. n -> D] : Upto(n, f)}
<1>1. 0 \in G
  <2> DEFINE f == [k \in 0 .. 0 |-> base]
  <2>1. f \in [0 .. 0 -> D] /\ Upto(0, f)
    OBVIOUS
  <2> HIDE DEF f
  <2>2. \E g \in [0 .. 0 -> D] : Upto(0, g)
    BY <2>1
  <2> QED BY <2>2
<1>2. ASSUME NEW n \in 1 .. N, n - 1 \in G PROVE n \in G
  <2>1. PICK f \in [0 .. n - 1 -> D] : Upto(n - 1, f)
    BY <1>2
  <2> DEFINE h == [k \in 0 .. n |-> IF k = n THEN step[<<n, f[n - 1]>>] ELSE f[k]]
  <2>2. f[n - 1] \in D
    BY <2>1
  <2>3. h \in [0 .. n -> D]
    BY <2>1, <2>2
  <2>4. h[0] = base
    BY <2>1
  <2>5. ASSUME NEW k \in 1 .. n PROVE h[k] = step[<<k, h[k - 1]>>]
    <3>1. k - 1 \in 0 .. n - 1 /\ h[k - 1] = f[k - 1]
      OBVIOUS
    <3>2. CASE k = n
      <4>1. h[k] = step[<<n, f[n - 1]>>]
        BY <3>2
      <4>2. h[k - 1] = f[n - 1]
        BY <3>1, <3>2
      <4> HIDE DEF h
      <4> QED BY <3>2, <4>1, <4>2
    <3>3. CASE k # n
      <4>1. k \in 1 .. n - 1 /\ h[k] = f[k]
        BY <3>3
      <4> QED BY <2>1, <3>1, <4>1
    <3> QED BY <3>2, <3>3
  <2> HIDE DEF h
  <2>6. Upto(n, h)
    BY <2>4, <2>5
  <2>7. \E g \in [0 .. n -> D] : Upto(n, g)
    BY <2>3, <2>6
  <2> QED BY <2>7
<1> HIDE DEF G
<1>3. 0 .. N \subseteq G
  BY <1>1, <1>2, BoundedInduction
<1>4. N \in G
  BY <1>3
<1> QED BY <1>4 DEF G, Computes

\* Numbers up to a bound have a highest one.
LEMMA GreatestExists ==
  ASSUME NEW S, S # {}, NEW N \in Nat, S \subseteq 0 .. N
  PROVE  \E x \in S : \A y \in S : x >= y
<1> DEFINE G == {n \in Nat : S \subseteq 0 .. n => \E x \in S : \A y \in S : x >= y}
<1>1. 0 \in G
  <2> SUFFICES ASSUME S \subseteq 0 .. 0 PROVE \E x \in S : \A y \in S : x >= y
    OBVIOUS
  <2>1. \A y \in S : y = 0
    OBVIOUS
  <2>2. PICK x \in S : TRUE
    OBVIOUS
  <2>3. \A y \in S : x >= y
    BY <2>1, <2>2
  <2> QED BY <2>2, <2>3
<1>2. ASSUME NEW n \in Nat, n \in G PROVE n + 1 \in G
  <2> SUFFICES ASSUME S \subseteq 0 .. n + 1 PROVE \E x \in S : \A y \in S : x >= y
    OBVIOUS
  <2>1. CASE n + 1 \in S
    <3>1. \A y \in S : n + 1 >= y
      OBVIOUS
    <3> QED BY <2>1, <3>1
  <2>2. CASE n + 1 \notin S
    <3>1. S \subseteq 0 .. n
      BY <2>2
    <3> QED BY <1>2, <3>1
  <2> QED BY <2>1, <2>2
<1> HIDE DEF G
<1>3. N \in G
  BY <1>1, <1>2, SetInduction
<1> QED BY <1>3 DEF G

-----------------------------------------------------------------------------
(* Finite sets.                                                            *)

\* What holds of a set when it holds of its proper subsets holds of all subsets.
LEMMA SubsetInduction ==
  ASSUME NEW D, IsFiniteSet(D), NEW G,
         \A P \in SUBSET D : (\A Q \in SUBSET P : Q # P => Q \in G) => P \in G
  PROVE  SUBSET D \subseteq G
<1> DEFINE H == {n \in Nat : \A P \in SUBSET D : Cardinality(P) < n => P \in G}
<1>1. \A P \in SUBSET D : IsFiniteSet(P) /\ Cardinality(P) \in Nat
  BY FS_Subset, FS_CardinalityType
<1>2. 0 \in H
  BY <1>1
<1>3. ASSUME NEW n \in Nat, n \in H PROVE n + 1 \in H
  <2> SUFFICES ASSUME NEW P \in SUBSET D, Cardinality(P) < n + 1 PROVE P \in G
    OBVIOUS
  <2>1. ASSUME NEW Q \in SUBSET P, Q # P PROVE Q \in G
    <3>1. Cardinality(Q) <= Cardinality(P) /\ Cardinality(Q) # Cardinality(P)
      BY <1>1, <2>1, FS_Subset
    <3>2. Q \in SUBSET D /\ Cardinality(Q) < n
      BY <1>1, <3>1
    <3> QED BY <1>3, <3>2
  <2> QED BY <2>1
<1> HIDE DEF H
<1>4. Nat \subseteq H
  BY <1>2, <1>3, SetInduction
<1>5. ASSUME NEW P \in SUBSET D PROVE P \in G
  <2>1. Cardinality(P) + 1 \in H /\ Cardinality(P) < Cardinality(P) + 1
    BY <1>1, <1>4
  <2> QED BY <2>1 DEF H
<1> QED BY <1>5

\* A total order has a highest member in every finite set.
LEMMA HighestExists ==
  ASSUME NEW D, IsFiniteSet(D), D # {}, NEW R,
         \A x, y \in D : x # y => <<x, y>> \in R \/ <<y, x>> \in R,
         \A x, y, z \in D : <<x, y>> \in R /\ <<y, z>> \in R => <<x, z>> \in R
  PROVE  \E x \in D : \A y \in D \ {x} : <<x, y>> \in R
<1> DEFINE G == {P \in SUBSET D : P # {} => \E x \in P : \A y \in P \ {x} : <<x, y>> \in R}
<1>1. ASSUME NEW P \in SUBSET D, \A Q \in SUBSET P : Q # P => Q \in G
      PROVE  P \in G
  <2> SUFFICES ASSUME NEW p \in P PROVE \E x \in P : \A y \in P \ {x} : <<x, y>> \in R
    OBVIOUS
  <2> DEFINE Q == P \ {p}
  <2>1. CASE Q = {}
    BY <2>1
  <2>2. CASE Q # {}
    <3>1. Q \in G
      <4>1. Q \in SUBSET P /\ Q # P
        OBVIOUS
      <4> HIDE DEF Q, G
      <4> QED BY <1>1, <4>1
    <3>2. PICK x \in Q : \A y \in Q \ {x} : <<x, y>> \in R
      BY <2>2, <3>1
    <3>3. CASE <<x, p>> \in R
      BY <3>2, <3>3
    <3>4. CASE <<p, x>> \in R
      BY <3>2, <3>4
    <3> QED BY <3>2, <3>3, <3>4
  <2> QED BY <2>1, <2>2
<1> HIDE DEF G
<1>2. SUBSET D \subseteq G
  BY <1>1, SubsetInduction
<1> QED BY <1>2 DEF G

Picked(P) == CHOOSE p \in P : TRUE

\* f goes through a set, member by member, from base and by step.
GoesThrough(f, D, base, step) ==
    /\ f[{}] = base
    /\ \A P \in SUBSET D :
          P # {} => f[P] = step[<<f[P \ {Picked(P)}], Picked(P)>>]

Gathers(f, D, V, base, step) == f \in [SUBSET D -> V] /\ GoesThrough(f, D, base, step)

Gatherable(D, V, base, step) ==
    /\ IsFiniteSet(D) /\ base \in V
    /\ \A v \in V : \A p \in D : step[<<v, p>>] \in V

\* There is a function that gathers over the finite subsets of a set.
LEMMA GatheringExists ==
  ASSUME NEW D, NEW V, NEW base, NEW step, Gatherable(D, V, base, step)
  PROVE  \E f : Gathers(f, D, V, base, step)
<1> DEFINE Small(n) == {P \in SUBSET D : Cardinality(P) <= n}
           Value(f, P) == IF P = {} THEN base ELSE step[<<f[P \ {Picked(P)}], Picked(P)>>]
           Solves(f, n) == f \in [Small(n) -> V] /\ \A P \in Small(n) : f[P] = Value(f, P)
           H == {n \in Nat : \E f : Solves(f, n)}
<1>1. \A P \in SUBSET D : IsFiniteSet(P) /\ Cardinality(P) \in Nat
  BY FS_Subset, FS_CardinalityType DEF Gatherable
<1>2. ASSUME NEW P \in SUBSET D, P # {}
      PROVE  /\ Picked(P) \in P /\ P \ {Picked(P)} \in SUBSET D
             /\ Cardinality(P \ {Picked(P)}) = Cardinality(P) - 1
  <2>1. Picked(P) \in P
    BY <1>2 DEF Picked
  <2> QED BY <1>1, <2>1, FS_RemoveElement
<1>3. 0 \in H
  <2> DEFINE f == [P \in Small(0) |-> base]
  <2>1. ASSUME NEW P \in Small(0), P # {} PROVE FALSE
    <3>1. P \ {Picked(P)} \in SUBSET D /\ Cardinality(P \ {Picked(P)}) = Cardinality(P) - 1
      BY <1>2, <2>1
    <3>2. Cardinality(P \ {Picked(P)}) \in Nat /\ Cardinality(P) \in Nat /\ Cardinality(P) <= 0
      BY <1>1, <3>1
    <3> QED BY <3>1, <3>2
  <2>2. Solves(f, 0)
    BY <2>1 DEF Gatherable
  <2> HIDE DEF f, Solves
  <2> QED BY <2>2
<1>4. ASSUME NEW n \in Nat, n \in H PROVE n + 1 \in H
  <2>1. PICK f : Solves(f, n)
    BY <1>4
  <2> DEFINE h == [P \in Small(n + 1) |-> Value(f, P)]
  <2>2. ASSUME NEW P \in Small(n + 1), P # {}
        PROVE  P \ {Picked(P)} \in Small(n) /\ P \ {Picked(P)} \in Small(n + 1) /\ Picked(P) \in D
    BY <1>1, <1>2, <2>2
  <2>3. \A P \in Small(n) : P \in Small(n + 1) /\ h[P] = f[P]
    BY <1>1, <2>1
  <2>4. h \in [Small(n + 1) -> V]
    <3>1. ASSUME NEW P \in Small(n + 1) PROVE Value(f, P) \in V
      <4>1. CASE P = {}
        BY <4>1 DEF Gatherable
      <4>2. CASE P # {}
        <5>1. f[P \ {Picked(P)}] \in V
          BY <2>1, <2>2, <4>2
        <5> QED BY <2>2, <4>2, <5>1 DEF Gatherable
      <4> QED BY <4>1, <4>2
    <3> QED BY <3>1
  <2>5. ASSUME NEW P \in Small(n + 1) PROVE h[P] = Value(h, P)
    <3>1. CASE P = {}
      BY <3>1
    <3>2. CASE P # {}
      <4>1. h[P \ {Picked(P)}] = f[P \ {Picked(P)}]
        BY <2>2, <2>3, <3>2
      <4>2. h[P] = Value(f, P)
        OBVIOUS
      <4> HIDE DEF h
      <4> QED BY <3>2, <4>1, <4>2
    <3> QED BY <3>1, <3>2
  <2>6. Solves(h, n + 1)
    BY <2>4, <2>5
  <2> HIDE DEF h, Solves
  <2> QED BY <2>6
<1> HIDE DEF H
<1>5. Nat \subseteq H
  BY <1>3, <1>4, SetInduction
<1>6. Cardinality(D) \in Nat /\ Small(Cardinality(D)) = SUBSET D
  <2>1. \A P \in SUBSET D : Cardinality(P) <= Cardinality(D)
    BY FS_Subset DEF Gatherable
  <2> QED BY <1>1, <2>1
<1>7. PICK f : Solves(f, Cardinality(D))
  BY <1>5, <1>6 DEF H
<1>8. Gathers(f, D, V, base, step)
  BY <1>6, <1>7 DEF Gathers, GoesThrough
<1> QED BY <1>8

\* Of all functions that satisfy the equations, on a part of the set too, there is one.
LEMMA GatheringIsUnique ==
  ASSUME NEW D, NEW V, NEW base, NEW step, Gatherable(D, V, base, step),
         NEW f, Gathers(f, D, V, base, step), NEW E \in SUBSET D,
         NEW g, GoesThrough(g, E, base, step)
  PROVE  \A P \in SUBSET E : g[P] = f[P]
<1> DEFINE G == {P \in SUBSET E : g[P] = f[P]}
<1>1. ASSUME NEW P \in SUBSET E, \A Q \in SUBSET P : Q # P => Q \in G
      PROVE  P \in G
  <2>1. CASE P = {}
    BY <2>1 DEF Gathers, GoesThrough
  <2>2. CASE P # {}
    <3>1. Picked(P) \in P
      BY <2>2 DEF Picked
    <3>2. P \ {Picked(P)} \in G
      BY <1>1, <3>1
    <3>3. g[P] = step[<<g[P \ {Picked(P)}], Picked(P)>>]
      BY <2>2 DEF GoesThrough
    <3>4. f[P] = step[<<f[P \ {Picked(P)}], Picked(P)>>]
      BY <2>2 DEF Gathers, GoesThrough
    <3>5. g[P \ {Picked(P)}] = f[P \ {Picked(P)}]
      BY <3>2
    <3> QED BY <3>3, <3>4, <3>5
  <2> QED BY <2>1, <2>2
<1>2. IsFiniteSet(E)
  BY FS_Subset DEF Gatherable
<1> HIDE DEF G
<1>3. SUBSET E \subseteq G
  BY <1>1, <1>2, SubsetInduction
<1> QED BY <1>3 DEF G

\* Where two members may be exchanged, any member may be the last.
LEMMA AnyOrder ==
  ASSUME NEW D, NEW V, NEW base, NEW step, Gatherable(D, V, base, step),
         NEW f, Gathers(f, D, V, base, step),
         \A v \in V : \A p, q \in D :
             step[<<step[<<v, p>>], q>>] = step[<<step[<<v, q>>], p>>]
  PROVE  \A P \in SUBSET D : \A p \in P : f[P] = step[<<f[P \ {p}], p>>]
<1> DEFINE G == {P \in SUBSET D : \A p \in P : f[P] = step[<<f[P \ {p}], p>>]}
<1>1. ASSUME NEW P \in SUBSET D, \A Q \in SUBSET P : Q # P => Q \in G
      PROVE  P \in G
  <2> SUFFICES ASSUME NEW p \in P PROVE f[P] = step[<<f[P \ {p}], p>>]
    OBVIOUS
  <2> DEFINE c == Picked(P)
  <2>1. c \in P /\ f[P] = step[<<f[P \ {c}], c>>]
    BY DEF Picked, Gathers, GoesThrough
  <2> HIDE DEF c
  <2>2. CASE p = c
    BY <2>1, <2>2
  <2>3. CASE p # c
    <3> DEFINE Q == P \ {c, p}
    <3>1. P \ {c} \in G /\ p \in P \ {c} /\ (P \ {c}) \ {p} = Q
      BY <1>1, <2>1, <2>3
    <3>2. P \ {p} \in G /\ c \in P \ {p} /\ (P \ {p}) \ {c} = Q
      BY <1>1, <2>1, <2>3
    <3>3. f[P \ {c}] = step[<<f[(P \ {c}) \ {p}], p>>]
      BY <3>1
    <3>4. f[P \ {p}] = step[<<f[(P \ {p}) \ {c}], c>>]
      BY <3>2
    <3>5. f[Q] \in V
      BY DEF Gathers, GoesThrough
    <3> HIDE DEF Q
    <3>6. f[P \ {c}] = step[<<f[Q], p>>] /\ f[P \ {p}] = step[<<f[Q], c>>]
      BY <3>1, <3>2, <3>3, <3>4
    <3> QED BY <2>1, <3>5, <3>6
  <2> QED BY <2>2, <2>3
<1> HIDE DEF G
<1>2. SUBSET D \subseteq G
  BY <1>1, SubsetInduction DEF Gatherable
<1> QED BY <1>2 DEF G

-----------------------------------------------------------------------------
(* Lists.                                                                  *)

LEMMA Elements ==
  ASSUME NEW S, NEW q \in Seq(S), NEW x
  PROVE  x \in Range(q) <=> \E i \in 1 .. Len(q) : q[i] = x
<1>1. DOMAIN q = 1 .. Len(q)
  OBVIOUS
<1> QED BY <1>1 DEF Range

\* The elements of two lists, one after the other.
LEMMA Concatenation ==
  ASSUME NEW S, NEW p \in Seq(S), NEW q \in Seq(S)
  PROVE  /\ p \o q \in Seq(S)
         /\ Len(p) \in Nat /\ Len(q) \in Nat /\ Len(p \o q) = Len(p) + Len(q)
         /\ \A i \in 1 .. Len(p) : (p \o q)[i] = p[i]
         /\ \A i \in 1 .. Len(q) : (p \o q)[Len(p) + i] = q[i]
  OBVIOUS

\* The elements of a list over a set are in it.
LEMMA ElementsAreMembers ==
  ASSUME NEW S, NEW q \in Seq(S)
  PROVE  Range(q) \subseteq S
  BY DEF Range

\* The elements of a list are its head and those of its tail.
LEMMA ElementsOfTail ==
  ASSUME NEW S, NEW q \in Seq(S), q # <<>>
  PROVE  /\ Head(q) \in S /\ Tail(q) \in Seq(S)
         /\ Range(q) = {Head(q)} \cup Range(Tail(q))
<1>1. Head(q) \in S /\ Tail(q) \in Seq(S) /\ Len(q) \in Nat \ {0}
  OBVIOUS
<1>2. Len(Tail(q)) = Len(q) - 1 /\ \A i \in 1 .. Len(q) - 1 : Tail(q)[i] = q[i + 1]
  OBVIOUS
<1>3. \A x : x \in Range(q) <=> \E i \in 1 .. Len(q) : q[i] = x
  BY Elements
<1>4. \A x : x \in Range(Tail(q)) <=> \E i \in 1 .. Len(q) - 1 : q[i + 1] = x
  <2>1. \A x : x \in Range(Tail(q)) <=> \E i \in 1 .. Len(Tail(q)) : Tail(q)[i] = x
    BY <1>1, Elements
  <2> QED BY <1>2, <2>1
<1>5. ASSUME NEW x, NEW i \in 1 .. Len(q), q[i] = x
      PROVE  x = Head(q) \/ x \in Range(Tail(q))
  <2>1. CASE i = 1
    BY <1>5, <2>1
  <2>2. CASE i # 1
    <3>1. i - 1 \in 1 .. Len(q) - 1 /\ q[(i - 1) + 1] = x
      BY <1>1, <1>5, <2>2
    <3> QED BY <1>4, <3>1
  <2> QED BY <2>1, <2>2
<1>6. ASSUME NEW i \in 1 .. Len(q) - 1
      PROVE  q[i + 1] \in Range(q)
  BY <1>1, <1>3, <1>6
<1>7. Head(q) \in Range(q)
  BY <1>1, <1>3
<1> QED BY <1>1, <1>3, <1>4, <1>5, <1>6, <1>7

\* The elements of two lists together.
LEMMA ElementsOfConcatenation ==
  ASSUME NEW S, NEW p \in Seq(S), NEW q \in Seq(S)
  PROVE  p \o q \in Seq(S) /\ Range(p \o q) = Range(p) \cup Range(q)
<1>1. /\ p \o q \in Seq(S) /\ Len(p \o q) = Len(p) + Len(q) /\ Len(p) \in Nat /\ Len(q) \in Nat
      /\ \A i \in 1 .. Len(p) : (p \o q)[i] = p[i]
      /\ \A i \in 1 .. Len(q) : (p \o q)[Len(p) + i] = q[i]
  OBVIOUS
<1> DEFINE pq == p \o q
<1>5. /\ \A x : x \in Range(p) <=> \E i \in 1 .. Len(p) : p[i] = x
      /\ \A x : x \in Range(q) <=> \E i \in 1 .. Len(q) : q[i] = x
      /\ \A x : x \in Range(pq) <=> \E i \in 1 .. Len(pq) : pq[i] = x
  BY <1>1, Elements
<1>2. ASSUME NEW i \in 1 .. Len(pq)
      PROVE  pq[i] \in Range(p) \cup Range(q)
  <2>1. CASE i <= Len(p)
    BY <1>1, <1>5, <2>1
  <2>2. CASE i > Len(p)
    <3>1. i - Len(p) \in 1 .. Len(q) /\ pq[i] = q[i - Len(p)]
      BY <1>1, <2>2
    <3> QED BY <1>5, <3>1
  <2> QED BY <1>1, <2>1, <2>2
<1>3. ASSUME NEW i \in 1 .. Len(p)
      PROVE  p[i] \in Range(pq)
  <2>1. i \in 1 .. Len(pq) /\ pq[i] = p[i]
    BY <1>1
  <2> QED BY <1>5, <2>1
<1>4. ASSUME NEW i \in 1 .. Len(q)
      PROVE  q[i] \in Range(pq)
  <2>1. Len(p) + i \in 1 .. Len(pq) /\ pq[Len(p) + i] = q[i]
    BY <1>1
  <2> QED BY <1>5, <2>1
<1>6. pq \in Seq(S)
  BY <1>1
<1> HIDE DEF pq
<1>7. Range(pq) = Range(p) \cup Range(q)
  BY <1>2, <1>3, <1>4, <1>5
<1> QED BY <1>6, <1>7 DEF pq

\* The elements of a list and one more, which may be new.
LEMMA ElementsOfAppend ==
  ASSUME NEW S, NEW q \in Seq(S), NEW e \in S
  PROVE  /\ Append(q, e) \in Seq(S) /\ Range(Append(q, e)) = Range(q) \cup {e}
         /\ IsInjective(q) /\ e \notin Range(q) => IsInjective(Append(q, e))
<1>1. /\ Append(q, e) \in Seq(S) /\ Len(Append(q, e)) = Len(q) + 1 /\ Len(q) \in Nat
      /\ \A i \in 1 .. Len(q) : Append(q, e)[i] = q[i]
      /\ Append(q, e)[Len(q) + 1] = e
  OBVIOUS
<1>2. DOMAIN Append(q, e) = 1 .. Len(q) \cup {Len(q) + 1} /\ DOMAIN q = 1 .. Len(q)
  BY <1>1
<1>3. Range(Append(q, e)) = Range(q) \cup {e}
  BY <1>1, <1>2 DEF Range
<1>4. ASSUME IsInjective(q), e \notin Range(q)
      PROVE  IsInjective(Append(q, e))
  <2>1. \A i \in 1 .. Len(q) : q[i] # e
    BY <1>2, <1>4 DEF Range
  <2> QED BY <1>1, <1>2, <1>4, <2>1 DEF IsInjective
<1> QED BY <1>1, <1>3, <1>4

\* A function on 1 .. n is a sequence of its values.
LEMMA FunctionsAreLists ==
  ASSUME NEW n \in Nat, NEW S, NEW q, q = [i \in 1 .. n |-> q[i]], \A i \in 1 .. n : q[i] \in S
  PROVE  q \in Seq(S) /\ Len(q) = n
<1>1. q \in [1 .. n -> S]
  OBVIOUS
<1> QED BY <1>1

\* FlattenSeq puts the sequences of a sequence together one after the other.
LEMMA FlattenSteps ==
  ASSUME NEW S, NEW q \in Seq(Seq(S))
  PROVE  \E f \in [0 .. Len(q) -> Seq(S)] :
            /\ f[0] = <<>>
            /\ \A n \in 1 .. Len(q) : f[n] = f[n - 1] \o q[n]
            /\ FlattenSeq(q) = f[Len(q)]
<1> DEFINE L == Len(q)
           step == [x \in (1 .. L) \X Seq(S) |-> x[2] \o q[x[1]]]
           Solves(g) == g = [i \in 1 .. L |-> IF i = 1 THEN q[i] ELSE g[i - 1] \o q[i]]
           flatten == CHOOSE g : Solves(g)
<1>1. L \in Nat /\ \A n \in 1 .. L : q[n] \in Seq(S)
  OBVIOUS
<1>2. \A n \in 1 .. L, t \in Seq(S) : step[<<n, t>>] = t \o q[n]
  OBVIOUS
<1>3. FlattenSeq(q) = IF L = 0 THEN q ELSE flatten[L]
  BY DEF FlattenSeq
<1>4. L = 0 => q = <<>>
  OBVIOUS
<1> HIDE DEF L, step
<1>5. Stays(Seq(S), <<>>, L, step)
  <2>1. ASSUME NEW n \in 1 .. L, NEW t \in Seq(S) PROVE step[<<n, t>>] \in Seq(S)
    <3>1. q[n] \in Seq(S)
      BY <1>1
    <3>2. t \o q[n] \in Seq(S)
      BY <3>1
    <3> QED BY <1>2, <3>2
  <2>2. <<>> \in Seq(S)
    OBVIOUS
  <2> QED BY <1>1, <2>1, <2>2 DEF Stays
<1>6. PICK f : Computes(f, Seq(S), <<>>, L, step)
  BY <1>5, RecursionExists
<1>7. \A n \in 1 .. L : n \in 0 .. L /\ n - 1 \in 0 .. L
  BY <1>1
<1>8. /\ f \in [0 .. L -> Seq(S)] /\ f[0] = <<>>
      /\ \A n \in 1 .. L : f[n] = f[n - 1] \o q[n]
  <2>1. f \in [0 .. L -> Seq(S)] /\ f[0] = <<>>
    BY <1>6 DEF Computes
  <2> QED BY <1>2, <1>6, <1>7, <2>1 DEF Computes
<1>9. CASE L = 0
  BY <1>3, <1>4, <1>8, <1>9 DEF L
<1>10. CASE L # 0
  <2> DEFINE g == [i \in 1 .. L |-> f[i]]
  <2>1. 1 \in 1 .. L /\ L \in 1 .. L /\ \A i \in 1 .. L : i # 1 => i - 1 \in 1 .. L
    BY <1>1, <1>10
  <2>2. f[1] = q[1]
    <3>1. ASSUME NEW n \in 1 .. L, n = 1 PROVE f[n] = <<>> \o q[n]
      <4>1. f[n] = f[n - 1] \o q[n]
        BY <1>8
      <4>2. n - 1 = 0
        BY <3>1
      <4> QED BY <1>8, <4>1, <4>2
    <3>2. q[1] \in Seq(S)
      BY <1>1, <2>1
    <3>3. f[1] = <<>> \o q[1]
      BY <2>1, <3>1
    <3> QED BY <3>2, <3>3
  <2>3. Solves(g)
    BY <1>8, <2>1, <2>2
  <2>4. Solves(flatten)
    <3> HIDE DEF Solves, g
    <3> QED BY <2>3
  <2> HIDE DEF flatten
  <2>5. \A i \in 1 .. L : flatten[i] = IF i = 1 THEN q[i] ELSE flatten[i - 1] \o q[i]
    BY <2>4
  <2> DEFINE G == {i \in 0 .. L : i = 0 \/ flatten[i] = f[i]}
  <2>6. 0 \in G
    BY <1>1
  <2>7. ASSUME NEW n \in 1 .. L, n - 1 \in G PROVE n \in G
    <3>1. CASE n = 1
      BY <1>7, <2>1, <2>2, <2>5, <3>1
    <3>2. CASE n # 1
      <4>1. n - 1 # 0 /\ flatten[n - 1] = f[n - 1]
        BY <2>7, <3>2
      <4> QED BY <1>7, <1>8, <2>5, <3>2, <4>1
    <3> QED BY <3>1, <3>2
  <2> HIDE DEF G
  <2>8. 0 .. L \subseteq G
    BY <1>1, <2>6, <2>7, BoundedInduction
  <2>9. flatten[L] = f[L]
    BY <1>7, <1>10, <2>1, <2>8 DEF G
  <2> QED BY <1>3, <1>8, <1>10, <2>9 DEF L
<1> QED BY <1>9, <1>10

\* Its elements are those of the sequences.
LEMMA FlattenElements ==
  ASSUME NEW S, NEW q \in Seq(Seq(S))
  PROVE  /\ FlattenSeq(q) \in Seq(S)
         /\ \A x : x \in ToSet(FlattenSeq(q)) <=> \E i \in 1 .. Len(q) : x \in ToSet(q[i])
<1> DEFINE L == Len(q)
<1>1. L \in Nat /\ \A n \in 1 .. L : q[n] \in Seq(S)
  OBVIOUS
<1>2. PICK f \in [0 .. L -> Seq(S)] :
          /\ f[0] = <<>> /\ FlattenSeq(q) = f[L]
          /\ \A n \in 1 .. L : f[n] = f[n - 1] \o q[n]
  BY FlattenSteps
<1> HIDE DEF L
<1> DEFINE G == {n \in 0 .. L :
                    \A x : x \in Range(f[n]) <=> \E i \in 1 .. n : x \in Range(q[i])}
<1>3. 0 \in G
  <2>1. Range(<<>>) = {}
    BY DEF Range
  <2> QED BY <1>1, <1>2, <2>1
<1>4. ASSUME NEW n \in 1 .. L, n - 1 \in G PROVE n \in G
  <2>1. n \in 0 .. L /\ n - 1 \in 0 .. L
    BY <1>1
  <2>2. f[n - 1] \in Seq(S) /\ q[n] \in Seq(S)
    BY <1>1, <2>1
  <2>3. Range(f[n]) = Range(f[n - 1]) \cup Range(q[n])
    <3>1. Range(f[n - 1] \o q[n]) = Range(f[n - 1]) \cup Range(q[n])
      BY <2>2, ElementsOfConcatenation
    <3> QED BY <1>2, <3>1
  <2>4. \A i : i \in 1 .. n <=> i \in 1 .. n - 1 \/ i = n
    BY <1>1
  <2> QED BY <1>4, <2>1, <2>3, <2>4
<1> HIDE DEF G
<1>5. 0 .. L \subseteq G
  BY <1>1, <1>3, <1>4, BoundedInduction
<1>6. L \in 0 .. L /\ f[L] \in Seq(S)
  BY <1>1
<1>7. /\ \A n \in 1 .. L : ToSet(q[n]) = Range(q[n])
      /\ ToSet(f[L]) = Range(f[L])
  <2>1. ASSUME NEW p \in Seq(S) PROVE ToSet(p) = Range(p)
    BY DEF ToSet, Range
  <2> QED BY <1>1, <1>6, <2>1
<1>8. L \in G
  BY <1>5, <1>6
<1>9. /\ f[L] \in Seq(S)
      /\ \A x : x \in ToSet(f[L]) <=> \E i \in 1 .. L : x \in ToSet(q[i])
  BY <1>6, <1>7, <1>8 DEF G
<1> QED BY <1>2, <1>9 DEF L

\* The greatest and the least of some numbers up to a bound.
LEMMA MaxIsGreatest ==
  ASSUME NEW N \in Nat, NEW W, W \subseteq 0 .. N, W # {}
  PROVE  /\ Max(W) \in W /\ Min(W) \in W
         /\ \A i \in W : i <= Max(W) /\ Min(W) <= i
<1>1. \E x \in W : \A y \in W : x >= y
  BY GreatestExists
<1>2. \E x \in W : \A y \in W : x <= y
  <2>1. W \subseteq Nat
    OBVIOUS
  <2> QED BY <2>1, LeastExists
<1>3. Max(W) \in W /\ \A y \in W : Max(W) >= y
  BY <1>1 DEF Max
<1>4. Min(W) \in W /\ \A y \in W : Min(W) <= y
  BY <1>2 DEF Min
<1>5. \A i \in W : i \in Int
  OBVIOUS
<1> QED BY <1>3, <1>4, <1>5
===============================================================================
