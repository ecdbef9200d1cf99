----------------------------- MODULE LookupProofs -----------------------------
(***************************************************************************)
(* What lookups find, in any finite graph of scopes, with any definitions, *)
(* modifiers and queries.                                                  *)
(***************************************************************************)
EXTENDS Walk, Lookup, Recursion

-----------------------------------------------------------------------------
(* The order of a walk.  What is left of a walk is what is to do and what  *)
(* was visited; each call leaves less of it.                               *)

Walks(S) == Seq(S) \X SUBSET S

\* Where a call leads from a walk.
Called(l, w) ==
    IF Head(w[1]) \in w[2] THEN <<Tail(w[1]), w[2]>>
    ELSE <<l[Head(w[1])] \o Tail(w[1]), w[2] \cup {Head(w[1])}>>

\* The scopes a walk uses, where f says so of the walk that a call leaves.
Uses(l, f, w) ==
    IF w[1] = <<>> THEN <<>>
    ELSE IF Head(w[1]) \in w[2] THEN f[<<Tail(w[1]), w[2]>>]
    ELSE <<Head(w[1])>> \o f[<<l[Head(w[1])] \o Tail(w[1]), w[2] \cup {Head(w[1])}>>]

\* f says so of all walks of W.
Follows(l, f, W) == \A w \in W : f[w] = Uses(l, f, w)

\* Walks(S) of W do not leave it.
Covers(S, l, W) ==
    /\ W \subseteq Walks(S)
    /\ \A w \in W : w[1] # <<>> => Called(l, w) \in W

\* What is left of a walk, as a number: no list has more than K links.
Left(S, K, w) == Cardinality(S \ w[2]) * (K + 1) + Len(w[1])

Bounds(S, K, l) == K \in Nat /\ \A t \in S : Len(l[t]) <= K

Shorter(S, K, n) == {w \in Walks(S) : Left(S, K, w) < n}

\* Finitely many scopes have a greatest number of links.
LEMMA LinksAreBounded ==
  ASSUME NEW S, IsFiniteSet(S), NEW l \in [S -> Seq(S)]
  PROVE  \E K : Bounds(S, K, l)
<1> DEFINE n == Cardinality(S)
<1>1. n \in Nat /\ ExistsBijection(1 .. n, S)
  BY FS_CardinalityType
<1>2. PICK b \in [1 .. n -> S] : \A t \in S : \E i \in 1 .. n : b[i] = t
  BY <1>1 DEF ExistsBijection, Bijection, Surjection
<1> HIDE DEF n
<1> DEFINE G == {i \in 0 .. n : \E K \in Nat : \A j \in 1 .. i : Len(l[b[j]]) <= K}
<1>3. 0 \in G
  <2>1. \A j \in 1 .. 0 : Len(l[b[j]]) <= 0
    OBVIOUS
  <2> QED BY <1>1, <2>1
<1>4. ASSUME NEW i \in 1 .. n, i - 1 \in G PROVE i \in G
  <2>1. PICK K \in Nat : \A j \in 1 .. i - 1 : Len(l[b[j]]) <= K
    BY <1>4
  <2>2. l[b[i]] \in Seq(S) /\ Len(l[b[i]]) \in Nat
    <3>1. b[i] \in S
      BY <1>2
    <3> QED BY <3>1, LenProperties
  <2>3. \A j \in 1 .. i : j = i \/ j \in 1 .. i - 1
    OBVIOUS
  <2>4. \A j \in 1 .. i : Len(l[b[j]]) \in Nat
    <3>1. \A j \in 1 .. i : b[j] \in S
      BY <1>1, <1>2
    <3> QED BY <3>1, LenProperties
  <2> DEFINE M == K + Len(l[b[i]])
  <2>5. \A j \in 1 .. i : Len(l[b[j]]) <= M
    BY SMTT(30), <2>1, <2>2, <2>3, <2>4
  <2>6. M \in Nat
    BY <2>2
  <2> HIDE DEF M
  <2>7. \E k \in Nat : \A j \in 1 .. i : Len(l[b[j]]) <= k
    BY <2>5, <2>6
  <2> QED BY SMTT(30), <2>7
<1> HIDE DEF G
<1>5. 0 .. n \subseteq G
  BY <1>1, <1>3, <1>4, BoundedInduction
<1>6. PICK K \in Nat : \A j \in 1 .. n : Len(l[b[j]]) <= K
  <2>1. n \in G
    BY <1>1, <1>5
  <2> QED BY <2>1 DEF G
<1>7. Bounds(S, K, l)
  BY <1>2, <1>6 DEF Bounds
<1> QED BY <1>7

\* A call visits a scope that was not, or shortens the list of calls.
LEMMA CallsLeaveLess ==
  ASSUME NEW S, IsFiniteSet(S), NEW l \in [S -> Seq(S)], NEW K, Bounds(S, K, l), NEW w \in Walks(S)
  PROVE  /\ Left(S, K, w) \in Nat
         /\ w[1] # <<>> => /\ Called(l, w) \in Walks(S)
                           /\ Left(S, K, Called(l, w)) < Left(S, K, w)
<1>1. w[1] \in Seq(S) /\ w[2] \subseteq S /\ w = <<w[1], w[2]>>
  BY DEF Walks
<1>2. \A V \in SUBSET S : Cardinality(S \ V) \in Nat
  <2>1. ASSUME NEW V \in SUBSET S PROVE Cardinality(S \ V) \in Nat
    <3>1. IsFiniteSet(S \ V)
      BY FS_Difference
    <3> QED BY <3>1, FS_CardinalityType
  <2> QED BY <2>1
<1> DEFINE c == Cardinality(S \ w[2])
           n == Len(w[1])
<1>3. K \in Nat /\ c \in Nat /\ n \in Nat /\ Left(S, K, w) = c * (K + 1) + n
  BY <1>1, <1>2, LenProperties DEF Bounds, Left
<1>4. c * (K + 1) \in Nat
  BY <1>3
<1>5. ASSUME w[1] # <<>>
      PROVE  Called(l, w) \in Walks(S) /\ Left(S, K, Called(l, w)) < Left(S, K, w)
  <2> DEFINE h == Head(w[1])
  <2>1. h \in S /\ Tail(w[1]) \in Seq(S) /\ Len(Tail(w[1])) = n - 1 /\ n > 0
    BY <1>1, <1>5, HeadTailProperties, LenProperties, EmptySeq
  <2>2. CASE h \in w[2]
    <3>1. Called(l, w) = <<Tail(w[1]), w[2]>>
      BY <2>2 DEF Called
    <3>2. Called(l, w)[1] = Tail(w[1]) /\ Called(l, w)[2] = w[2]
      BY <3>1
    <3>3. Left(S, K, Called(l, w)) = c * (K + 1) + (n - 1)
      BY <2>1, <3>2 DEF Left
    <3> HIDE DEF c, n
    <3>4. Left(S, K, Called(l, w)) < Left(S, K, w)
      BY <1>3, <1>4, <3>3
    <3>5. <<Tail(w[1]), w[2]>> \in Walks(S)
      BY <1>1, <2>1 DEF Walks
    <3> QED BY <3>1, <3>4, <3>5
  <2>3. CASE h \notin w[2]
    <3> DEFINE m == Len(l[h])
    <3>1. l[h] \in Seq(S) /\ m \in Nat /\ m <= K
      BY <2>1, LenProperties DEF Bounds
    <3>2. Called(l, w) = <<l[h] \o Tail(w[1]), w[2] \cup {h}>>
      BY <2>3 DEF Called
    <3>3. /\ Called(l, w)[1] = l[h] \o Tail(w[1])
          /\ Called(l, w)[2] = w[2] \cup {h}
      <4> DEFINE q == l[h] \o Tail(w[1])
      <4> HIDE DEF q
      <4>1. Called(l, w) = <<q, w[2] \cup {h}>>
        BY <3>2 DEF q
      <4>2. Called(l, w)[1] = q /\ Called(l, w)[2] = w[2] \cup {h}
        BY <4>1
      <4> QED BY <4>2 DEF q
    <3>4. l[h] \o Tail(w[1]) \in Seq(S) /\ Len(l[h] \o Tail(w[1])) = m + (n - 1)
      <4> DEFINE p == l[h]
                 q == Tail(w[1])
      <4>1. p \in Seq(S) /\ q \in Seq(S) /\ Len(p) = m /\ Len(q) = n - 1
        BY <2>1, <3>1
      <4> HIDE DEF p, q, m, n
      <4>2. p \o q \in Seq(S) /\ Len(p \o q) = m + (n - 1)
        BY <4>1, Concatenation
      <4> QED BY <4>2 DEF p, q, m, n
    <3>5. Cardinality(S \ (w[2] \cup {h})) = c - 1
      <4>1. IsFiniteSet(S \ w[2])
        BY FS_Difference
      <4>2. S \ (w[2] \cup {h}) = (S \ w[2]) \ {h} /\ h \in S \ w[2]
        BY <2>1, <2>3
      <4> DEFINE U == S \ w[2]
      <4>3. IsFiniteSet(U) /\ h \in U
        BY <4>1, <4>2
      <4> HIDE DEF U
      <4>4. Cardinality(U \ {h}) = Cardinality(U) - 1
        BY <4>3, FS_RemoveElement
      <4> QED BY <4>2, <4>4 DEF U
    <3>6. Left(S, K, Called(l, w)) = (c - 1) * (K + 1) + (m + (n - 1))
      BY <3>3, <3>4, <3>5 DEF Left
    <3> HIDE DEF c, n, m
    <3>7. (c - 1) * (K + 1) = c * (K + 1) - (K + 1)
      BY <1>3
    <3>8. Left(S, K, Called(l, w)) < Left(S, K, w)
      BY <1>3, <1>4, <3>1, <3>6, <3>7
    <3>9. Called(l, w) \in Walks(S)
      <4>1. w[2] \cup {h} \subseteq S
        BY <1>1, <2>1
      <4>2. <<l[h] \o Tail(w[1]), w[2] \cup {h}>> \in Walks(S)
        BY <3>4, <4>1 DEF Walks
      <4> QED BY <3>2, <4>2
    <3> QED BY <3>8, <3>9
  <2> QED BY <2>2, <2>3
<1> QED BY <1>3, <1>4, <1>5

\* Functions that follow the same calls agree.
LEMMA FollowersAgree ==
  ASSUME NEW S, IsFiniteSet(S), NEW l \in [S -> Seq(S)],
         NEW A, NEW f, Covers(S, l, A), Follows(l, f, A),
         NEW B, NEW g, Covers(S, l, B), Follows(l, g, B)
  PROVE  \A w \in A \cap B : f[w] = g[w]
<1>1. PICK K : Bounds(S, K, l)
  BY LinksAreBounded
<1> DEFINE Agree(n) == \A w \in A \cap B : Left(S, K, w) < n => f[w] = g[w]
           G == {n \in Nat : Agree(n)}
<1>2. \A w \in A \cap B : w \in Walks(S) /\ Left(S, K, w) \in Nat
  BY <1>1, CallsLeaveLess DEF Covers
<1>3. 0 \in G
  BY <1>2
<1>4. ASSUME NEW n \in Nat, n \in G PROVE n + 1 \in G
  <2> SUFFICES ASSUME NEW w \in A \cap B, Left(S, K, w) < n + 1 PROVE f[w] = g[w]
    OBVIOUS
  <2>1. f[w] = Uses(l, f, w) /\ g[w] = Uses(l, g, w)
    BY DEF Follows
  <2>2. CASE w[1] = <<>>
    BY <2>1, <2>2 DEF Uses
  <2>3. CASE w[1] # <<>>
    <3>1. /\ Called(l, w) \in A \cap B
          /\ Left(S, K, Called(l, w)) \in Nat /\ Left(S, K, w) \in Nat
          /\ Left(S, K, Called(l, w)) < Left(S, K, w)
      BY <1>1, <1>2, <2>3, CallsLeaveLess DEF Covers
    <3>2. Left(S, K, Called(l, w)) < n
      BY <3>1
    <3>3. f[Called(l, w)] = g[Called(l, w)]
      BY <1>4, <3>1, <3>2
    <3> QED BY <2>1, <2>3, <3>3 DEF Uses, Called
  <2> QED BY <2>2, <2>3
<1> HIDE DEF G
<1>5. Nat \subseteq G
  BY <1>3, <1>4, SetInduction
<1>6. ASSUME NEW w \in A \cap B PROVE f[w] = g[w]
  <2>1. Left(S, K, w) \in Nat /\ Left(S, K, w) + 1 \in G /\ Left(S, K, w) < Left(S, K, w) + 1
    BY <1>2, <1>5
  <2> QED BY <2>1 DEF G
<1> QED BY <1>6

\* A list with one more element at its front.
LEMMA OneBefore ==
  ASSUME NEW S, NEW h \in S, NEW q \in Seq(S)
  PROVE  /\ <<h>> \o q \in Seq(S) /\ Len(<<h>> \o q) = Len(q) + 1
         /\ \A i \in 1 .. Len(q) + 1 : (<<h>> \o q)[i] = IF i = 1 THEN h ELSE q[i - 1]
         /\ Range(<<h>> \o q) = {h} \cup Range(q)
<1> DEFINE p == <<h>>
<1>1. p \in Seq(S) /\ Len(p) = 1 /\ p[1] = h /\ Range(p) = {h}
  BY DEF Range
<1> HIDE DEF p
<1>2. /\ p \o q \in Seq(S)
      /\ Len(q) \in Nat /\ Len(p \o q) = 1 + Len(q)
      /\ \A i \in 1 .. 1 : (p \o q)[i] = p[i]
      /\ \A i \in 1 .. Len(q) : (p \o q)[1 + i] = q[i]
  BY <1>1, Concatenation
<1>3. ASSUME NEW i \in 1 .. Len(q) + 1 PROVE (p \o q)[i] = IF i = 1 THEN h ELSE q[i - 1]
  <2>1. CASE i = 1
    BY <1>1, <1>2, <2>1
  <2>2. CASE i # 1
    <3>1. i - 1 \in 1 .. Len(q) /\ 1 + (i - 1) = i
      BY <1>2, <2>2
    <3> QED BY <1>2, <2>2, <3>1
  <2> QED BY <2>1, <2>2
<1>4. Len(p \o q) = Len(q) + 1
  BY <1>2
<1>5. Range(p \o q) = {h} \cup Range(q)
  BY <1>1, ElementsOfConcatenation
<1> QED BY <1>2, <1>3, <1>4, <1>5 DEF p

\* What a walk uses are scopes.
LEMMA UsesScopes ==
  ASSUME NEW S, IsFiniteSet(S), NEW l \in [S -> Seq(S)], NEW w \in Walks(S), NEW f,
         w[1] # <<>> => f[Called(l, w)] \in Seq(S)
  PROVE  Uses(l, f, w) \in Seq(S)
<1>1. CASE w[1] = <<>>
  BY <1>1 DEF Uses
<1>2. CASE w[1] # <<>>
  <2>1. Head(w[1]) \in S
    BY <1>2, HeadTailProperties DEF Walks
  <2>2. <<Head(w[1])>> \in Seq(S)
    BY <2>1
  <2>3. CASE Head(w[1]) \in w[2]
    BY <1>2, <2>3 DEF Uses, Called
  <2>4. CASE Head(w[1]) \notin w[2]
    <3>1. Uses(l, f, w) = <<Head(w[1])>> \o f[Called(l, w)]
      BY <1>2, <2>4 DEF Uses, Called
    <3> QED BY <1>2, <2>1, <3>1, OneBefore
  <2> QED BY <2>3, <2>4
<1> QED BY <1>1, <1>2

\* Some function says what short walks use.
Known(S, l, K, n, f) ==
    /\ f \in [Shorter(S, K, n) -> Seq(S)]
    /\ Follows(l, f, Shorter(S, K, n))

\* Walks of which little is left lead to walks of which less is left.
LEMMA ShortWalks ==
  ASSUME NEW S, IsFiniteSet(S), NEW l \in [S -> Seq(S)], NEW K, Bounds(S, K, l), NEW n \in Nat
  PROVE  /\ Covers(S, l, Shorter(S, K, n))
         /\ \A w \in Shorter(S, K, n + 1) : w[1] # <<>> => Called(l, w) \in Shorter(S, K, n)
         /\ Shorter(S, K, n) \subseteq Shorter(S, K, n + 1)
<1>1. \A w \in Walks(S) : Left(S, K, w) \in Nat
  BY CallsLeaveLess
<1>2. \A w \in Walks(S) : w[1] # <<>> => /\ Called(l, w) \in Walks(S)
                                      /\ Left(S, K, Called(l, w)) < Left(S, K, w)
  BY CallsLeaveLess
<1> QED BY <1>1, <1>2 DEF Shorter, Covers

\* For walks of any length there is a function that follows the calls.
LEMMA ShortWalksKnown ==
  ASSUME NEW S, IsFiniteSet(S), NEW l \in [S -> Seq(S)], NEW K, Bounds(S, K, l)
  PROVE  \A n \in Nat : \E f : Known(S, l, K, n, f)
<1> DEFINE G == {n \in Nat : \E f : Known(S, l, K, n, f)}
<1>1. 0 \in G
  <2> DEFINE f == [w \in Shorter(S, K, 0) |-> <<>>]
  <2>1. Shorter(S, K, 0) = {}
    <3>1. \A w \in Walks(S) : Left(S, K, w) \in Nat
      BY CallsLeaveLess
    <3> QED BY <3>1 DEF Shorter
  <2>2. Known(S, l, K, 0, f)
    BY <2>1 DEF Known, Follows
  <2> HIDE DEF f
  <2> QED BY <2>2
<1>2. ASSUME NEW n \in Nat, n \in G PROVE n + 1 \in G
  <2>1. PICK f : Known(S, l, K, n, f)
    BY <1>2
  <2> DEFINE h == [w \in Shorter(S, K, n + 1) |-> Uses(l, f, w)]
  <2>2. ASSUME NEW w \in Shorter(S, K, n + 1)
        PROVE  Uses(l, f, w) \in Seq(S)
    <3>1. w \in Walks(S) /\ (w[1] # <<>> => Called(l, w) \in Shorter(S, K, n))
      BY ShortWalks DEF Shorter
    <3>2. w[1] # <<>> => f[Called(l, w)] \in Seq(S)
      BY <2>1, <3>1 DEF Known
    <3> QED BY <3>1, <3>2, UsesScopes
  <2>3. ASSUME NEW w \in Shorter(S, K, n + 1)
        PROVE  h[w] = Uses(l, h, w)
    <3>1. CASE w[1] = <<>>
      BY <3>1 DEF Uses
    <3>2. CASE w[1] # <<>>
      <4>1. Called(l, w) \in Shorter(S, K, n) /\ Called(l, w) \in Shorter(S, K, n + 1)
        BY <3>2, ShortWalks
      <4>2. h[Called(l, w)] = f[Called(l, w)]
        BY <2>1, <4>1 DEF Known, Follows
      <4>3. h[w] = Uses(l, f, w)
        OBVIOUS
      <4> HIDE DEF h
      <4> QED BY <3>2, <4>2, <4>3 DEF Uses, Called
    <3> QED BY <3>1, <3>2
  <2>4. h \in [Shorter(S, K, n + 1) -> Seq(S)]
    BY <2>2
  <2> HIDE DEF h
  <2>5. Known(S, l, K, n + 1, h)
    BY <2>3, <2>4 DEF Known, Follows
  <2> QED BY <2>5
<1> HIDE DEF G
<1>3. Nat \subseteq G
  BY <1>1, <1>2, SetInduction
<1> QED BY <1>3 DEF G

\* A function says what all walks use, so the recursion in Visits is sound.
LEMMA WalksKnown ==
  ASSUME NEW S, IsFiniteSet(S), NEW l \in [S -> Seq(S)]
  PROVE  \E g \in [Walks(S) -> Seq(S)] : Follows(l, g, Walks(S))
<1>1. PICK K : Bounds(S, K, l)
  BY LinksAreBounded
<1> DEFINE F(n) == CHOOSE f : Known(S, l, K, n, f)
           N(w) == Left(S, K, w) + 1
           g == [w \in Walks(S) |-> F(N(w))[w]]
<1>2. \A n \in Nat : Known(S, l, K, n, F(n))
  BY <1>1, ShortWalksKnown
<1> HIDE DEF F
<1>3. ASSUME NEW w \in Walks(S) PROVE N(w) \in Nat /\ w \in Shorter(S, K, N(w))
  BY <1>1, CallsLeaveLess DEF Shorter
<1>4. g \in [Walks(S) -> Seq(S)]
  <2>1. \A w \in Walks(S) : F(N(w))[w] \in Seq(S)
    BY <1>2, <1>3 DEF Known
  <2> QED BY <2>1
<1>5. ASSUME NEW w \in Walks(S) PROVE g[w] = Uses(l, g, w)
  <2>1. g[w] = F(N(w))[w] /\ F(N(w))[w] = Uses(l, F(N(w)), w)
    BY <1>2, <1>3 DEF Known, Follows
  <2>2. CASE w[1] = <<>>
    BY <2>1, <2>2 DEF Uses
  <2>3. CASE w[1] # <<>>
    <3> DEFINE v == Called(l, w)
    <3>1. v \in Walks(S)
      BY <1>1, <2>3, CallsLeaveLess
    <3>2. v \in Shorter(S, K, N(w))
      BY <1>1, <1>3, <2>3, ShortWalks DEF Covers
    <3>3. v \in Shorter(S, K, N(v)) /\ N(v) \in Nat /\ N(w) \in Nat
      BY <1>3, <3>1
    <3> HIDE DEF N
    <3>4. F(N(w))[v] = F(N(v))[v]
      <4>1. /\ Covers(S, l, Shorter(S, K, N(w))) /\ Follows(l, F(N(w)), Shorter(S, K, N(w)))
            /\ Covers(S, l, Shorter(S, K, N(v))) /\ Follows(l, F(N(v)), Shorter(S, K, N(v)))
        BY <1>1, <1>2, <3>3, ShortWalks DEF Known
      <4> HIDE DEF v
      <4> QED BY <3>2, <3>3, <4>1, FollowersAgree
    <3>5. g[v] = F(N(w))[v]
      BY <3>1, <3>4
    <3> HIDE DEF g
    <3> QED BY <2>1, <2>3, <3>5 DEF Uses, Called
  <2> QED BY <2>2, <2>3
<1> HIDE DEF g
<1>6. Follows(l, g, Walks(S))
  BY <1>5 DEF Follows
<1> QED BY <1>4, <1>6

\* Visits is given by a function on walks that follows the calls.
LEMMA VisitsFollows ==
  ASSUME NEW l \in [Scopes -> Seq(Scopes)]
  PROVE  \E g : /\ g \in [Walks(Scopes) -> Seq(Scopes)] /\ Follows(l, g, Walks(Scopes))
                /\ \A s \in Scopes : Visits(l, s) = g[<< <<s>>, {} >>]
<1> DEFINE Equation(f) == f = [w \in Walks(Scopes) |-> Uses(l, f, w)]
           visits == CHOOSE f : Equation(f)
<1>1. PICK g \in [Walks(Scopes) -> Seq(Scopes)] : Follows(l, g, Walks(Scopes))
  BY ScopesAssumption, WalksKnown
<1>2. Equation(g)
  BY <1>1 DEF Follows
<1>3. Equation(visits)
  BY <1>2
<1>4. \A s \in Scopes : Visits(l, s) = visits[<< <<s>>, {} >>]
  BY DEF Visits, Walks, Uses
<1> HIDE DEF visits
<1>5. Follows(l, visits, Walks(Scopes)) /\ DOMAIN visits = Walks(Scopes)
  BY <1>3 DEF Follows
<1>6. Covers(Scopes, l, Walks(Scopes))
  <2>1. PICK K : Bounds(Scopes, K, l)
    BY ScopesAssumption, LinksAreBounded
  <2> QED BY <2>1, ScopesAssumption, CallsLeaveLess DEF Covers
<1>7. \A w \in Walks(Scopes) \cap Walks(Scopes) : visits[w] = g[w]
  BY <1>1, <1>5, <1>6, ScopesAssumption, FollowersAgree
<1>8. visits \in [Walks(Scopes) -> Seq(Scopes)]
  BY <1>1, <1>3, <1>7
<1> QED BY <1>4, <1>5, <1>8

\* A list without duplicates and a new element have none.
LEMMA InjectiveLonger ==
  ASSUME NEW S, NEW h \in S, NEW q \in Seq(S), IsInjective(q), h \notin Range(q)
  PROVE  IsInjective(<<h>> \o q)
<1> DEFINE u == <<h>> \o q
<1>1. Len(q) \in Nat /\ DOMAIN q = 1 .. Len(q)
  BY LenProperties
<1>2. /\ u \in Seq(S) /\ Len(u) = Len(q) + 1
      /\ \A i \in 1 .. Len(q) + 1 : u[i] = IF i = 1 THEN h ELSE q[i - 1]
  BY OneBefore
<1> HIDE DEF u
<1>3. DOMAIN u = 1 .. Len(q) + 1
  BY <1>2, LenProperties
<1>4. \A i \in 1 .. Len(q) : q[i] # h
  BY <1>1 DEF Range
<1>5. ASSUME NEW i \in 1 .. Len(q) + 1, NEW j \in 1 .. Len(q) + 1, u[i] = u[j]
      PROVE  i = j
  <2>1. \A k \in 1 .. Len(q) + 1 : \/ k = 1 /\ u[k] = h
                                   \/ k - 1 \in 1 .. Len(q) /\ u[k] = q[k - 1]
    BY <1>1, <1>2
  <2>2. \A m, n \in 1 .. Len(q) : q[m] = q[n] => m = n
    BY <1>1 DEF IsInjective
  <2> QED BY <1>1, <1>4, <1>5, <2>1, <2>2
<1>6. IsInjective(u)
  BY <1>3, <1>5 DEF IsInjective
<1> QED BY <1>6 DEF u

\* r is what a walk uses: no scope twice, none visited before, all that the walk comes to,
\* and nothing else.
Sweeps(S, l, w, r) ==
    /\ r \in Seq(S) /\ IsInjective(r)
    /\ Range(r) \cap w[2] = {}
    /\ Range(w[1]) \subseteq w[2] \cup Range(r)
    /\ \A t \in Range(r) : Range(l[t]) \subseteq w[2] \cup Range(r)
    /\ \A T : Closed(l, T) /\ Range(w[1]) \subseteq T => Range(r) \subseteq T

\* If the rest of a walk lists what is in reach of it, the whole walk does.
LEMMA CallSweeps ==
  ASSUME NEW S, IsFiniteSet(S), NEW l \in [S -> Seq(S)], NEW w \in Walks(S), w[1] # <<>>,
         NEW f, Sweeps(S, l, Called(l, w), f[Called(l, w)])
  PROVE  Sweeps(S, l, w, Uses(l, f, w))
<1> DEFINE h == Head(w[1])
           rest == Tail(w[1])
           r == f[Called(l, w)]
<1>1. /\ h \in S /\ rest \in Seq(S) /\ w[2] \subseteq S
      /\ Range(w[1]) = {h} \cup Range(rest)
  BY ElementsOfTail DEF Walks
<1> HIDE DEF rest
<1>2. CASE h \in w[2]
  <2>1. Called(l, w) = <<rest, w[2]>> /\ Uses(l, f, w) = r
    BY <1>2 DEF Called, Uses, rest
  <2>2. Called(l, w)[1] = rest /\ Called(l, w)[2] = w[2]
    BY <2>1
  <2> HIDE DEF r, h
  <2> QED BY <1>1, <1>2, <2>1, <2>2 DEF Sweeps, r
<1>3. CASE h \notin w[2]
  <2> DEFINE q == l[h] \o rest
  <2>1. Called(l, w) = <<q, w[2] \cup {h}>> /\ Uses(l, f, w) = <<h>> \o r
    BY <1>3 DEF Called, Uses, rest
  <2>2. l[h] \in Seq(S) /\ Range(q) = Range(l[h]) \cup Range(rest)
    BY <1>1, ElementsOfConcatenation
  <2> HIDE DEF q
  <2>3. Called(l, w)[1] = q /\ Called(l, w)[2] = w[2] \cup {h}
    BY <2>1
  <2>4. /\ r \in Seq(S) /\ IsInjective(r)
        /\ Range(r) \cap (w[2] \cup {h}) = {}
        /\ Range(q) \subseteq w[2] \cup {h} \cup Range(r)
        /\ \A t \in Range(r) : Range(l[t]) \subseteq w[2] \cup {h} \cup Range(r)
        /\ \A T : Closed(l, T) /\ Range(q) \subseteq T => Range(r) \subseteq T
    BY <2>3 DEF Sweeps
  <2> HIDE DEF r
  <2>5. IsInjective(<<h>> \o r)
    BY <1>1, <2>4, InjectiveLonger
  <2>6. <<h>> \o r \in Seq(S) /\ Range(<<h>> \o r) = {h} \cup Range(r)
    BY <1>1, <2>4, OneBefore
  <2> DEFINE u == <<h>> \o r
  <2> HIDE DEF h, u
  <2>7. ASSUME NEW T, Closed(l, T), Range(w[1]) \subseteq T PROVE Range(u) \subseteq T
    <3>1. h \in T /\ Range(l[h]) \subseteq T
      BY <1>1, <2>7 DEF Closed
    <3> QED BY <1>1, <2>2, <2>4, <2>6, <2>7, <3>1 DEF u
  <2>8. u \in Seq(S) /\ IsInjective(u) /\ Range(u) = {h} \cup Range(r)
    BY <2>5, <2>6 DEF u
  <2>9. Range(u) \cap w[2] = {} /\ Range(w[1]) \subseteq w[2] \cup Range(u)
    BY <1>1, <1>3, <2>2, <2>4, <2>8
  <2>10. \A t \in Range(u) : Range(l[t]) \subseteq w[2] \cup Range(u)
    BY <2>2, <2>4, <2>8
  <2>11. Sweeps(S, l, w, u)
    BY <2>7, <2>8, <2>9, <2>10 DEF Sweeps
  <2> QED BY <2>1, <2>11 DEF u
<1> QED BY <1>2, <1>3

\* A walk lists what is in reach of its calls, past what was visited, each scope once.
LEMMA WalksSweep ==
  ASSUME NEW S, IsFiniteSet(S), NEW l \in [S -> Seq(S)],
         NEW g \in [Walks(S) -> Seq(S)], Follows(l, g, Walks(S))
  PROVE  \A w \in Walks(S) : Sweeps(S, l, w, g[w])
<1>1. PICK K : Bounds(S, K, l)
  BY LinksAreBounded
<1> DEFINE G == {n \in Nat : \A w \in Walks(S) : Left(S, K, w) < n => Sweeps(S, l, w, g[w])}
<1>2. \A w \in Walks(S) : Left(S, K, w) \in Nat
  BY <1>1, CallsLeaveLess
<1>3. 0 \in G
  BY <1>2
<1>4. ASSUME NEW n \in Nat, n \in G PROVE n + 1 \in G
  <2> SUFFICES ASSUME NEW w \in Walks(S), Left(S, K, w) < n + 1 PROVE Sweeps(S, l, w, g[w])
    OBVIOUS
  <2>1. g[w] = Uses(l, g, w) /\ g[w] \in Seq(S)
    BY DEF Follows
  <2>2. CASE w[1] = <<>>
    <3>1. g[w] = <<>> /\ Range(<<>>) = {} /\ IsInjective(<<>>)
      BY <2>1, <2>2 DEF Uses, Range, IsInjective
    <3> QED BY <2>1, <2>2, <3>1 DEF Sweeps
  <2>3. CASE w[1] # <<>>
    <3>1. /\ Called(l, w) \in Walks(S) /\ Left(S, K, Called(l, w)) < Left(S, K, w)
          /\ Left(S, K, Called(l, w)) \in Nat /\ Left(S, K, w) \in Nat
      BY <1>1, <1>2, <2>3, CallsLeaveLess
    <3>2. Left(S, K, Called(l, w)) < n
      BY <3>1
    <3>3. Sweeps(S, l, Called(l, w), g[Called(l, w)])
      BY <1>4, <3>1, <3>2
    <3> QED BY <2>1, <2>3, <3>3, CallSweeps
  <2> QED BY <2>2, <2>3
<1> HIDE DEF G
<1>5. Nat \subseteq G
  BY <1>3, <1>4, SetInduction
<1>6. ASSUME NEW w \in Walks(S) PROVE Sweeps(S, l, w, g[w])
  <2>1. Left(S, K, w) \in Nat /\ Left(S, K, w) + 1 \in G /\ Left(S, K, w) < Left(S, K, w) + 1
    BY <1>2, <1>5
  <2> QED BY <2>1 DEF G
<1> QED BY <1>6

\* Visits has every scope that can be reached, and none of them twice.
LEMMA VisitsSweep ==
  ASSUME NEW l \in [Scopes -> Seq(Scopes)], NEW s \in Scopes
  PROVE  /\ Visits(l, s) \in Seq(Scopes) /\ IsInjective(Visits(l, s))
         /\ Range(Visits(l, s)) = Reachable(l, s)
<1> DEFINE w == << <<s>>, {} >>
           r == Visits(l, s)
<1>1. w \in Walks(Scopes) /\ w[1] = <<s>> /\ w[2] = {} /\ Range(<<s>>) = {s}
  <2>1. <<s>> \in Seq(Scopes) /\ {} \subseteq Scopes /\ Range(<<s>>) = {s}
    BY DEF Range
  <2> QED BY <2>1 DEF Walks
<1>2. Sweeps(Scopes, l, w, r)
  <2>1. PICK g : /\ g \in [Walks(Scopes) -> Seq(Scopes)] /\ Follows(l, g, Walks(Scopes))
                 /\ \A t \in Scopes : Visits(l, t) = g[<< <<t>>, {} >>]
    BY VisitsFollows
  <2>2. r = g[w]
    BY <2>1
  <2> HIDE DEF w, r
  <2> QED BY <1>1, <2>1, <2>2, ScopesAssumption, WalksSweep
<1> HIDE DEF w, r
<1>3. /\ r \in Seq(Scopes) /\ IsInjective(r) /\ s \in Range(r) /\ Closed(l, Range(r))
      /\ \A T : Closed(l, T) /\ s \in T => Range(r) \subseteq T
  BY <1>1, <1>2 DEF Sweeps, Closed
<1>4. Range(r) \subseteq Scopes
  BY <1>3, ElementsAreMembers
<1>5. Range(r) = Reachable(l, s)
  BY <1>3, <1>4 DEF Reachable
<1> QED BY <1>3, <1>5 DEF r

-----------------------------------------------------------------------------
(* The walk, call by call.                                                 *)

\* Part of the way: what was used and what is left to use make the whole walk.
OnTheWay(g) == order \o g[<<todo, visited>>] = g[<< <<origin>>, {} >>]

OrderInv ==
    /\ WalkTypeOK
    /\ \A g \in [Walks(Scopes) -> Seq(Scopes)] : Follows(links, g, Walks(Scopes)) => OnTheWay(g)

\* A walk begins with all of it left.
LEMMA OrderStarts == WalkInit => OrderInv
<1> SUFFICES ASSUME WalkInit PROVE OrderInv
  OBVIOUS
<1>1. WalkTypeOK
  BY DEF WalkInit, WalkTypeOK
<1>2. ASSUME NEW g \in [Walks(Scopes) -> Seq(Scopes)] PROVE OnTheWay(g)
  <2>1. << <<origin>>, {} >> \in Walks(Scopes)
    <3>1. <<origin>> \in Seq(Scopes) /\ {} \subseteq Scopes
      BY DEF WalkInit
    <3> QED BY <3>1 DEF Walks
  <2>2. g[<< <<origin>>, {} >>] \in Seq(Scopes)
    BY <2>1
  <2> QED BY <2>2, ConcatEmptySeq DEF WalkInit, OnTheWay
<1> QED BY <1>1, <1>2 DEF OrderInv

\* A call does not change what visited and left together come to.
LEMMA OrderStep == OrderInv /\ [WalkNext]_walkVars => OrderInv'
<1> SUFFICES ASSUME OrderInv, [WalkNext]_walkVars PROVE OrderInv'
  OBVIOUS
<1>1. links \in [Scopes -> Seq(Scopes)] /\ WalkTypeOK
  BY LinksAssumption DEF OrderInv, WalkTypeOK
<1>2. links' = links /\ origin' = origin
  BY DEF WalkNext, Visit, Skip, walkVars
<1>3. <<todo, visited>> \in Walks(Scopes)
  BY <1>1 DEF WalkTypeOK, Walks
<1>4. ASSUME WalkNext
      PROVE  /\ todo # <<>> /\ <<todo', visited'>> = Called(links, <<todo, visited>>)
             /\ order' = IF Head(todo) \in visited THEN order ELSE Append(order, Head(todo))
             /\ Head(todo) \in Scopes
  <2>1. todo # <<>>
    BY <1>4 DEF WalkNext, Visit, Skip
  <2> QED BY <1>1, <1>4, <2>1, HeadTailProperties DEF WalkNext, Visit, Skip, Called, WalkTypeOK
<1>5. ASSUME WalkNext PROVE <<todo', visited'>> \in Walks(Scopes)
  <2>1. PICK K : Bounds(Scopes, K, links)
    BY <1>1, ScopesAssumption, LinksAreBounded
  <2> DEFINE w == <<todo, visited>>
  <2>2. w \in Walks(Scopes) /\ w[1] # <<>>
    BY <1>3, <1>4, <1>5
  <2> HIDE DEF w
  <2>3. Called(links, w) \in Walks(Scopes)
    BY <1>1, <2>1, <2>2, ScopesAssumption, CallsLeaveLess
  <2> QED BY <1>4, <1>5, <2>3 DEF w
<1>6. WalkTypeOK'
  <2>1. CASE WalkNext
    <3>1. order' \in Seq(Scopes)
      <4>1. order \in Seq(Scopes) /\ Head(todo) \in Scopes
        BY <1>1, <1>4, <2>1 DEF WalkTypeOK
      <4>2. Append(order, Head(todo)) \in Seq(Scopes)
        BY <4>1, AppendProperties
      <4> QED BY <1>4, <2>1, <4>1, <4>2
    <3>2. todo' \in Seq(Scopes) /\ visited' \subseteq Scopes
      BY <1>5, <2>1 DEF Walks
    <3> QED BY <1>1, <1>2, <3>1, <3>2 DEF WalkTypeOK
  <2>2. CASE UNCHANGED walkVars
    BY <1>1, <2>2 DEF walkVars, WalkTypeOK
  <2> QED BY <2>1, <2>2
<1>7. ASSUME NEW g \in [Walks(Scopes) -> Seq(Scopes)], Follows(links, g, Walks(Scopes))
      PROVE  order' \o g[<<todo', visited'>>] = order \o g[<<todo, visited>>]
  <2>1. CASE UNCHANGED walkVars
    BY <2>1 DEF walkVars
  <2>2. CASE WalkNext
    <3> DEFINE h == Head(todo)
               w == <<todo, visited>>
               v == <<todo', visited'>>
    <3>1. /\ g[w] = Uses(links, g, w) /\ w[1] = todo /\ w[2] = visited
          /\ w[1] # <<>> /\ v = Called(links, w) /\ g[v] \in Seq(Scopes)
      BY <1>3, <1>4, <1>5, <1>7, <2>2 DEF Follows
    <3>2. CASE h \in visited
      <4>1. g[w] = g[v]
        BY <3>1, <3>2 DEF Uses, Called
      <4> QED BY <1>4, <2>2, <3>2, <4>1
    <3>3. CASE h \notin visited
      <4>1. g[w] = <<h>> \o g[v]
        BY <3>1, <3>3 DEF Uses, Called
      <4>2. /\ order \in Seq(Scopes) /\ <<h>> \in Seq(Scopes) /\ h \in Scopes
            /\ order' = Append(order, h)
        BY <1>1, <1>4, <2>2, <3>3 DEF WalkTypeOK
      <4>3. order' = order \o <<h>>
        BY <4>2, AppendIsConcat
      <4>4. (order \o <<h>>) \o g[v] = order \o (<<h>> \o g[v])
        <5> DEFINE p == <<h>>
                   q == g[v]
        <5>1. order \in Seq(Scopes) /\ p \in Seq(Scopes) /\ q \in Seq(Scopes)
          BY <3>1, <4>2
        <5> HIDE DEF p, q
        <5>2. (order \o p) \o q = order \o (p \o q)
          BY <5>1, ConcatAssociative
        <5> QED BY <5>2 DEF p, q
      <4> QED BY <4>1, <4>3, <4>4
    <3> QED BY <3>2, <3>3
  <2> QED BY <2>1, <2>2
<1>8. ASSUME NEW g \in [Walks(Scopes) -> Seq(Scopes)], Follows(links, g, Walks(Scopes))
      PROVE OnTheWay(g)'
  BY <1>2, <1>7, <1>8 DEF OrderInv, OnTheWay
<1> QED BY <1>2, <1>6, <1>8 DEF OrderInv

\* With nothing left, what was visited is the whole walk.
LEMMA DoneInOrder == OrderInv => VisitsInOrder
<1> SUFFICES ASSUME OrderInv, Done PROVE order = Visits(links, origin)
  BY DEF VisitsInOrder
<1>1. WalkTypeOK /\ links \in [Scopes -> Seq(Scopes)]
  BY LinksAssumption DEF OrderInv, WalkTypeOK
<1>2. PICK g : /\ g \in [Walks(Scopes) -> Seq(Scopes)] /\ Follows(links, g, Walks(Scopes))
               /\ \A s \in Scopes : Visits(links, s) = g[<< <<s>>, {} >>]
  BY <1>1, VisitsFollows
<1>3. OnTheWay(g)
  BY <1>2 DEF OrderInv
<1>4. <<todo, visited>> \in Walks(Scopes) /\ todo = <<>>
  BY <1>1 DEF Done, WalkTypeOK, Walks
<1>5. g[<<todo, visited>>] = <<>>
  BY <1>2, <1>4 DEF Follows, Uses
<1>6. order = g[<< <<origin>>, {} >>]
  BY <1>1, <1>3, <1>5, ConcatEmptySeq DEF OnTheWay, WalkTypeOK
<1> QED BY <1>1, <1>2, <1>6 DEF WalkTypeOK

\* The whole walk is what is in reach, each scope once.
LEMMA DoneReachableOnce == OrderInv => VisitsReachableOnce
<1> SUFFICES ASSUME OrderInv, Done
             PROVE  Range(order) = Reachable(links, origin) /\ IsInjective(order)
  BY DEF VisitsReachableOnce
<1>1. links \in [Scopes -> Seq(Scopes)] /\ origin \in Scopes
  BY LinksAssumption DEF OrderInv, WalkTypeOK
<1>2. order = Visits(links, origin)
  BY DoneInOrder DEF VisitsInOrder
<1> QED BY <1>1, <1>2, VisitsSweep

\* A lookup uses the scopes depth first, the parent before the tag links, each where it is
\* met first, in any finite graph of scopes (the calls to itself in FillNumericModifiers).
THEOREM LookupVisitsInOrder == WalkSpec => []VisitsInOrder
  BY OrderStarts, OrderStep, DoneInOrder, PTL DEF WalkSpec

\* When a lookup ends, it has used every scope it can reach, and none of them twice
\* (VisitedScopes, which the calls share).
THEOREM LookupVisitsReachableOnce == WalkSpec => []VisitsReachableOnce
  BY OrderStarts, OrderStep, DoneReachableOnce, PTL DEF WalkSpec

-----------------------------------------------------------------------------
(* The invariant: what was modified in this turn has it as its time, and   *)
(* no modifier ever goes away.                                             *)

\* Whatever is not stamped with this turn is as it was.
Stamped ==
    /\ DOMAIN before \subseteq DOMAIN modifiers
    /\ \A p \in DOMAIN modifiers :
          \/ times[<<p[1], p[2]>>] = turn
          \/ p \in DOMAIN before /\ before[p] = modifiers[p]

LookupInv ==
    /\ LookupTypeOK
    /\ IsFiniteSet(DOMAIN modifiers)
    /\ Stamped

\* The first state has no modifiers and time 0.
LEMMA InitLookup == Init => LookupInv
<1> SUFFICES ASSUME Init PROVE LookupInv
  OBVIOUS
<1>1. DOMAIN modifiers = {} /\ DOMAIN before = {}
  BY DEF Init
<1>2. LookupTypeOK
  BY <1>1, LimitsAssumption DEF Init, LookupTypeOK
<1>3. IsFiniteSet(DOMAIN modifiers)
  BY <1>1, FS_EmptySet
<1> QED BY <1>1, <1>2, <1>3 DEF LookupInv, Stamped

\* A modifier is put, removed or replaced with the time of its variable.
LEMMA PutPreserves ==
  ASSUME LookupInv, NEW p \in Writable, NEW m, Put(p, m),
         m \in IF IsNumeric(p[2]) THEN NumericModifiers ELSE StringModifiers
  PROVE  LookupInv'
<1>1. /\ DOMAIN modifiers' = DOMAIN modifiers \cup {p}
      /\ modifiers'[p] = m
      /\ \A q \in DOMAIN modifiers \ {p} : modifiers'[q] = modifiers[q]
      /\ turn' = turn /\ before' = before
  BY DEF Put
<1>2. turn \in Nat /\ times \in [Scopes \X AllVariables -> 0 .. turn]
  BY LimitsAssumption DEF LookupInv, LookupTypeOK
<1>3. <<p[1], p[2]>> \in Scopes \X AllVariables
  BY KeysAssumption
<1>4. /\ times' \in [Scopes \X AllVariables -> 0 .. turn]
      /\ times'[<<p[1], p[2]>>] = turn
      /\ \A x \in Scopes \X AllVariables : x # <<p[1], p[2]>> => times'[x] = times[x]
  BY <1>2, <1>3 DEF Put, UpdateModificationTime
<1>5. LookupTypeOK'
  BY <1>1, <1>4 DEF LookupInv, LookupTypeOK, IsNumeric, NumericModifiers, StringModifiers
<1>6. IsFiniteSet(DOMAIN modifiers')
  BY <1>1, FS_AddElement DEF LookupInv
<1>7. ASSUME NEW q \in DOMAIN modifiers'
      PROVE  \/ times'[<<q[1], q[2]>>] = turn
             \/ q \in DOMAIN before /\ before[q] = modifiers'[q]
  <2>1. CASE <<q[1], q[2]>> = <<p[1], p[2]>>
    BY <1>4, <2>1
  <2>2. CASE <<q[1], q[2]>> # <<p[1], p[2]>>
    <3>1. q \in DOMAIN modifiers /\ q # p /\ q \in Writable
      BY <1>1, <2>2 DEF LookupInv, LookupTypeOK
    <3>2. <<q[1], q[2]>> \in Scopes \X AllVariables
      BY <3>1, KeysAssumption
    <3> QED BY <1>1, <1>4, <2>2, <3>1, <3>2 DEF LookupInv, Stamped
  <2> QED BY <2>1, <2>2
<1> QED BY <1>1, <1>5, <1>6, <1>7 DEF LookupInv, Stamped

\* Every step keeps the invariant.
LEMMA NextLookup == LookupInv /\ [Next]_vars => LookupInv'
<1> SUFFICES ASSUME LookupInv, [Next]_vars PROVE LookupInv'
  OBVIOUS
<1>1. ASSUME NEW p \in Writable, NEW m \in NumericModifiers,
             SetNumericModifier(p, m) \/ ChangeNumericModifier(p, m)
      PROVE  LookupInv'
  <2>1. IsNumeric(p[2]) /\ \E n \in NumericModifiers : Put(p, n)
    BY <1>1 DEF SetNumericModifier, ChangeNumericModifier
  <2> QED BY <2>1, PutPreserves
<1>2. ASSUME NEW p \in Writable, NEW m \in StringModifiers, SetStringModifier(p, m)
      PROVE  LookupInv'
  BY <1>2, PutPreserves DEF SetStringModifier
<1>3. CASE AdvanceTurn
  <2>1. /\ turn' = turn + 1 /\ before' = modifiers /\ modifiers' = modifiers /\ times' = times
        /\ turn < MaxTurn /\ turn \in 0 .. MaxTurn /\ MaxTurn \in Nat
    BY <1>3, LimitsAssumption DEF AdvanceTurn, LookupInv, LookupTypeOK
  <2>2. times' \in [Scopes \X AllVariables -> 0 .. turn']
    <3>1. 0 .. turn \subseteq 0 .. turn + 1
      BY <2>1
    <3> QED BY <2>1, <3>1 DEF LookupInv, LookupTypeOK
  <2>3. turn' \in 0 .. MaxTurn
    BY <2>1
  <2>4. LookupTypeOK'
    BY <2>1, <2>2, <2>3 DEF LookupInv, LookupTypeOK, IsNumeric, NumericModifiers, StringModifiers
  <2> QED BY <2>1, <2>4 DEF LookupInv, Stamped
<1>4. CASE UNCHANGED vars
  BY <1>4 DEF vars, LookupInv, LookupTypeOK, Stamped, IsNumeric, NumericModifiers,
              StringModifiers
<1> QED BY <1>1, <1>2, <1>3, <1>4 DEF Next

-----------------------------------------------------------------------------
(* The walk.                                                               *)

LEMMA OrderSweeps ==
  ASSUME NEW s \in Scopes
  PROVE  /\ Order[s] \in Seq(Scopes) /\ IsInjective(Order[s])
         /\ Range(Order[s]) = Reach[s] /\ Range(Order[s]) \subseteq Scopes
         /\ Len(Order[s]) \in Nat /\ DOMAIN Order[s] = 1 .. Len(Order[s])
<1>1. Order[s] = Visits(Links, s) /\ Reach[s] = Reachable(Links, s)
  BY DEF Order, Reach
<1>2. Order[s] \in Seq(Scopes) /\ IsInjective(Order[s]) /\ Range(Order[s]) = Reach[s]
  BY <1>1, GraphAssumption, VisitsSweep
<1>3. Range(Order[s]) \subseteq Scopes
  BY <1>2, ElementsAreMembers
<1>4. Len(Order[s]) \in Nat /\ DOMAIN Order[s] = 1 .. Len(Order[s])
  BY <1>2
<1> QED BY <1>2, <1>3, <1>4

\* A normalized variable is its own normalized variable.
LEMMA NormalizedTwice ==
  ASSUME NEW v
  PROVE  Normalized(Normalized(v)) = Normalized(v)
  BY DEF Normalized

\* The normalized id of a variable is a variable of the same type.
LEMMA NormalizedNames ==
  ASSUME NEW v \in AllVariables
  PROVE  /\ Normalized(v) \in AllVariables /\ 1 \in DOMAIN v
         /\ IsNumeric(Normalized(v)) <=> IsNumeric(v)
<1>1. 1 \in DOMAIN v
  <2>1. CASE v \in Variables
    BY <2>1, NamesAssumption
  <2>2. ASSUME NEW u \in Variables, v = Normalized(u) PROVE 1 \in DOMAIN v
    BY <2>2, NamesAssumption DEF Normalized
  <2> QED BY <2>1, <2>2 DEF AllVariables
<1>2. Normalized(v) \in AllVariables
  BY NormalizedTwice DEF AllVariables
<1>3. Normalized(v)[1] = v[1]
  BY <1>1 DEF Normalized
<1> QED BY <1>1, <1>2, <1>3 DEF IsNumeric

-----------------------------------------------------------------------------
(* Times.                                                                  *)

\* What a lookup finds of v is what it would have found when the turn began.
Unchanged(s, v) == Tables(modifiers, Looks(s, v)) = Tables(before, Looks(s, v))

\* The greatest of finitely many times.
LEMMA GreatestTime ==
  ASSUME NEW T, T # {}, NEW N \in Nat, T \subseteq 0 .. N
  PROVE  Max(T) \in T /\ \A x \in T : x <= Max(T) /\ Max(T) <= N
<1>1. PICK x \in T : \A y \in T : x >= y
  BY GreatestExists
<1>2. Max(T) \in T /\ \A y \in T : Max(T) >= y
  BY <1>1 DEF Max
<1>3. Max(T) \in 0 .. N /\ \A y \in T : y \in 0 .. N
  BY <1>2
<1> HIDE DEF Max
<1> QED BY <1>2, <1>3

\* The time of a lookup is the last one in reach.
LEMMA LastOfIsLast ==
  ASSUME LookupInv, NEW s \in Scopes, NEW v \in AllVariables
  PROVE  /\ LastOf(s, v) \in 0 .. turn
         /\ \A t \in Range(Order[s]) : times[<<t, v>>] <= LastOf(s, v)
<1> DEFINE T == {0} \cup {times[<<t, v>>] : t \in Range(Order[s])}
<1>1. turn \in Nat /\ T \subseteq 0 .. turn /\ T # {}
  <2>1. turn \in Nat /\ times \in [Scopes \X AllVariables -> 0 .. turn]
    BY LimitsAssumption DEF LookupInv, LookupTypeOK
  <2>2. \A t \in Range(Order[s]) : <<t, v>> \in Scopes \X AllVariables
    BY OrderSweeps
  <2>3. \A t \in Range(Order[s]) : times[<<t, v>>] \in 0 .. turn
    BY <2>1, <2>2
  <2>4. 0 \in 0 .. turn
    BY <2>1
  <2> QED BY <2>1, <2>3, <2>4
<1>2. Max(T) \in T /\ \A x \in T : x <= Max(T)
  BY <1>1, GreatestTime
<1>3. \A t \in Range(Order[s]) : times[<<t, v>>] \in T
  OBVIOUS
<1>4. LastOf(s, v) = Max(T)
  BY DEF LastOf
<1> HIDE DEF T
<1> QED BY <1>1, <1>2, <1>3, <1>4

\* What was not stamped in this turn has the modifiers the turn began with.
LEMMA UnstampedIsUnchanged ==
  ASSUME LookupInv, NEW s \in Scopes, NEW v \in AllVariables, LastOf(s, v) # turn
  PROVE  /\ Unchanged(s, v)
         /\ \A t \in Range(Order[s]) : Places(modifiers, t, v) = Places(before, t, v)
<1>1. turn \in Nat /\ times \in [Scopes \X AllVariables -> 0 .. turn]
  BY LimitsAssumption DEF LookupInv, LookupTypeOK
<1>2. ASSUME NEW t \in Range(Order[s])
      PROVE  times[<<t, v>>] # turn
  <2>1. times[<<t, v>>] \in 0 .. turn
    BY <1>1, OrderSweeps
  <2>2. times[<<t, v>>] <= LastOf(s, v) /\ LastOf(s, v) \in 0 .. turn
    BY LastOfIsLast
  <2> QED BY <1>1, <2>1, <2>2
<1>3. ASSUME NEW t \in Range(Order[s])
      PROVE  /\ Places(modifiers, t, v) = Places(before, t, v)
             /\ \A p \in Places(before, t, v) : modifiers[p] = before[p]
  BY <1>2 DEF LookupInv, Stamped, Places
<1>4. ASSUME NEW i \in DOMAIN Order[s]
      PROVE  Restrict(modifiers, Places(modifiers, Order[s][i], v)) =
                 Restrict(before, Places(before, Order[s][i], v))
  <2>1. Order[s][i] \in Range(Order[s])
    BY DEF Range
  <2> QED BY <1>3, <2>1 DEF Restrict
<1>5. Unchanged(s, v)
  BY <1>4 DEF Unchanged, Tables, Looks
<1> QED BY <1>3, <1>5

\* What a lookup of all modifiers finds is what it finds of v and of the normalized variable.
LEMMA UnchangedAll ==
  ASSUME NEW s \in Scopes, NEW v, Unchanged(s, v), Unchanged(s, Normalized(v))
  PROVE  Tables(modifiers, LooksAll(s, v)) = Tables(before, LooksAll(s, v))
<1> DEFINE L == Len(Order[s])
           Found(m, w, i) == Restrict(m, Places(m, Order[s][i], w))
<1>1. L \in Nat /\ DOMAIN Order[s] = 1 .. L
  BY OrderSweeps
<1>2. ASSUME NEW w \in {v, Normalized(v)}, NEW i \in 1 .. L
      PROVE  Found(modifiers, w, i) = Found(before, w, i)
  <2>1. Tables(modifiers, Looks(s, w))[i] = Tables(before, Looks(s, w))[i]
    BY DEF Unchanged
  <2>2. i \in DOMAIN Looks(s, w) /\ Looks(s, w)[i] = <<Order[s][i], w>>
    BY <1>1 DEF Looks
  <2> QED BY <2>1, <2>2 DEF Tables
<1>3. CASE v = Normalized(v)
  BY <1>3 DEF LooksAll, Unchanged
<1>4. CASE v # Normalized(v)
  <2> DEFINE all == LooksAll(s, v)
  <2>1. DOMAIN all = 1 .. 2 * L
    BY <1>4 DEF LooksAll
  <2>2. ASSUME NEW i \in 1 .. 2 * L
        PROVE  \E j \in 1 .. L : \E w \in {v, Normalized(v)} : all[i] = <<Order[s][j], w>>
    <3>1. CASE i % 2 = 1
      <4>1. (i + 1) \div 2 \in 1 .. L
        BY <1>1, <3>1
      <4>2. all[i] = <<Order[s][(i + 1) \div 2], Normalized(v)>>
        BY <1>4, <3>1 DEF LooksAll
      <4> QED BY <4>1, <4>2
    <3>2. CASE i % 2 # 1
      <4>1. i \div 2 \in 1 .. L
        BY <1>1, <3>2
      <4>2. all[i] = <<Order[s][i \div 2], v>>
        BY <1>4, <3>2 DEF LooksAll
      <4> QED BY <4>1, <4>2
    <3> QED BY <3>1, <3>2
  <2>3. ASSUME NEW i \in 1 .. 2 * L
        PROVE  Restrict(modifiers, Places(modifiers, all[i][1], all[i][2])) =
                   Restrict(before, Places(before, all[i][1], all[i][2]))
    <3>1. PICK j \in 1 .. L, w \in {v, Normalized(v)} : all[i] = <<Order[s][j], w>>
      BY <2>2
    <3>2. all[i][1] = Order[s][j] /\ all[i][2] = w
      BY <3>1
    <3> QED BY <1>2, <3>2
  <2> HIDE DEF all
  <2> QED BY <2>1, <2>3 DEF Tables, all
<1> QED BY <1>3, <1>4

\* A lookup whose time is not this turn finds what it found when the turn began.
LEMMA LookupsNotStale ==
  ASSUME LookupInv, NEW s \in Scopes, NEW v \in AllVariables, GetModificationTime(s, v) # turn
  PROVE  ValueSeen(modifiers, s, v) = ValueSeen(before, s, v)
<1> DEFINE T == {LastOf(s, v), LastOf(s, Normalized(v))}
<1>1. /\ turn \in Nat /\ Normalized(v) \in AllVariables
      /\ LastOf(s, v) \in 0 .. turn /\ LastOf(s, Normalized(v)) \in 0 .. turn
  BY LastOfIsLast, NormalizedNames, LimitsAssumption DEF LookupInv, LookupTypeOK
<1>2. Max(T) \in 0 .. turn /\ LastOf(s, v) <= Max(T) /\ LastOf(s, Normalized(v)) <= Max(T)
  <2>1. T # {} /\ T \subseteq 0 .. turn
    BY <1>1
  <2> QED BY <1>1, <2>1, GreatestTime
<1>3. Max(T) # turn
  BY DEF GetModificationTime
<1> HIDE DEF T
<1>4. LastOf(s, v) # turn /\ LastOf(s, Normalized(v)) # turn
  BY <1>1, <1>2, <1>3
<1>5. Tables(modifiers, LooksAll(s, v)) = Tables(before, LooksAll(s, v))
  BY <1>1, <1>4, UnstampedIsUnchanged, UnchangedAll
<1> QED BY <1>5 DEF ValueSeen, GetNumericValue, FillNumericModifiers, GetStringValue,
                    FillStringModifiers

\* A query whose time is not this turn finds what it found when the turn began.
LEMMA QueriesNotStale ==
  ASSUME LookupInv, NEW s \in Scopes, NEW q \in Queries, GetQueryTime(s, q) # turn
  PROVE  QuerySeen(modifiers, s, q) = QuerySeen(before, s, q)
<1> DEFINE ids == MaterializedIds(modifiers, s, q)
           T == {LastOf(s, Normalized(q))} \cup {LastOf(s, v) : v \in ids}
<1>1. /\ turn \in Nat /\ Normalized(q) \in AllVariables
      /\ \A v \in ids : v \in AllVariables
  BY NamesAssumption, LimitsAssumption
     DEF LookupInv, LookupTypeOK, MaterializedIds, AllVariables
<1>2. /\ LastOf(s, Normalized(q)) \in 0 .. turn
      /\ \A v \in ids : LastOf(s, v) \in 0 .. turn
  BY <1>1, LastOfIsLast
<1>3. T # {} /\ T \subseteq 0 .. turn
  BY <1>2
<1>4. Max(T) \in 0 .. turn /\ \A x \in T : x <= Max(T)
  BY <1>1, <1>3, GreatestTime
<1>5. Max(T) # turn
  BY DEF GetQueryTime
<1>6. LastOf(s, Normalized(q)) \in T /\ \A v \in ids : LastOf(s, v) \in T
  OBVIOUS
<1> HIDE DEF T, ids
<1>7. LastOf(s, Normalized(q)) # turn /\ \A v \in ids : LastOf(s, v) # turn
  BY <1>1, <1>2, <1>4, <1>5, <1>6
<1>8. /\ Unchanged(s, Normalized(q))
      /\ \A v \in ids : Unchanged(s, v)
      /\ \A v \in ids : \A t \in Range(Order[s]) : Places(modifiers, t, v) = Places(before, t, v)
  BY <1>1, <1>7, UnstampedIsUnchanged
<1>9. MaterializedIds(before, s, q) = ids
  <2>1. \A t, v : Places(before, t, v) \subseteq Places(modifiers, t, v)
    BY DEF LookupInv, Stamped, Places
  <2>2. ASSUME NEW v \in Variables, NEW t \in Range(Order[s]), Places(before, t, v) # {},
               QueryMatchesConcreteId(q, v)
        PROVE  v \in ids
    BY <2>1, <2>2 DEF ids, MaterializedIds
  <2>3. \A v \in MaterializedIds(before, s, q) : v \in ids
    BY <2>2 DEF MaterializedIds
  <2>4. \A v \in ids : v \in MaterializedIds(before, s, q)
    BY <1>8 DEF ids, MaterializedIds
  <2> QED BY <2>3, <2>4
<1>10. /\ Collected(modifiers, s, Normalized(q)) = Collected(before, s, Normalized(q))
       /\ \A v \in ids : Collected(modifiers, s, v) = Collected(before, s, v)
  BY <1>8 DEF Unchanged, Collected
<1>11. GetNumericQuery(modifiers, s, q) = GetNumericQuery(before, s, q)
  BY <1>9, <1>10 DEF GetNumericQuery, ids
<1>12. /\ Merged(modifiers, s, Normalized(q), DefaultValue) =
              Merged(before, s, Normalized(q), DefaultValue)
       /\ \A v \in ids : Merged(modifiers, s, v, EmptyString) = Merged(before, s, v, EmptyString)
  BY <1>8 DEF Unchanged, Merged
<1>13. DoGetStringQuery(modifiers, s, q) = DoGetStringQuery(before, s, q)
  BY <1>9, <1>12 DEF DoGetStringQuery, ids
<1>14. GetStringQuery(modifiers, s, q) = GetStringQuery(before, s, q)
  BY <1>13 DEF GetStringQuery
<1> QED BY <1>11, <1>14 DEF QuerySeen

\* A value or a query that was looked up when the turn began, and whose time of modification
\* is not this turn, may be used without looking it up again (GetModificationTime).
THEOREM OldValuesHold == Spec => []ChangesAreSeen
<1>1. LookupInv => ChangesAreSeen
  BY LookupsNotStale, QueriesNotStale DEF ChangesAreSeen
<1> QED BY <1>1, InitLookup, NextLookup, PTL DEF Spec

-----------------------------------------------------------------------------
(* Sums.                                                                   *)

Amounts == [add : Int, mult : Int]
Adding(m, D) == [x \in Amounts \X D |-> Plus(x[1], m[x[2]])]
Summable(m, D) == IsFiniteSet(D) /\ \A p \in D : m[p] \in Amounts

\* f is the sum of each part of m that is over a subset of D.
SumsOver(m, D, f) ==
    /\ f \in [SUBSET D -> Amounts]
    /\ f[{}] = NoModifier
    /\ \A P \in SUBSET D : \A p \in P : f[P] = Plus(f[P \ {p}], m[p])
    /\ \A P \in SUBSET D : f[P] = CalculateModifiers(Restrict(m, P))

\* Amounts are added in any order.
LEMMA PlusIsAmount ==
  ASSUME NEW a \in Amounts, NEW b \in Amounts
  PROVE  /\ Plus(a, b) \in Amounts /\ Plus(a, b) = Plus(b, a)
         /\ Plus(a, NoModifier) = a /\ NoModifier \in Amounts
BY DEF Amounts, Plus, NoModifier

\* Amounts are added in any grouping.
LEMMA PlusThenPlus ==
  ASSUME NEW a \in Amounts, NEW b \in Amounts, NEW c \in Amounts
  PROVE  Plus(Plus(a, b), c) = Plus(a, Plus(b, c))
BY DEF Amounts, Plus

\* The sum of a table is what the equation of CalculateModifiers says, in any order.
LEMMA SumsExist ==
  ASSUME NEW m, NEW D, Summable(m, D)
  PROVE  \E f : SumsOver(m, D, f)
<1> DEFINE step == Adding(m, D)
<1>1. ASSUME NEW x \in Amounts, NEW p \in D
      PROVE  step[<<x, p>>] = Plus(x, m[p]) /\ step[<<x, p>>] \in Amounts
  <2>1. m[p] \in Amounts
    BY DEF Summable
  <2>2. step[<<x, p>>] = Plus(x, m[p])
    BY DEF Adding
  <2> QED BY <2>1, <2>2, PlusIsAmount
<1> HIDE DEF step
<1>2. Gatherable(D, Amounts, NoModifier, step)
  BY <1>1 DEF Gatherable, Summable, Amounts, NoModifier
<1>3. PICK f : Gathers(f, D, Amounts, NoModifier, step)
  BY <1>2, GatheringExists
<1>4. \A x \in Amounts : \A p, q \in D :
          step[<<step[<<x, p>>], q>>] = step[<<step[<<x, q>>], p>>]
  <2> SUFFICES ASSUME NEW x \in Amounts, NEW p \in D, NEW q \in D
               PROVE  step[<<step[<<x, p>>], q>>] = step[<<step[<<x, q>>], p>>]
    OBVIOUS
  <2>1. m[p] \in Amounts /\ m[q] \in Amounts
    BY DEF Summable
  <2>2. Plus(Plus(x, m[p]), m[q]) = Plus(Plus(x, m[q]), m[p])
    BY <2>1 DEF Plus, Amounts
  <2>3. /\ step[<<step[<<x, p>>], q>>] = Plus(step[<<x, p>>], m[q])
        /\ step[<<step[<<x, q>>], p>>] = Plus(step[<<x, q>>], m[p])
    BY <1>1
  <2>4. step[<<x, p>>] = Plus(x, m[p]) /\ step[<<x, q>>] = Plus(x, m[q])
    BY <1>1
  <2> QED BY <2>2, <2>3, <2>4
<1>5. \A P \in SUBSET D : \A p \in P : f[P] = step[<<f[P \ {p}], p>>]
  BY <1>2, <1>3, <1>4, AnyOrder
<1>6. f \in [SUBSET D -> Amounts] /\ f[{}] = NoModifier
  BY <1>3 DEF Gathers, GoesThrough
<1>7. ASSUME NEW P \in SUBSET D, NEW p \in P
      PROVE  f[P] = Plus(f[P \ {p}], m[p])
  <2>1. f[P \ {p}] \in Amounts
    BY <1>6
  <2>2. f[P] = step[<<f[P \ {p}], p>>]
    BY <1>5
  <2> QED BY <1>1, <2>1, <2>2
<1>8. ASSUME NEW P \in SUBSET D
      PROVE  f[P] = CalculateModifiers(Restrict(m, P))
  <2> DEFINE Solves(g) == g = [Q \in SUBSET P |->
                 IF Q = {} THEN NoModifier
                 ELSE Plus(g[Q \ {Picked(Q)}], Restrict(m, P)[Picked(Q)])]
             sum == CHOOSE g : Solves(g)
             h == [Q \in SUBSET P |-> f[Q]]
  <2>1. CalculateModifiers(Restrict(m, P)) = sum[P]
    BY DEF CalculateModifiers, Restrict, Picked
  <2>2. ASSUME NEW Q \in SUBSET P, Q # {}
        PROVE  /\ Picked(Q) \in Q /\ Restrict(m, P)[Picked(Q)] = m[Picked(Q)]
               /\ Q \ {Picked(Q)} \in SUBSET P
    BY <2>2 DEF Picked, Restrict
  <2>3. Solves(h)
    <3>1. ASSUME NEW Q \in SUBSET P
          PROVE  h[Q] = IF Q = {} THEN NoModifier
                        ELSE Plus(h[Q \ {Picked(Q)}], Restrict(m, P)[Picked(Q)])
      BY <1>6, <1>7, <2>2
    <3> HIDE DEF h
    <3>2. h = [Q \in SUBSET P |-> h[Q]]
      BY DEF h
    <3> QED BY <3>1, <3>2
  <2>4. Solves(sum)
    <3> HIDE DEF h, Solves
    <3> QED BY <2>3
  <2> HIDE DEF h, sum
  <2>5. sum[{}] = NoModifier
    BY <2>4
  <2>6. ASSUME NEW Q \in SUBSET P, Q # {}
        PROVE  sum[Q] = step[<<sum[Q \ {Picked(Q)}], Picked(Q)>>]
    <3>1. sum[Q] = Plus(sum[Q \ {Picked(Q)}], m[Picked(Q)])
      BY <2>2, <2>4, <2>6
    <3> DEFINE G == {R \in SUBSET P : sum[R] \in Amounts}
    <3>2. ASSUME NEW R \in SUBSET P, \A T \in SUBSET R : T # R => T \in G
          PROVE  R \in G
      <4>1. CASE R = {}
        BY <2>5, <4>1 DEF Amounts, NoModifier
      <4>2. CASE R # {}
        <5>1. Picked(R) \in R /\ R \ {Picked(R)} \in G
          BY <2>2, <3>2, <4>2
        <5>2. sum[R] = Plus(sum[R \ {Picked(R)}], m[Picked(R)])
          BY <2>2, <2>4, <4>2
        <5>3. m[Picked(R)] \in Amounts
          BY <5>1 DEF Summable
        <5> QED BY <5>1, <5>2, <5>3, PlusIsAmount
      <4> QED BY <4>1, <4>2
    <3>3. IsFiniteSet(P)
      BY FS_Subset DEF Summable
    <3> HIDE DEF G
    <3>4. SUBSET P \subseteq G
      BY <3>2, <3>3, SubsetInduction
    <3>5. sum[Q \ {Picked(Q)}] \in Amounts /\ Picked(Q) \in D
      BY <2>2, <2>6, <3>4 DEF G
    <3> QED BY <1>1, <3>1, <3>5
  <2> HIDE DEF Solves
  <2>7. \A Q \in SUBSET P : sum[Q] = f[Q]
    <3>1. \A Q \in SUBSET P : Q # {} => sum[Q] = step[<<sum[Q \ {Picked(Q)}], Picked(Q)>>]
      BY <2>6
    <3>2. GoesThrough(sum, P, NoModifier, step)
      BY <2>5, <3>1 DEF GoesThrough
    <3> QED BY <1>2, <1>3, <3>2, GatheringIsUnique
  <2> QED BY <2>1, <2>7
<1> QED BY <1>6, <1>7, <1>8 DEF SumsOver

\* The sum over two sets that share nothing is that of their sums.
LEMMA SplitSum ==
  ASSUME NEW m, NEW D, Summable(m, D), NEW f, SumsOver(m, D, f),
         NEW P \in SUBSET D, NEW Q \in SUBSET D, P \cap Q = {}
  PROVE  f[P \cup Q] = Plus(f[P], f[Q])
<1> DEFINE G == {R \in SUBSET Q : f[P \cup R] = Plus(f[P], f[R])}
<1>1. \A R \in SUBSET D : f[R] \in Amounts
  BY DEF SumsOver
<1>2. ASSUME NEW R \in SUBSET Q, \A T \in SUBSET R : T # R => T \in G
      PROVE  R \in G
  <2>1. CASE R = {}
    <3>1. P \cup R = P /\ f[R] = NoModifier
      BY <2>1 DEF SumsOver
    <3> QED BY <1>1, <3>1, PlusIsAmount
  <2>2. ASSUME NEW p \in R PROVE R \in G
    <3> DEFINE T == R \ {p}
    <3>1. f[P \cup T] = Plus(f[P], f[T])
      BY <1>2
    <3>2. (P \cup R) \ {p} = P \cup T
      OBVIOUS
    <3>3. f[P \cup R] = Plus(f[(P \cup R) \ {p}], m[p])
      BY DEF SumsOver
    <3>4. f[R] = Plus(f[T], m[p])
      BY DEF SumsOver
    <3>5. f[P] \in Amounts /\ f[T] \in Amounts /\ m[p] \in Amounts
      BY <1>1 DEF Summable
    <3> HIDE DEF T
    <3>6. f[P \cup R] = Plus(Plus(f[P], f[T]), m[p])
      BY <3>1, <3>2, <3>3
    <3>7. Plus(Plus(f[P], f[T]), m[p]) = Plus(f[P], Plus(f[T], m[p]))
      BY <3>5, PlusThenPlus
    <3>8. f[P \cup R] = Plus(f[P], f[R])
      BY <3>4, <3>6, <3>7
    <3> QED BY <3>8
  <2> QED BY <2>1, <2>2
<1>3. IsFiniteSet(Q)
  BY FS_Subset DEF Summable
<1> HIDE DEF G
<1>4. SUBSET Q \subseteq G
  BY <1>2, <1>3, SubsetInduction
<1> QED BY <1>4 DEF G


\* The tables are the parts of m over the places, one after the other.
Spread(m, D, L, place, tables) ==
    /\ L \in Nat /\ Len(tables) = L
    /\ \A i \in 1 .. L : place[i] \in SUBSET D /\ tables[i] = Restrict(m, place[i])

Apart(L, place) == \A i, j \in 1 .. L : i # j => place[i] \cap place[j] = {}

\* Adding table by table is adding all places.
LEMMA AddedUpIsSum ==
  ASSUME NEW m, NEW D, Summable(m, D), NEW f, SumsOver(m, D, f),
         NEW L, NEW place, NEW tables, Spread(m, D, L, place, tables),
         Apart(L, place), NEW P, P = UNION {place[i] : i \in 1 .. L}
  PROVE  AddedUp(tables) = f[P]
<1> DEFINE Upto(n) == UNION {place[i] : i \in 1 .. n}
           Solves(g) == g = [n \in 0 .. L |->
               IF n = 0 THEN NoModifier ELSE Plus(g[n - 1], CalculateModifiers(tables[n]))]
           added == CHOOSE g : Solves(g)
           h == [n \in 0 .. L |-> f[Upto(n)]]
<1>1. L \in Nat /\ Len(tables) = L
  BY DEF Spread
<1>2. AddedUp(tables) = added[L]
  BY <1>1 DEF AddedUp
<1>3. Upto(0) = {} /\ \A n \in 0 .. L : Upto(n) \in SUBSET D
  BY <1>1 DEF Spread
<1>4. ASSUME NEW n \in 1 .. L
      PROVE  /\ Upto(n) = Upto(n - 1) \cup place[n]
             /\ Upto(n - 1) \cap place[n] = {}
             /\ n - 1 \in 0 .. L
             /\ n \in 0 .. L
  <2>1. 1 .. n = 1 .. n - 1 \cup {n} /\ n - 1 \in 0 .. L /\ n \in 0 .. L
    BY <1>1
  <2>2. \A i \in 1 .. n - 1 : i \in 1 .. L /\ i # n
    BY <1>1
  <2> QED BY <2>1, <2>2 DEF Apart
<1> HIDE DEF Upto
<1>5. ASSUME NEW n \in 1 .. L
      PROVE  h[n] = Plus(h[n - 1], CalculateModifiers(tables[n]))
  <2>1. f[Upto(n)] = Plus(f[Upto(n - 1)], f[place[n]])
    <3>1. Upto(n - 1) \in SUBSET D /\ place[n] \in SUBSET D
      BY <1>3, <1>4 DEF Spread
    <3>2. f[Upto(n - 1) \cup place[n]] = Plus(f[Upto(n - 1)], f[place[n]])
      BY SMTT(30), <1>4, <3>1, SplitSum
    <3> QED BY <1>4, <3>2
  <2>2. f[place[n]] = CalculateModifiers(tables[n])
    BY DEF SumsOver, Spread
  <2> QED BY <1>4, <2>1, <2>2
<1>6. h[0] = NoModifier
  <2>1. 0 \in 0 .. L
    BY <1>1
  <2>2. h[0] = f[Upto(0)]
    BY <2>1
  <2> QED BY <1>3, <2>2 DEF SumsOver
<1>7. Solves(h)
  <2> HIDE DEF h
  <2>1. h = [n \in 0 .. L |-> h[n]]
    BY DEF h
  <2>2. \A n \in 0 .. L : n = 0 \/ n \in 1 .. L
    BY <1>1
  <2> QED BY <1>5, <1>6, <2>1, <2>2
<1>8. Solves(added)
  <2> HIDE DEF h, Solves
  <2> QED BY <1>7
<1>9. added[0] = NoModifier
  <2> HIDE DEF added, h
  <2>1. 0 \in 0 .. L
    BY <1>1
  <2> QED BY <1>8, <2>1
<1>10. \A n \in 1 .. L : added[n] = Plus(added[n - 1], CalculateModifiers(tables[n]))
  <2> HIDE DEF added, h
  <2>1. \A n \in 1 .. L : n \in 0 .. L /\ n # 0
    BY <1>1
  <2> QED BY <1>8, <2>1
<1> HIDE DEF added, h, Solves
<1> DEFINE G == {n \in 0 .. L : added[n] = h[n]}
<1>11. 0 \in G
  BY <1>1, <1>6, <1>9
<1>12. ASSUME NEW n \in 1 .. L, n - 1 \in G PROVE n \in G
  <2>1. added[n] = Plus(h[n - 1], CalculateModifiers(tables[n]))
    BY <1>10, <1>12
  <2> QED BY <1>4, <1>5, <2>1
<1> HIDE DEF G
<1>13. 0 .. L \subseteq G
  BY <1>1, <1>11, <1>12, BoundedInduction
<1>14. L \in 0 .. L /\ L \in G
  BY <1>1, <1>13
<1>15. added[L] = f[Upto(L)]
  BY <1>14 DEF G, h
<1> QED BY <1>2, <1>15 DEF Upto

-----------------------------------------------------------------------------
(* The order in which a lookup looks at places.                            *)

\* The i-th place a lookup of v from s looks at: which scope of the walk, and which variable.
LooksAt(s, v, N, scope, name) ==
    /\ N \in Nat /\ Len(LooksAll(s, v)) = N /\ DOMAIN LooksAll(s, v) = 1 .. N
    /\ \A i \in 1 .. N : /\ scope[i] \in DOMAIN Order[s] /\ name[i] \in {v, Normalized(v)}
                         /\ LooksAll(s, v)[i] = <<Order[s][scope[i]], name[i]>>
    /\ \A i, k \in 1 .. N :
          i < k => \/ scope[i] < scope[k]
                   \/ /\ scope[i] = scope[k] /\ name[i] = Normalized(v)
                      /\ name[k] # Normalized(v)
    /\ \A j \in DOMAIN Order[s], w \in {v, Normalized(v)} :
          \E i \in 1 .. N : scope[i] = j /\ name[i] = w

\* A lookup looks at each scope of the walk, for one variable or two.
LEMMA LooksInOrder ==
  ASSUME NEW s \in Scopes, NEW v
  PROVE  \E N, scope, name : LooksAt(s, v, N, scope, name)
<1> DEFINE L == Len(Order[s])
           all == LooksAll(s, v)
<1>1. L \in Nat /\ DOMAIN Order[s] = 1 .. L
  BY OrderSweeps
<1>2. CASE v = Normalized(v)
  <2> DEFINE scope == [i \in 1 .. L |-> i]
             name == [i \in 1 .. L |-> v]
  <2>1. all = [i \in 1 .. L |-> <<Order[s][i], v>>]
    BY <1>1, <1>2 DEF LooksAll, Looks
  <2>2. Len(all) = L /\ DOMAIN all = 1 .. L
    <3>1. all \in Seq({<<Order[s][i], v>> : i \in 1 .. L})
      BY <1>1, <2>1, IsASeq
    <3> QED BY <1>1, <2>1, <3>1, LenProperties
  <2>3. LooksAt(s, v, L, scope, name)
    BY <1>1, <1>2, <2>1, <2>2 DEF LooksAt
  <2> QED BY <2>3
<1>3. CASE v # Normalized(v)
  <2> DEFINE Place(i) == IF i % 2 = 1 THEN (i + 1) \div 2 ELSE i \div 2
             Name(i) == IF i % 2 = 1 THEN Normalized(v) ELSE v
             N == 2 * L
             scope == [i \in 1 .. N |-> Place(i)]
             name == [i \in 1 .. N |-> Name(i)]
  <2>1. all = [i \in 1 .. N |-> <<Order[s][Place(i)], Name(i)>>]
    <3>1. all = [i \in 1 .. N |-> IF i % 2 = 1 THEN <<Order[s][(i + 1) \div 2], Normalized(v)>>
                                  ELSE <<Order[s][i \div 2], v>>]
      BY <1>3 DEF LooksAll
    <3>2. \A i \in 1 .. N :
              (IF i % 2 = 1 THEN <<Order[s][(i + 1) \div 2], Normalized(v)>>
               ELSE <<Order[s][i \div 2], v>>) = <<Order[s][Place(i)], Name(i)>>
      OBVIOUS
    <3> HIDE DEF all, N, Place, Name
    <3> QED BY <3>1, <3>2
  <2>2. Len(all) = N /\ DOMAIN all = 1 .. N /\ N \in Nat
    <3>1. N \in Nat
      BY <1>1
    <3> HIDE DEF N, all
    <3> DEFINE S == {<<Order[s][Place(i)], Name(i)>> : i \in 1 .. N}
    <3>2. all \in [1 .. N -> S]
      BY <2>1
    <3>3. all \in Seq(S)
      BY <3>1, <3>2, SeqDef
    <3> QED BY <3>1, <3>2, <3>3, LenProperties
  <2>3. \A i \in 1 .. N : Place(i) \in 1 .. L
    BY <1>1
  <2>4. \A i, k \in 1 .. N :
            i < k => \/ Place(i) < Place(k)
                     \/ Place(i) = Place(k) /\ i % 2 = 1 /\ k % 2 # 1
    BY <1>1
  <2>5. ASSUME NEW j \in 1 .. L
        PROVE  /\ 2 * j \in 1 .. N /\ Place(2 * j) = j /\ (2 * j) % 2 # 1
               /\ 2 * j - 1 \in 1 .. N /\ Place(2 * j - 1) = j /\ (2 * j - 1) % 2 = 1
    BY <1>1
  <2>6. \A i \in 1 .. N : i % 2 = 1 <=> Name(i) = Normalized(v)
    BY <1>3
  <2>7. \A j \in 1 .. L, w \in {v, Normalized(v)} : \E i \in 1 .. N : Place(i) = j /\ Name(i) = w
    <3>1. \A j \in 1 .. L : Name(2 * j) = v /\ Name(2 * j - 1) = Normalized(v)
      BY <2>5
    <3> HIDE DEF Place, Name, N
    <3> QED BY <2>5, <3>1
  <2> HIDE DEF Place, N
  <2>8. \A i \in 1 .. N : Name(i) \in {v, Normalized(v)}
    OBVIOUS
  <2> HIDE DEF Name
  <2>9. \A i \in 1 .. N : scope[i] = Place(i) /\ name[i] = Name(i)
    OBVIOUS
  <2> HIDE DEF scope, name, L, all
  <2>10. \A i \in 1 .. N : all[i] = <<Order[s][scope[i]], name[i]>>
    BY <2>1, <2>9
  <2>11. \A i, k \in 1 .. N :
          i < k => \/ scope[i] < scope[k]
                   \/ /\ scope[i] = scope[k] /\ name[i] = Normalized(v)
                      /\ name[k] # Normalized(v)
    BY <2>4, <2>6, <2>9
  <2>12. \A j \in 1 .. L, w \in {v, Normalized(v)} :
            \E i \in 1 .. N : scope[i] = j /\ name[i] = w
    BY <2>7, <2>9
  <2>13. LooksAt(s, v, N, scope, name)
    <3>1. N \in Nat /\ Len(all) = N /\ DOMAIN all = 1 .. N
      BY <2>2
    <3>2. DOMAIN Order[s] = 1 .. L
      BY <1>1
    <3>3. \A i \in 1 .. N : scope[i] \in 1 .. L /\ name[i] \in {v, Normalized(v)}
      BY <2>3, <2>8, <2>9
    <3> QED BY <2>10, <2>11, <2>12, <3>1, <3>2, <3>3 DEF LooksAt, all
  <2> QED BY <2>13
<1> QED BY <1>2, <1>3


-----------------------------------------------------------------------------
(* What is found in these places.                                          *)

PlacesOf(m, looks) == [i \in DOMAIN looks |-> Places(m, looks[i][1], looks[i][2])]

\* The places that a list of looks leads to, none of them twice.
Finds(m, looks, N, P) ==
    /\ N \in Nat /\ DOMAIN looks = 1 .. N
    /\ UNION {PlacesOf(m, looks)[i] : i \in 1 .. N} = P
    /\ Apart(N, PlacesOf(m, looks))

\* The tables a lookup looks at have the places it finds.
LEMMA TablesSpread ==
  ASSUME NEW m, NEW looks, NEW N, NEW P, Finds(m, looks, N, P), NEW D, P \subseteq D
  PROVE  Spread(m, D, N, PlacesOf(m, looks), Tables(m, looks))
<1> DEFINE tables == Tables(m, looks)
           place == PlacesOf(m, looks)
<1>1. N \in Nat /\ DOMAIN looks = 1 .. N
  BY DEF Finds
<1>2. tables = [i \in 1 .. N |-> Restrict(m, place[i])]
  BY <1>1 DEF Tables, PlacesOf
<1>3. \A i \in 1 .. N : place[i] \subseteq P
  BY DEF Finds
<1> HIDE DEF tables, place
<1> DEFINE S == {Restrict(m, place[i]) : i \in 1 .. N}
<1>4. tables \in [1 .. N -> S]
  BY <1>2
<1>5. tables \in Seq(S)
  BY <1>1, <1>4, SeqDef
<1>6. Len(tables) = N
  BY <1>1, <1>4, <1>5, LenProperties
<1>7. \A i \in 1 .. N : place[i] \in SUBSET D /\ tables[i] = Restrict(m, place[i])
  BY <1>2, <1>3
<1> QED BY <1>1, <1>6, <1>7 DEF Spread, tables, place

\* The modifiers of v itself.
Own(m, s, v) == {p \in DOMAIN m : p[1] \in Reach[s] /\ p[2] = v}

\* A lookup of one variable finds the places of that variable.
LEMMA OwnPlaces ==
  ASSUME NEW m, NEW s \in Scopes, NEW v
  PROVE  \E N : Finds(m, Looks(s, v), N, Own(m, s, v))
<1> DEFINE L == Len(Order[s])
           looks == Looks(s, v)
           place == PlacesOf(m, looks)
<1>1. L \in Nat /\ DOMAIN Order[s] = 1 .. L
  BY OrderSweeps
<1>2. DOMAIN looks = 1 .. L /\ \A i \in 1 .. L : looks[i] = <<Order[s][i], v>>
  BY <1>1 DEF Looks
<1>3. \A i \in 1 .. L : place[i] = Places(m, Order[s][i], v)
  BY <1>2 DEF PlacesOf
<1> HIDE DEF place, looks, L
<1>4. ASSUME NEW i \in 1 .. L, NEW j \in 1 .. L, i # j PROVE place[i] \cap place[j] = {}
  <2>1. Order[s][i] # Order[s][j]
    BY <1>1, <1>4, OrderSweeps DEF IsInjective
  <2> QED BY <1>3, <2>1 DEF Places
<1>5. ASSUME NEW p \in Own(m, s, v) PROVE \E i \in 1 .. L : p \in place[i]
  <2>1. p \in DOMAIN m /\ p[2] = v /\ p[1] \in Range(Order[s])
    BY OrderSweeps DEF Own
  <2>2. PICK i \in 1 .. L : Order[s][i] = p[1]
    BY <1>1, <2>1 DEF Range
  <2> QED BY <1>3, <2>1, <2>2 DEF Places
<1>6. ASSUME NEW i \in 1 .. L, NEW p \in place[i] PROVE p \in Own(m, s, v)
  <2>1. Order[s][i] \in Reach[s]
    BY <1>1, OrderSweeps DEF Range
  <2> QED BY <1>3, <2>1 DEF Places, Own
<1>7. UNION {place[i] : i \in 1 .. L} = Own(m, s, v)
  BY <1>5, <1>6
<1>8. Finds(m, looks, L, Own(m, s, v))
  BY <1>1, <1>2, <1>4, <1>7 DEF Finds, Apart, place
<1> QED BY <1>8 DEF looks

\* A lookup finds the places of the variable and of its normalized id.
LEMMA AllPlaces ==
  ASSUME NEW m, NEW s \in Scopes, NEW v, NEW N, NEW scope, NEW name,
         LooksAt(s, v, N, scope, name)
  PROVE  Finds(m, LooksAll(s, v), N, Own(m, s, v) \cup Own(m, s, Normalized(v)))
<1> DEFINE L == Len(Order[s])
           looks == LooksAll(s, v)
           place == PlacesOf(m, looks)
           P == Own(m, s, v) \cup Own(m, s, Normalized(v))
<1>1. L \in Nat /\ DOMAIN Order[s] = 1 .. L
  BY OrderSweeps
<1>2. /\ DOMAIN looks = 1 .. N /\ N \in Nat
      /\ \A i \in 1 .. N : /\ looks[i] = <<Order[s][scope[i]], name[i]>>
                           /\ scope[i] \in 1 .. L /\ name[i] \in {v, Normalized(v)}
  BY <1>1 DEF LooksAt
<1>3. \A i \in 1 .. N : place[i] = Places(m, Order[s][scope[i]], name[i])
  BY <1>2 DEF PlacesOf
<1> HIDE DEF place, looks, L
<1>4. ASSUME NEW i \in 1 .. N, NEW j \in 1 .. N, i < j PROVE place[i] \cap place[j] = {}
  <2> SUFFICES ASSUME NEW p, p \in place[i], p \in place[j] PROVE FALSE
    OBVIOUS
  <2>1. Order[s][scope[i]] = Order[s][scope[j]] /\ name[i] = name[j]
    BY <1>3 DEF Places
  <2>2. scope[i] = scope[j]
    BY <1>1, <1>2, <2>1, OrderSweeps DEF IsInjective
  <2>3. \/ scope[i] < scope[j]
        \/ name[i] = Normalized(v) /\ name[j] # Normalized(v)
    BY <1>4 DEF LooksAt
  <2>4. scope[i] \in Int /\ scope[j] \in Int
    BY <1>1, <1>2
  <2> QED BY <2>1, <2>2, <2>3, <2>4
<1>5. \A i, j \in 1 .. N : i # j => place[i] \cap place[j] = {}
  <2>1. \A i, j \in 1 .. N : i # j => i < j \/ j < i
    BY <1>2
  <2> QED BY <1>4, <2>1
<1>6. ASSUME NEW p \in P PROVE \E i \in 1 .. N : p \in place[i]
  <2>1. p \in DOMAIN m /\ p[2] \in {v, Normalized(v)} /\ p[1] \in Range(Order[s])
    BY OrderSweeps DEF Own
  <2>2. PICK j \in DOMAIN Order[s] : Order[s][j] = p[1]
    BY <1>1, <2>1 DEF Range
  <2>3. PICK i \in 1 .. N : scope[i] = j /\ name[i] = p[2]
    <3>1. \A w \in {v, Normalized(v)} : \E i \in 1 .. N : scope[i] = j /\ name[i] = w
      BY DEF LooksAt
    <3> QED BY <2>1, <3>1
  <2> QED BY <1>3, <2>1, <2>2, <2>3 DEF Places
<1>7. ASSUME NEW i \in 1 .. N, NEW p \in place[i] PROVE p \in P
  <2>1. Order[s][scope[i]] \in Reach[s]
    BY <1>1, <1>2, OrderSweeps DEF Range
  <2>2. p \in DOMAIN m /\ p[1] = Order[s][scope[i]] /\ p[2] = name[i]
    BY <1>3, <1>7 DEF Places
  <2> QED BY <1>2, <2>1, <2>2 DEF Own
<1> HIDE DEF P
<1>8. UNION {place[i] : i \in 1 .. N} = P
  BY <1>6, <1>7
<1>9. Finds(m, looks, N, P)
  BY <1>2, <1>5, <1>8 DEF Finds, Apart, place
<1> QED BY <1>9 DEF looks, P

\* What is in reach are the places of the variable and of its normalized id.
LEMMA ReachedPlaces ==
  ASSUME NEW s \in Scopes, NEW v
  PROVE  InReach(s, v) = Own(modifiers, s, v) \cup Own(modifiers, s, Normalized(v))
BY DEF InReach, Own

\* Numeric modifiers in reach can be added.
LEMMA ReachedNumbers ==
  ASSUME LookupInv, NEW s \in Scopes, NEW v \in AllVariables, IsNumeric(v)
  PROVE  Summable(modifiers, InReach(s, v))
<1>1. IsFiniteSet(InReach(s, v))
  <2>1. InReach(s, v) \subseteq DOMAIN modifiers /\ IsFiniteSet(DOMAIN modifiers)
    BY DEF InReach, LookupInv
  <2> QED BY <2>1, FS_Subset
<1>2. ASSUME NEW p \in InReach(s, v) PROVE modifiers[p] \in Amounts
  <2>1. p \in DOMAIN modifiers /\ IsNumeric(p[2])
    BY NormalizedNames DEF InReach
  <2>2. modifiers[p] \in NumericModifiers
    BY <2>1 DEF LookupInv, LookupTypeOK
  <2> QED BY <2>2, AmountsAssumption DEF NumericModifiers, Amounts
<1> QED BY <1>1, <1>2 DEF Summable

\* What a lookup adds up is the sum over the places it finds.
LEMMA FoundAddUp ==
  ASSUME NEW m, NEW D, Summable(m, D), NEW f, SumsOver(m, D, f),
         NEW looks, NEW N, NEW P \in SUBSET D, Finds(m, looks, N, P)
  PROVE  AddedUp(Tables(m, looks)) = f[P]
<1> DEFINE place == PlacesOf(m, looks)
           tables == Tables(m, looks)
<1>1. Spread(m, D, N, place, tables)
  BY TablesSpread
<1>2. Apart(N, place) /\ P = UNION {place[i] : i \in 1 .. N}
  BY DEF Finds
<1> HIDE DEF place, tables
<1>3. AddedUp(tables) = f[P]
  BY <1>1, <1>2, AddedUpIsSum
<1> QED BY <1>3 DEF tables

\* FillNumericModifiers adds up what is in reach.
LEMMA NumbersAreSums ==
  ASSUME LookupInv, NEW s \in Scopes, NEW v \in AllVariables, IsNumeric(v),
         NEW f, SumsOver(modifiers, InReach(s, v), f)
  PROVE  FillNumericModifiers(modifiers, s, v) = f[InReach(s, v)]
<1> DEFINE D == InReach(s, v)
<1>1. PICK N, scope, name : LooksAt(s, v, N, scope, name)
  BY LooksInOrder
<1>2. D = Own(modifiers, s, v) \cup Own(modifiers, s, Normalized(v))
  BY ReachedPlaces
<1>3. Summable(modifiers, D)
  BY ReachedNumbers
<1> HIDE DEF D
<1>4. Finds(modifiers, LooksAll(s, v), N, D)
  BY <1>1, <1>2, AllPlaces
<1>5. SumsOver(modifiers, D, f) /\ D \in SUBSET D
  BY DEF D
<1>6. AddedUp(Tables(modifiers, LooksAll(s, v))) = f[D]
  BY <1>3, <1>4, <1>5, FoundAddUp
<1> QED BY <1>6 DEF FillNumericModifiers, D

\* A number is the sum of all modifiers in reach, each taken once, in any graph of scopes
\* (FillNumericModifiers, CalculateModifiers).
THEOREM NumbersAddUp == Spec => []NumberIsSum
<1>1. ASSUME LookupInv, NEW s \in Scopes, NEW v \in AllVariables, IsNumeric(v)
      PROVE  GetNumericValue(modifiers, s, v) =
                 Value(CalculateModifiers(Restrict(modifiers, InReach(s, v))))
  <2> DEFINE D == InReach(s, v)
  <2>1. Summable(modifiers, D)
    BY <1>1, ReachedNumbers
  <2>2. PICK f : SumsOver(modifiers, D, f)
    <3> HIDE DEF D
    <3> QED BY <2>1, SumsExist
  <2>3. f[D] = CalculateModifiers(Restrict(modifiers, D))
    BY <2>2 DEF SumsOver
  <2>4. FillNumericModifiers(modifiers, s, v) = f[D]
    BY <1>1, <2>2, NumbersAreSums
  <2> HIDE DEF D
  <2>5. FillNumericModifiers(modifiers, s, v) = CalculateModifiers(Restrict(modifiers, D))
    BY <2>3, <2>4
  <2> QED BY <2>5 DEF GetNumericValue, D
<1>2. LookupInv => NumberIsSum
  BY <1>1 DEF NumberIsSum
<1> QED BY <1>2, InitLookup, NextLookup, PTL DEF Spec


-----------------------------------------------------------------------------
(* Strings.                                                                *)

Ranked(a) == a.level \in Int /\ a.key \in Nat

\* Modifiers of strings.
Levelled(m, D) ==
    /\ IsFiniteSet(D) /\ D \subseteq Writable
    /\ \A p \in D : m[p].level \in Int

\* Of two modifiers with different keys one is higher.
LEMMA HigherIsOrder ==
  ASSUME NEW x, Ranked(x), NEW y, Ranked(y)
  PROVE  /\ ~Higher(x, x)
         /\ Higher(x, y) => ~Higher(y, x)
         /\ x.key # y.key => Higher(x, y) \/ Higher(y, x)
         /\ ~Higher(x, y) /\ ~Higher(y, x) => x.level = y.level /\ x.key = y.key
BY DEF Ranked, Higher

\* What is higher than the higher is higher.
LEMMA HigherIsTransitive ==
  ASSUME NEW x, Ranked(x), NEW y, Ranked(y), NEW z, Ranked(z)
  PROVE  /\ Higher(x, y) /\ Higher(y, z) => Higher(x, z)
         /\ Higher(x, y) /\ ~Higher(z, y) => Higher(x, z)
         /\ ~Higher(y, x) /\ Higher(y, z) => Higher(x, z)
BY DEF Ranked, Higher

\* What is taken over of a modifier is its value, level and key.
LEMMA AccumulatorsAreRanked ==
  ASSUME NEW m, NEW D, Levelled(m, D), NEW p \in D
  PROVE  /\ Ranked(Accumulator(m, p)) /\ Accumulator(m, p).key = p[3]
         /\ Accumulator(m, p).value = m[p].value /\ Accumulator(m, p).level = m[p].level
         /\ p[3] \in Nat \ {0}
         /\ \A P : p \in P => Accumulator(Restrict(m, P), p) = Accumulator(m, p)
<1>1. p[3] \in Nat \ {0} /\ m[p].level \in Int
  BY KeysAssumption DEF Levelled, Null
<1> QED BY <1>1 DEF Ranked, Accumulator, Restrict

\* The keys of one table differ.
LEMMA KeysDiffer ==
  ASSUME NEW m, NEW D, Levelled(m, D), NEW t, NEW v, NEW p \in D, NEW q \in D, p # q,
         p \in Places(m, t, v), q \in Places(m, t, v)
  PROVE  p[3] # q[3]
<1>1. p[1] = q[1] /\ p[2] = q[2]
  BY DEF Places
<1>2. p \in Scopes \X AllVariables \X Nat /\ q \in Scopes \X AllVariables \X Nat
  BY KeysAssumption DEF Levelled
<1>3. p = <<p[1], p[2], p[3]>> /\ q = <<q[1], q[2], q[3]>>
  BY <1>2
<1> QED BY <1>1, <1>3

\* What a is after the modifiers of P are merged into it.
Wins(m, P, a, b) ==
    \/ b = a /\ \A q \in P : ~Higher(Accumulator(m, q), a)
    \/ \E p \in P : /\ b = Accumulator(m, p) /\ Higher(b, a)
                    /\ \A q \in P \ {p} : Higher(b, Accumulator(m, q))

\* Merging a table keeps the highest of it and of what there was.
LEMMA MergePicksHighest ==
  ASSUME NEW m, NEW D, Levelled(m, D), NEW P \in SUBSET D, NEW a, Ranked(a),
         \A p, q \in P : p # q => p[3] # q[3]
  PROVE  Wins(m, P, a, MergeModifiers(Restrict(m, P), a))
<1> DEFINE Acc(p) == Accumulator(m, p)
           found == {x \in {Acc(p) : p \in P} : Higher(x, a)}
           R == {r \in found \X found : Higher(r[1], r[2])}
<1>1. \A p \in P : Ranked(Acc(p)) /\ Acc(p).key = p[3]
  BY AccumulatorsAreRanked
<1>2. MergeModifiers(Restrict(m, P), a) =
          IF found = {} THEN a ELSE CHOOSE x \in found : \A y \in found \ {x} : Higher(x, y)
  <2>1. DOMAIN Restrict(m, P) = P
    BY DEF Restrict
  <2>2. \A p \in P : Accumulator(Restrict(m, P), p) = Acc(p)
    BY AccumulatorsAreRanked
  <2> DEFINE T == Restrict(m, P)
             all == {Accumulator(T, p) : p \in DOMAIN T}
  <2>3. all = {Acc(p) : p \in P}
    <3> HIDE DEF Acc
    <3> QED BY <2>1, <2>2
  <2>4. MergeModifiers(T, a) = LET up == {x \in all : Higher(x, a)}
                               IN  IF up = {} THEN a
                                   ELSE CHOOSE x \in up : \A y \in up \ {x} : Higher(x, y)
    BY DEF MergeModifiers
  <2> HIDE DEF T, all
  <2>5. {x \in all : Higher(x, a)} = found
    BY <2>3
  <2> HIDE DEF found
  <2>6. MergeModifiers(T, a) = IF found = {} THEN a
                               ELSE CHOOSE x \in found : \A y \in found \ {x} : Higher(x, y)
    BY <2>4, <2>5
  <2> QED BY <2>6 DEF T
<1>3. CASE found = {}
  <2>1. \A q \in P : ~Higher(Acc(q), a)
    BY <1>3
  <2> QED BY <1>2, <1>3, <2>1 DEF Wins
<1>4. CASE found # {}
  <2>1. IsFiniteSet(found)
    <3>1. IsFiniteSet(P)
      BY FS_Subset DEF Levelled
    <3>2. IsFiniteSet({Acc(p) : p \in P})
      <4> DEFINE g == [p \in P |-> Acc(p)]
      <4>1. g \in Surjection(P, {Acc(p) : p \in P})
        BY DEF Surjection
      <4> HIDE DEF g, Acc
      <4> QED BY <3>1, <4>1, FS_Surjection
    <3>3. found \subseteq {Acc(p) : p \in P}
      OBVIOUS
    <3> QED BY <3>2, <3>3, FS_Subset
  <2>2. \A x \in found : Higher(x, a) /\ \E p \in P : x = Acc(p)
    OBVIOUS
  <2> HIDE DEF found
  <2>3. \A x \in found : Ranked(x)
    <3> HIDE DEF Acc
    <3> QED BY <1>1, <2>2
  <2>4. \A x, y \in found : <<x, y>> \in R <=> Higher(x, y)
    OBVIOUS
  <2>5. \A x, y \in found : x # y => <<x, y>> \in R \/ <<y, x>> \in R
    <3> SUFFICES ASSUME NEW x \in found, NEW y \in found, x # y
                 PROVE  Higher(x, y) \/ Higher(y, x)
      BY <2>4
    <3>1. PICK p \in P : x = Acc(p)
      BY <2>2
    <3>2. PICK q \in P : y = Acc(q)
      BY <2>2
    <3> HIDE DEF Acc
    <3>3. p # q
      BY <3>1, <3>2
    <3>4. x.key # y.key
      BY <1>1, <3>1, <3>2, <3>3
    <3> QED BY <2>3, <3>4, HigherIsOrder
  <2>6. \A x, y, z \in found : <<x, y>> \in R /\ <<y, z>> \in R => <<x, z>> \in R
    BY <2>3, <2>4, HigherIsTransitive
  <2>7. \E x \in found : \A y \in found \ {x} : <<x, y>> \in R
    <3> HIDE DEF R
    <3> QED BY <1>4, <2>1, <2>5, <2>6, HighestExists
  <2>8. \E x \in found : \A y \in found \ {x} : Higher(x, y)
    BY <2>4, <2>7
  <2> DEFINE b == CHOOSE x \in found : \A y \in found \ {x} : Higher(x, y)
  <2>9. b \in found /\ \A y \in found \ {b} : Higher(b, y)
    BY <2>8
  <2>10. MergeModifiers(Restrict(m, P), a) = b
    BY <1>2, <1>4
  <2> HIDE DEF b
  <2>11. PICK p \in P : b = Acc(p)
    BY <2>2, <2>9
  <2>12. Higher(b, a) /\ Ranked(b)
    BY <2>2, <2>3, <2>9
  <2>13. ASSUME NEW q \in P \ {p} PROVE Higher(b, Acc(q))
    <3> HIDE DEF Acc
    <3>1. Acc(q) # b /\ Ranked(Acc(q))
      BY <1>1, <2>11
    <3>2. CASE Higher(Acc(q), a)
      <4>1. Acc(q) \in found
        BY <3>2 DEF found
      <4> QED BY <2>9, <3>1, <4>1
    <3>3. CASE ~Higher(Acc(q), a)
      BY <2>12, <3>1, <3>3, HigherIsTransitive
    <3> QED BY <3>2, <3>3
  <2> QED BY <2>10, <2>11, <2>12, <2>13 DEF Wins
<1> QED BY <1>3, <1>4


\* What is found in the first n places: start, or the first of the highest.
Highest(m, start, place, n, a) ==
    \/ a = start /\ \A j \in 1 .. n : \A q \in place[j] : ~Higher(Accumulator(m, q), start)
    \/ \E i \in 1 .. n : \E p \in place[i] :
          /\ a = Accumulator(m, p) /\ Higher(a, start)
          /\ \A j \in 1 .. n : \A q \in place[j] : ~Higher(Accumulator(m, q), a)
          /\ \A j \in 1 .. i : \A q \in place[j] : q # p => Higher(a, Accumulator(m, q))

\* The highest found so far is no lower than any.
LEMMA HighestIsRanked ==
  ASSUME NEW m, NEW D, Levelled(m, D), NEW start, Ranked(start), NEW n, NEW place, NEW a,
         \A j \in 1 .. n : place[j] \in SUBSET D, Highest(m, start, place, n, a)
  PROVE  /\ Ranked(a) /\ (a = start \/ Higher(a, start))
         /\ \A j \in 1 .. n : \A q \in place[j] : ~Higher(Accumulator(m, q), a)
<1>1. CASE a = start /\ \A j \in 1 .. n : \A q \in place[j] : ~Higher(Accumulator(m, q), start)
  BY <1>1
<1>2. ASSUME NEW i \in 1 .. n, NEW p \in place[i],
             /\ a = Accumulator(m, p) /\ Higher(a, start)
             /\ \A j \in 1 .. n : \A q \in place[j] : ~Higher(Accumulator(m, q), a)
      PROVE  /\ Ranked(a) /\ Higher(a, start)
             /\ \A j \in 1 .. n : \A q \in place[j] : ~Higher(Accumulator(m, q), a)
  <2>1. p \in D
    OBVIOUS
  <2> QED BY <1>2, <2>1, AccumulatorsAreRanked
<1> QED BY <1>1, <1>2 DEF Highest

\* The highest of some tables, merged with one more, is the highest of all.
LEMMA HighestOfMore ==
  ASSUME NEW m, NEW D, Levelled(m, D), NEW start, Ranked(start), NEW N \in Nat,
         NEW n \in 1 .. N, NEW place, \A j \in 1 .. N : place[j] \in SUBSET D,
         NEW a, Highest(m, start, place, n - 1, a), NEW b, Wins(m, place[n], a, b)
  PROVE  Highest(m, start, place, n, b)
<1>1. /\ \A j \in 1 .. n - 1 : j \in 1 .. N /\ j \in 1 .. n
      /\ \A j \in 1 .. n : j \in 1 .. N /\ (j \in 1 .. n - 1 \/ j = n)
      /\ n \in 1 .. n
  OBVIOUS
<1>2. /\ Ranked(a) /\ (a = start \/ Higher(a, start))
      /\ \A j \in 1 .. n - 1 : \A q \in place[j] : ~Higher(Accumulator(m, q), a)
  <2>1. \A j \in 1 .. n - 1 : place[j] \in SUBSET D
    BY <1>1
  <2> QED BY <2>1, HighestIsRanked
<1>3. \A j \in 1 .. n : \A q \in place[j] : Ranked(Accumulator(m, q))
  BY <1>1, AccumulatorsAreRanked
<1>4. CASE b = a /\ \A q \in place[n] : ~Higher(Accumulator(m, q), a)
  <2>1. \A j \in 1 .. n : \A q \in place[j] : ~Higher(Accumulator(m, q), a)
    BY <1>1, <1>2, <1>4
  <2>2. CASE a = start /\ \A j \in 1 .. n - 1 : \A q \in place[j] :
                 ~Higher(Accumulator(m, q), start)
    BY <1>4, <2>1, <2>2 DEF Highest
  <2>3. ASSUME NEW i \in 1 .. n - 1, NEW p \in place[i], a = Accumulator(m, p),
               Higher(a, start),
               \A j \in 1 .. i : \A q \in place[j] : q # p => Higher(a, Accumulator(m, q))
        PROVE  Highest(m, start, place, n, b)
    <3>1. i \in 1 .. n
      BY <1>1
    <3> QED BY <1>4, <2>1, <2>3, <3>1 DEF Highest
  <2> QED BY <2>2, <2>3 DEF Highest
<1>5. ASSUME NEW p \in place[n], b = Accumulator(m, p), Higher(b, a),
             \A q \in place[n] \ {p} : Higher(b, Accumulator(m, q))
      PROVE  Highest(m, start, place, n, b)
  <2>1. Ranked(b)
    BY <1>1, <1>3, <1>5
  <2>2. Higher(b, start)
    BY <1>2, <1>5, <2>1, HigherIsTransitive
  <2>3. ASSUME NEW j \in 1 .. n, NEW q \in place[j], q # p
        PROVE  Higher(b, Accumulator(m, q))
    <3>1. CASE j = n
      BY <1>5, <2>3, <3>1
    <3>2. CASE j \in 1 .. n - 1
      <4>1. ~Higher(Accumulator(m, q), a) /\ Ranked(Accumulator(m, q))
        BY <1>2, <1>3, <3>2
      <4> QED BY <1>2, <1>5, <2>1, <4>1, HigherIsTransitive
    <3> QED BY <1>1, <3>1, <3>2
  <2>4. ASSUME NEW j \in 1 .. n, NEW q \in place[j]
        PROVE  ~Higher(Accumulator(m, q), b)
    <3>1. CASE q = p
      BY <1>5, <2>1, <3>1, HigherIsOrder
    <3>2. CASE q # p
      BY <1>3, <2>1, <2>3, <3>2, HigherIsOrder
    <3> QED BY <3>1, <3>2
  <2> QED BY <1>1, <1>5, <2>2, <2>3, <2>4 DEF Highest
<1> QED BY <1>4, <1>5 DEF Wins

\* Merging table by table keeps the highest of all places, the first of equal ones.
LEMMA MergedUpIsHighest ==
  ASSUME NEW m, NEW D, Levelled(m, D), NEW start, Ranked(start),
         NEW L, NEW place, NEW tables, Spread(m, D, L, place, tables),
         \A i \in 1 .. L : \A p, q \in place[i] : p # q => p[3] # q[3]
  PROVE  Highest(m, start, place, L, MergedUp(start, tables))
<1> DEFINE V == {start} \cup {Accumulator(m, p) : p \in D}
           step == [x \in (1 .. L) \X V |-> MergeModifiers(tables[x[1]], x[2])]
           Solves(g) == g = [n \in 0 .. L |->
                                IF n = 0 THEN start ELSE MergeModifiers(tables[n], g[n - 1])]
           merged == CHOOSE g : Solves(g)
<1>1. L \in Nat /\ Len(tables) = L
  BY DEF Spread
<1>2. MergedUp(start, tables) = merged[L]
  BY <1>1 DEF MergedUp
<1>3. \A a \in V : Ranked(a)
  BY AccumulatorsAreRanked
<1>4. ASSUME NEW n \in 1 .. L, NEW a, Ranked(a)
      PROVE  Wins(m, place[n], a, MergeModifiers(tables[n], a))
  <2>1. place[n] \in SUBSET D /\ tables[n] = Restrict(m, place[n])
    BY DEF Spread
  <2> QED BY <1>4, <2>1, MergePicksHighest
<1>5. \A n \in 1 .. L : \A a \in V : step[<<n, a>>] = MergeModifiers(tables[n], a)
  OBVIOUS
<1>6. ASSUME NEW n \in 1 .. L, NEW a \in V
      PROVE  MergeModifiers(tables[n], a) \in V
  <2>1. place[n] \in SUBSET D
    BY DEF Spread
  <2>2. Wins(m, place[n], a, MergeModifiers(tables[n], a))
    BY <1>3, <1>4
  <2> DEFINE b == MergeModifiers(tables[n], a)
  <2> HIDE DEF b
  <2>3. b = a \/ \E p \in D : b = Accumulator(m, p)
    BY <2>1, <2>2 DEF Wins, b
  <2> QED BY <2>3 DEF b
<1> HIDE DEF V, step
<1>7. start \in V
  BY DEF V
<1>8. PICK f : Computes(f, V, start, L, step)
  BY <1>1, <1>5, <1>6, <1>7, RecursionExists DEF Stays
<1>9. Solves(f)
  <2>1. f \in [0 .. L -> V] /\ f[0] = start
    BY <1>8 DEF Computes
  <2>2. ASSUME NEW n \in 1 .. L PROVE f[n] = MergeModifiers(tables[n], f[n - 1])
    <3>1. f[n - 1] \in V
      BY <1>1, <2>1
    <3> QED BY <1>5, <1>8, <3>1 DEF Computes
  <2>3. \A n \in 0 .. L : n = 0 \/ n \in 1 .. L
    BY <1>1
  <2> QED BY <2>1, <2>2, <2>3
<1>10. Solves(merged)
  <2> HIDE DEF Solves
  <2> QED BY <1>9
<1> HIDE DEF merged
<1>11. merged[0] = start /\ \A n \in 1 .. L : merged[n] = MergeModifiers(tables[n], merged[n - 1])
  <2>1. 0 \in 0 .. L /\ \A n \in 1 .. L : n \in 0 .. L /\ n # 0
    BY <1>1
  <2> QED BY <1>10, <2>1
<1> HIDE DEF Solves
<1> DEFINE G == {n \in 0 .. L : Highest(m, start, place, n, merged[n])}
<1>12. 0 \in G
  <2>1. 0 \in 0 .. L /\ \A j \in 1 .. 0 : FALSE
    BY <1>1
  <2> QED BY <1>11, <2>1 DEF Highest
<1>13. ASSUME NEW n \in 1 .. L, n - 1 \in G PROVE n \in G
  <2>1. \A j \in 1 .. L : place[j] \in SUBSET D
    BY DEF Spread
  <2>2. \A j \in 1 .. n - 1 : place[j] \in SUBSET D
    BY <1>1, <2>1
  <2>3. Highest(m, start, place, n - 1, merged[n - 1])
    BY <1>13
  <2>4. Ranked(merged[n - 1])
    BY <2>2, <2>3, HighestIsRanked
  <2>5. Wins(m, place[n], merged[n - 1], merged[n])
    BY <1>4, <1>11, <2>4
  <2>6. Highest(m, start, place, n, merged[n])
    BY <1>1, <2>1, <2>3, <2>5, HighestOfMore
  <2>7. n \in 0 .. L
    BY <1>1
  <2> QED BY <2>6, <2>7
<1> HIDE DEF G
<1>14. 0 .. L \subseteq G
  BY <1>1, <1>12, <1>13, BoundedInduction
<1>15. L \in G
  BY <1>1, <1>14
<1> QED BY <1>2, <1>15 DEF G

\* What a lookup merges is the highest of the places it finds.
LEMMA FoundMergeUp ==
  ASSUME NEW m, NEW D, Levelled(m, D), NEW start, Ranked(start),
         NEW looks, NEW N, NEW P \in SUBSET D, Finds(m, looks, N, P)
  PROVE  Highest(m, start, PlacesOf(m, looks), N, MergedUp(start, Tables(m, looks)))
<1> DEFINE place == PlacesOf(m, looks)
           tables == Tables(m, looks)
<1>1. Spread(m, D, N, place, tables)
  BY TablesSpread
<1>2. ASSUME NEW i \in 1 .. N, NEW p \in place[i], NEW q \in place[i], p # q
      PROVE  p[3] # q[3]
  <2>1. place[i] = Places(m, looks[i][1], looks[i][2])
    BY DEF Finds, PlacesOf
  <2>2. place[i] \in SUBSET D
    BY <1>1 DEF Spread
  <2> HIDE DEF place
  <2> QED BY <1>2, <2>1, <2>2, KeysDiffer
<1> HIDE DEF place, tables
<1>3. Highest(m, start, place, N, MergedUp(start, tables))
  BY <1>1, <1>2, MergedUpIsHighest
<1> QED BY <1>3 DEF place, tables


\* String modifiers in reach have levels and keys.
LEMMA ReachedStrings ==
  ASSUME LookupInv, NEW s \in Scopes, NEW v \in AllVariables, ~IsNumeric(v)
  PROVE  Levelled(modifiers, InReach(s, v))
<1>1. IsFiniteSet(InReach(s, v))
  <2>1. InReach(s, v) \subseteq DOMAIN modifiers /\ IsFiniteSet(DOMAIN modifiers)
    BY DEF InReach, LookupInv
  <2> QED BY <2>1, FS_Subset
<1>2. ASSUME NEW p \in InReach(s, v) PROVE p \in Writable /\ modifiers[p].level \in Int
  <2>1. p \in DOMAIN modifiers /\ ~IsNumeric(p[2])
    BY NormalizedNames DEF InReach
  <2>2. p \in Writable /\ modifiers[p] \in StringModifiers
    BY <2>1 DEF LookupInv, LookupTypeOK
  <2> QED BY <2>2, AmountsAssumption DEF StringModifiers
<1> QED BY <1>1, <1>2 DEF Levelled

\* A lookup starts below every modifier of level 0.
LEMMA StartIsRanked ==
  ASSUME NEW value
  PROVE  /\ Ranked(Start(value)) /\ Start(value).value = value
         /\ Start(value).level = 0 /\ Start(value).key = 0
BY DEF Ranked, Start, Null

\* Whatever has a key and no negative level is higher than a start.
LEMMA HigherThanStart ==
  ASSUME NEW a, Ranked(a), NEW value
  PROVE  /\ Higher(a, Start(value)) => a.level >= 0
         /\ a.level >= 0 /\ a.key # 0 => Higher(a, Start(value))
BY StartIsRanked DEF Ranked, Higher

\* FillStringModifiers keeps the highest of what is in reach.
LEMMA StringsAreHighest ==
  ASSUME LookupInv, NEW s \in Scopes, NEW v \in AllVariables, ~IsNumeric(v)
  PROVE  \E N, scope, name :
            /\ LooksAt(s, v, N, scope, name)
            /\ Finds(modifiers, LooksAll(s, v), N, InReach(s, v))
            /\ \A i \in 1 .. N : PlacesOf(modifiers, LooksAll(s, v))[i] =
                                     Places(modifiers, Order[s][scope[i]], name[i])
            /\ Highest(modifiers, Start(DefaultValue), PlacesOf(modifiers, LooksAll(s, v)), N,
                       FillStringModifiers(modifiers, s, v))
<1> DEFINE D == InReach(s, v)
<1>1. PICK N, scope, name : LooksAt(s, v, N, scope, name)
  BY LooksInOrder
<1>2. D = Own(modifiers, s, v) \cup Own(modifiers, s, Normalized(v))
  BY ReachedPlaces
<1>3. Levelled(modifiers, D)
  BY ReachedStrings
<1> HIDE DEF D
<1>4. Finds(modifiers, LooksAll(s, v), N, D)
  BY <1>1, <1>2, AllPlaces
<1>5. \A i \in 1 .. N : PlacesOf(modifiers, LooksAll(s, v))[i] =
                            Places(modifiers, Order[s][scope[i]], name[i])
  <2>1. /\ DOMAIN LooksAll(s, v) = 1 .. N
        /\ \A i \in 1 .. N : LooksAll(s, v)[i] = <<Order[s][scope[i]], name[i]>>
    BY <1>1 DEF LooksAt
  <2> QED BY <2>1 DEF PlacesOf
<1>6. D \in SUBSET D /\ Ranked(Start(DefaultValue))
  BY StartIsRanked
<1>7. Highest(modifiers, Start(DefaultValue), PlacesOf(modifiers, LooksAll(s, v)), N,
              FillStringModifiers(modifiers, s, v))
  BY <1>3, <1>4, <1>6, FoundMergeUp DEF FillStringModifiers
<1> QED BY <1>1, <1>4, <1>5, <1>7 DEF D

Best(s, v) ==
    {p \in InReach(s, v) :
        /\ modifiers[p].level >= 0
        /\ \A q \in InReach(s, v) : ~Higher(Accumulator(modifiers, q), Accumulator(modifiers, p))}

\* Among equal ones it is the first in the order of the walk.
LEMMA FirstOfBest ==
  ASSUME LookupInv, NEW s \in Scopes, NEW v \in AllVariables, ~IsNumeric(v)
  PROVE  \/ Best(s, v) = {} /\ GetStringValue(modifiers, s, v) = DefaultValue
         \/ \E p \in Best(s, v) : /\ GetStringValue(modifiers, s, v) = modifiers[p].value
                                  /\ \A q \in Best(s, v) \ {p} : ComesBefore(s, p, q)
<1> DEFINE D == InReach(s, v)
           looks == LooksAll(s, v)
           place == PlacesOf(modifiers, looks)
           start == Start(DefaultValue)
           a == FillStringModifiers(modifiers, s, v)
           Acc(p) == Accumulator(modifiers, p)
<1>1. PICK N, scope, name :
          /\ LooksAt(s, v, N, scope, name)
          /\ Finds(modifiers, looks, N, D)
          /\ \A i \in 1 .. N : place[i] = Places(modifiers, Order[s][scope[i]], name[i])
          /\ Highest(modifiers, start, place, N, a)
  BY StringsAreHighest
<1>2. D = UNION {place[i] : i \in 1 .. N}
  BY <1>1 DEF Finds
<1>3. Levelled(modifiers, D)
  BY ReachedStrings
<1>4. GetStringValue(modifiers, s, v) = a.value
  BY DEF GetStringValue
<1> HIDE DEF D, looks, place, start, a
<1>5. \A p \in D : /\ Ranked(Acc(p)) /\ Acc(p).key = p[3] /\ p[3] \in Nat \ {0}
                   /\ Acc(p).level = modifiers[p].level /\ Acc(p).value = modifiers[p].value
  BY <1>3, AccumulatorsAreRanked
<1>6. \A p : p \in Best(s, v) <=> /\ p \in D /\ Acc(p).level >= 0
                                  /\ \A q \in D : ~Higher(Acc(q), Acc(p))
  BY <1>5 DEF Best, D
<1>7. \A i \in 1 .. N : \A p \in place[i] : p \in D
  BY <1>2
<1>8. CASE a = start /\ \A j \in 1 .. N : \A q \in place[j] : ~Higher(Acc(q), start)
  <2>1. \A q \in D : ~Higher(Acc(q), start)
    BY <1>2, <1>8
  <2>2. ASSUME NEW p \in Best(s, v) PROVE FALSE
    BY <1>5, <1>6, <2>1, HigherThanStart DEF start
  <2>3. a.value = DefaultValue
    BY <1>8, StartIsRanked DEF start
  <2> QED BY <1>4, <2>2, <2>3
<1>9. ASSUME NEW i \in 1 .. N, NEW p \in place[i], a = Acc(p), Higher(a, start),
             \A j \in 1 .. N : \A q \in place[j] : ~Higher(Acc(q), a),
             \A j \in 1 .. i : \A q \in place[j] : q # p => Higher(a, Acc(q))
      PROVE  \E r \in Best(s, v) : /\ GetStringValue(modifiers, s, v) = modifiers[r].value
                                   /\ \A q \in Best(s, v) \ {r} : ComesBefore(s, r, q)
  <2>1. p \in D /\ a.value = modifiers[p].value
    BY <1>5, <1>7, <1>9
  <2>2. p \in Best(s, v)
    <3>1. Acc(p).level >= 0
      BY <1>5, <1>9, <2>1, HigherThanStart DEF start
    <3>2. \A q \in D : ~Higher(Acc(q), Acc(p))
      BY <1>2, <1>9
    <3> QED BY <1>6, <2>1, <3>1, <3>2
  <2>3. ASSUME NEW q \in Best(s, v) \ {p} PROVE ComesBefore(s, p, q)
    <3>1. q \in D /\ ~Higher(a, Acc(q))
      BY <1>6, <1>9, <2>1
    <3>2. PICK j \in 1 .. N : q \in place[j]
      BY <1>2, <3>1
    <3>3. N \in Nat /\ i < j
      <4>1. N \in Nat
        BY <1>1 DEF Finds
      <4>2. j \notin 1 .. i
        BY <1>9, <2>3, <3>1, <3>2
      <4> QED BY <4>1, <4>2
    <3>4. p[1] = Order[s][scope[i]] /\ p[2] = name[i] /\ q[1] = Order[s][scope[j]]
      BY <1>1, <3>2 DEF Places
    <3>5. scope[i] \in DOMAIN Order[s] /\ scope[j] \in DOMAIN Order[s]
      BY <1>1 DEF LooksAt
    <3>6. scope[i] < scope[j] \/ (scope[i] = scope[j] /\ name[i] = Normalized(v))
      BY <1>1, <3>3 DEF LooksAt
    <3>7. name[i] = Normalized(v) => p[2] = Normalized(p[2])
      BY <3>4, NormalizedTwice
    <3> QED BY <3>4, <3>5, <3>6, <3>7 DEF ComesBefore
  <2> QED BY <1>4, <2>1, <2>2, <2>3
<1> QED BY <1>1, <1>8, <1>9 DEF Highest

\* A string is the one of highest level and then of highest key in reach, the first of these
\* in the order of the walk, in any graph of scopes; it is the default only if no level in
\* reach is 0 or more (MergeModifiers, FillStringModifiers).
THEOREM StringsAreHighestInReach == Spec => []StringIsHighest
<1>1. LookupInv => StringIsHighest
  BY FirstOfBest DEF StringIsHighest, Best
<1> QED BY <1>1, InitLookup, NextLookup, PTL DEF Spec


-----------------------------------------------------------------------------
(* Queries.                                                                *)

LEMMA Materialized ==
  ASSUME NEW m, NEW s \in Scopes, NEW q \in Queries, NEW v \in MaterializedIds(m, s, q)
  PROVE  /\ v \in AllVariables /\ v # Normalized(v) /\ Normalized(v) \in AllVariables
         /\ Normalized(q) = Normalized(v)
         /\ IsNumeric(v) <=> IsNumeric(q)
<1>1. v \in AllVariables /\ QueryMatchesConcreteId(q, v)
  BY DEF MaterializedIds, AllVariables
<1>2. DOMAIN q = DOMAIN v /\ v # Normalized(v) /\ q[1] = v[1]
  BY <1>1, NamesAssumption DEF QueryMatchesConcreteId
<1>3. Normalized(q) = Normalized(v)
  BY <1>2 DEF Normalized
<1> QED BY <1>1, <1>2, <1>3, NormalizedNames DEF IsNumeric

\* A query gives a number the value a plain lookup gives it.
LEMMA NumericQueriesAgree ==
  ASSUME LookupInv, NEW s \in Scopes, NEW q \in Queries, IsNumeric(q),
         NEW v \in MaterializedIds(modifiers, s, q)
  PROVE  GetNumericQuery(modifiers, s, q)[v] = GetNumericValue(modifiers, s, v)
<1> DEFINE D == InReach(s, v)
           mine == Own(modifiers, s, v)
           normal == Own(modifiers, s, Normalized(v))
<1>1. /\ v \in AllVariables /\ v # Normalized(v) /\ Normalized(q) = Normalized(v)
      /\ IsNumeric(v)
  BY Materialized
<1>2. D = mine \cup normal
  BY ReachedPlaces
<1>3. mine \cap normal = {}
  BY <1>1 DEF Own
<1>4. Summable(modifiers, D)
  BY <1>1, ReachedNumbers
<1> HIDE DEF D, mine, normal
<1>5. PICK f : SumsOver(modifiers, D, f)
  BY <1>4, SumsExist
<1>6. mine \in SUBSET D /\ normal \in SUBSET D
  BY <1>2
<1>7. Collected(modifiers, s, v) = f[mine]
  <2>1. PICK N : Finds(modifiers, Looks(s, v), N, mine)
    BY OwnPlaces DEF mine
  <2> QED BY <1>4, <1>5, <1>6, <2>1, FoundAddUp DEF Collected
<1>8. Collected(modifiers, s, Normalized(q)) = f[normal]
  <2>1. PICK N : Finds(modifiers, Looks(s, Normalized(v)), N, normal)
    BY OwnPlaces DEF normal
  <2>2. Collected(modifiers, s, Normalized(v)) = f[normal]
    BY <1>4, <1>5, <1>6, <2>1, FoundAddUp DEF Collected
  <2> QED BY <1>1, <2>2
<1>9. FillNumericModifiers(modifiers, s, v) = f[D]
  BY <1>1, <1>5, NumbersAreSums DEF D
<1>10. f[D] = Plus(f[mine], f[normal])
  BY SMTT(30), <1>2, <1>3, <1>4, <1>5, <1>6, SplitSum
<1>11. GetNumericQuery(modifiers, s, q)[v] =
           Value(Plus(Collected(modifiers, s, v), Collected(modifiers, s, Normalized(q))))
  BY DEF GetNumericQuery
<1>12. GetNumericQuery(modifiers, s, q)[v] = Value(FillNumericModifiers(modifiers, s, v))
  BY <1>7, <1>8, <1>9, <1>10, <1>11
<1> QED BY <1>12 DEF GetNumericValue

\* The highest of the modifiers of P, or start if none is higher.
Chosen(m, P, start, a) ==
    \/ a = start /\ \A q \in P : ~Higher(Accumulator(m, q), start)
    \/ \E p \in P : /\ a = Accumulator(m, p) /\ Higher(a, start)
                    /\ \A q \in P : ~Higher(Accumulator(m, q), a)

\* The highest of the places that were found is one of them, or the start.
LEMMA HighestIsChosen ==
  ASSUME NEW m, NEW looks, NEW N, NEW P, Finds(m, looks, N, P), NEW start, NEW a,
         Highest(m, start, PlacesOf(m, looks), N, a)
  PROVE  Chosen(m, P, start, a)
<1> DEFINE place == PlacesOf(m, looks)
<1>1. P = UNION {place[i] : i \in 1 .. N} /\ Highest(m, start, place, N, a)
  BY DEF Finds
<1> HIDE DEF place
<1>2. \A i \in 1 .. N : \A p \in place[i] : p \in P
  BY <1>1
<1>3. \A p \in P : \E i \in 1 .. N : p \in place[i]
  BY <1>1
<1>4. CASE a = start /\ \A j \in 1 .. N : \A q \in place[j] : ~Higher(Accumulator(m, q), start)
  BY <1>3, <1>4 DEF Chosen
<1>5. ASSUME NEW i \in 1 .. N, NEW p \in place[i], a = Accumulator(m, p), Higher(a, start),
             \A j \in 1 .. N : \A q \in place[j] : ~Higher(Accumulator(m, q), a)
      PROVE  Chosen(m, P, start, a)
  BY <1>2, <1>3, <1>5 DEF Chosen
<1> QED BY <1>1, <1>4, <1>5 DEF Highest

\* What is chosen is no lower than any place and than the start.
LEMMA ChosenIsRanked ==
  ASSUME NEW m, NEW D, Levelled(m, D), NEW P \in SUBSET D, NEW value, NEW a,
         Chosen(m, P, Start(value), a)
  PROVE  /\ Ranked(a) /\ \A p \in P : ~Higher(Accumulator(m, p), a)
         /\ ~Higher(Start(value), a)
         /\ a = Start(value) \/ \E p \in P : a = Accumulator(m, p) /\ Higher(a, Start(value))
<1>1. Ranked(Start(value)) /\ ~Higher(Start(value), Start(value))
  BY StartIsRanked, HigherIsOrder
<1>2. \A p \in P : Ranked(Accumulator(m, p))
  BY AccumulatorsAreRanked
<1>3. CASE a = Start(value) /\ \A p \in P : ~Higher(Accumulator(m, p), Start(value))
  BY <1>1, <1>3
<1>4. ASSUME NEW p \in P, a = Accumulator(m, p), Higher(a, Start(value)),
             \A q \in P : ~Higher(Accumulator(m, q), a)
      PROVE  Ranked(a) /\ ~Higher(Start(value), a)
  BY <1>1, <1>2, <1>4, HigherIsOrder
<1> QED BY <1>1, <1>2, <1>3, <1>4 DEF Chosen

\* Starts differ in their value only.
LEMMA StartsAreEqual ==
  ASSUME NEW a, Ranked(a), NEW v, NEW w
  PROVE  /\ Higher(a, Start(v)) <=> Higher(a, Start(w))
         /\ Higher(Start(v), a) <=> Higher(Start(w), a)
         /\ ~Higher(Start(v), Start(w))
BY StartIsRanked DEF Ranked, Higher

\* What a query merges for one variable is chosen from its own places.
LEMMA OwnIsChosen ==
  ASSUME NEW m, NEW D, Levelled(m, D), NEW s \in Scopes, NEW v, Own(m, s, v) \in SUBSET D,
         NEW value
  PROVE  Chosen(m, Own(m, s, v), Start(value), Merged(m, s, v, value))
<1> DEFINE P == Own(m, s, v)
<1>1. PICK N : Finds(m, Looks(s, v), N, P)
  BY OwnPlaces
<1>2. Ranked(Start(value)) /\ P \in SUBSET D
  BY StartIsRanked
<1> HIDE DEF P
<1>3. Highest(m, Start(value), PlacesOf(m, Looks(s, v)), N, Merged(m, s, v, value))
  BY <1>1, <1>2, FoundMergeUp DEF Merged
<1>4. Chosen(m, P, Start(value), Merged(m, s, v, value))
  BY <1>1, <1>3, HighestIsChosen
<1> QED BY <1>4 DEF P

\* A query gives a string the value a plain lookup gives it, unless two are equally high.
LEMMA StringQueriesAgree ==
  ASSUME LookupInv, NEW s \in Scopes, NEW q \in Queries, ~IsNumeric(q),
         NEW v \in MaterializedIds(modifiers, s, q)
  PROVE  LET found == DoGetStringQuery(modifiers, s, q)[v]
             plain == FillStringModifiers(modifiers, s, v)
             best == {p \in InReach(s, v) :
                         modifiers[p].level = plain.level /\ p[3] = plain.key}
         IN  /\ found.level = plain.level /\ found.key = plain.key
             /\ Cardinality(best) = 1 => found.value = plain.value
<1> DEFINE D == InReach(s, v)
           mine == Own(modifiers, s, v)
           normal == Own(modifiers, s, Normalized(v))
           found == DoGetStringQuery(modifiers, s, q)[v]
           plain == FillStringModifiers(modifiers, s, v)
           own == Merged(modifiers, s, v, EmptyString)
           default == Merged(modifiers, s, Normalized(v), DefaultValue)
           best == {p \in D : modifiers[p].level = plain.level /\ p[3] = plain.key}
           Acc(p) == Accumulator(modifiers, p)
<1>1. /\ v \in AllVariables /\ v # Normalized(v) /\ Normalized(q) = Normalized(v)
      /\ ~IsNumeric(v)
  BY Materialized
<1>2. D = mine \cup normal
  BY ReachedPlaces
<1>3. Levelled(modifiers, D)
  BY <1>1, ReachedStrings
<1>4. found = IF Higher(default, own) THEN default ELSE own
  BY <1>1 DEF DoGetStringQuery
<1>5. Chosen(modifiers, mine, Start(EmptyString), own)
  BY <1>2, <1>3, OwnIsChosen
<1>6. Chosen(modifiers, normal, Start(DefaultValue), default)
  BY <1>2, <1>3, OwnIsChosen
<1>7. Chosen(modifiers, D, Start(DefaultValue), plain)
  BY <1>1, StringsAreHighest, HighestIsChosen
<1> HIDE DEF D, mine, normal, found, plain, own, default
<1>8. mine \in SUBSET D /\ normal \in SUBSET D /\ D \in SUBSET D
  BY <1>2
<1>9. /\ Ranked(own) /\ \A p \in mine : ~Higher(Acc(p), own)
      /\ own = Start(EmptyString) \/ \E p \in mine : own = Acc(p) /\ Higher(own, Start(EmptyString))
      /\ ~Higher(Start(EmptyString), own)
  BY <1>3, <1>5, <1>8, ChosenIsRanked
<1>10. /\ Ranked(default) /\ \A p \in normal : ~Higher(Acc(p), default)
       /\ default = Start(DefaultValue) \/ \E p \in normal : default = Acc(p)
       /\ ~Higher(Start(DefaultValue), default)
  BY <1>3, <1>6, <1>8, ChosenIsRanked
<1>11. /\ Ranked(plain) /\ \A p \in D : ~Higher(Acc(p), plain)
       /\ \/ plain = Start(DefaultValue)
          \/ \E p \in D : plain = Acc(p) /\ Higher(plain, Start(DefaultValue))
       /\ ~Higher(Start(DefaultValue), plain)
  BY <1>3, <1>7, <1>8, ChosenIsRanked
<1>12. \A p \in D : /\ Ranked(Acc(p)) /\ Acc(p).key = p[3] /\ Acc(p).level = modifiers[p].level
                    /\ Acc(p).value = modifiers[p].value
  BY <1>3, AccumulatorsAreRanked
<1> HIDE DEF Acc
<1>13. Ranked(found) /\ (found = own \/ found = default)
  BY <1>4, <1>9, <1>10
<1>14. ~Higher(found, plain)
  <2>1. ~Higher(own, plain)
    <3>1. CASE own = Start(EmptyString)
      BY <1>11, <3>1, StartsAreEqual
    <3>2. CASE \E p \in mine : own = Acc(p)
      BY <1>8, <1>11, <3>2
    <3> QED BY <1>9, <3>1, <3>2
  <2>2. ~Higher(default, plain)
    BY <1>8, <1>10, <1>11
  <2> QED BY <1>13, <2>1, <2>2
<1>15. ~Higher(own, found) /\ ~Higher(default, found)
  BY <1>4, <1>9, <1>10, HigherIsOrder
<1>16. ~Higher(plain, found)
  <2>1. CASE plain = Start(DefaultValue)
    BY <1>9, <1>10, <1>13, <2>1, StartsAreEqual
  <2>2. ASSUME NEW p \in D, plain = Acc(p) PROVE ~Higher(plain, found)
    <3>1. ~Higher(plain, own) \/ ~Higher(plain, default)
      BY <1>2, <1>9, <1>10, <2>2
    <3> QED BY <1>9, <1>10, <1>11, <1>13, <1>15, <3>1, HigherIsTransitive
  <2> QED BY <1>11, <2>1, <2>2
<1>17. found.level = plain.level /\ found.key = plain.key
  BY <1>11, <1>13, <1>14, <1>16, HigherIsOrder
<1>18. ASSUME Cardinality(best) = 1 PROVE found.value = plain.value
  <2>1. PICK r \in best : \A p \in best : p = r
    <3>1. IsFiniteSet(best)
      <4>1. IsFiniteSet(D) /\ best \subseteq D
        BY <1>3 DEF Levelled
      <4> HIDE DEF best
      <4> QED BY <4>1, FS_Subset
    <3> HIDE DEF best
    <3>2. \E r : best = {r}
      BY <1>18, <3>1, FS_Singleton
    <3> QED BY <3>2
  <2>2. Higher(plain, Start(DefaultValue))
    <3>1. r \in D /\ Acc(r).level = plain.level /\ Acc(r).key = plain.key
      BY <1>12, <2>1
    <3>2. Acc(r).key # 0
      <4>1. r[3] \in Nat \ {0}
        BY <1>3, <3>1, AccumulatorsAreRanked
      <4> QED BY <1>12, <3>1, <4>1
    <3>3. plain # Start(DefaultValue)
      BY <3>1, <3>2, StartIsRanked
    <3> QED BY <1>11, <3>3
  <2>3. PICK p \in D : plain = Acc(p)
    <3>1. Start(DefaultValue) # plain
      BY <1>11, <2>2, HigherIsOrder
    <3> QED BY <1>11, <3>1
  <2>4. p \in best
    BY <1>12, <2>3
  <2>5. \E t \in D : found = Acc(t)
    <3>1. Higher(found, Start(DefaultValue)) /\ Higher(found, Start(EmptyString))
      BY <1>11, <1>13, <1>17, <2>2, StartsAreEqual DEF Higher
    <3>2. found # Start(DefaultValue) /\ found # Start(EmptyString)
      BY <1>13, <3>1, HigherIsOrder
    <3> QED BY <1>8, <1>9, <1>10, <1>13, <3>2
  <2>6. PICK t \in D : found = Acc(t)
    BY <2>5
  <2>7. t \in best
    BY <1>12, <1>17, <2>6
  <2>8. p = t
    BY <2>1, <2>4, <2>7
  <2> QED BY <2>3, <2>6, <2>8
<1> QED BY <1>17, <1>18 DEF D, found, plain

\* A query with wildcards gives each variable the value a plain lookup gives it, in any graph
\* of scopes (GetNumericQuery, DoGetStringQuery).
THEOREM QueriesAgreeWithLookups == Spec => []QueriesAgree
<1>1. ASSUME LookupInv, NEW s \in Scopes, NEW q \in Queries, IsNumeric(q)
      PROVE  \A v \in DOMAIN GetNumericQuery(modifiers, s, q) :
                 GetNumericQuery(modifiers, s, q)[v] = GetNumericValue(modifiers, s, v)
  <2>1. DOMAIN GetNumericQuery(modifiers, s, q) = MaterializedIds(modifiers, s, q)
    BY DEF GetNumericQuery
  <2> QED BY <1>1, <2>1, NumericQueriesAgree
<1>2. ASSUME LookupInv, NEW s \in Scopes, NEW q \in Queries, ~IsNumeric(q)
      PROVE  DOMAIN DoGetStringQuery(modifiers, s, q) = MaterializedIds(modifiers, s, q)
  BY DEF DoGetStringQuery
<1>3. LookupInv => QueriesAgree
  BY <1>1, <1>2, StringQueriesAgree DEF QueriesAgree
<1> QED BY <1>3, InitLookup, NextLookup, PTL DEF Spec

=============================================================================
