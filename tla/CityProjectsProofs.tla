-------------------------- MODULE CityProjectsProofs --------------------------
(***************************************************************************)
(* What a city's projects get, for any projects, costs and resources: turns *)
(* of any number of projects are followed project by project, and a project *)
(* resource by resource.                                                    *)
(***************************************************************************)
EXTENDS CityProjects, Recursion, SequenceTheorems

-----------------------------------------------------------------------------
(* Helpers.                                                                *)

LEMMA MinOfTwo ==
  ASSUME NEW a \in Int, NEW b \in Int
  PROVE  Min({a, b}) \in Int /\ Min({a, b}) <= a /\ Min({a, b}) <= b
         /\ (Min({a, b}) = a \/ Min({a, b}) = b)
<1>1. \E x \in {a, b} : \A y \in {a, b} : x <= y
  OBVIOUS
<1> QED BY <1>1 DEF Min

\* The least of three numbers is one of them.
LEMMA MinOfThree ==
  ASSUME NEW a \in Int, NEW b \in Int, NEW c \in Int
  PROVE  Min({a, b, c}) \in Int /\ Min({a, b, c}) <= a /\ Min({a, b, c}) <= b
         /\ Min({a, b, c}) <= c
         /\ (Min({a, b, c}) = a \/ Min({a, b, c}) = b \/ Min({a, b, c}) = c)
<1>1. \E x \in {a, b, c} : \A y \in {a, b, c} : x <= y
  <2>1. CASE a <= b /\ a <= c
    BY <2>1
  <2>2. CASE b <= a /\ b <= c
    BY <2>2
  <2>3. CASE c <= a /\ c <= b
    BY <2>3
  <2> QED BY <2>1, <2>2, <2>3
<1> QED BY <1>1 DEF Min

\* Resources and workforce are different kinds.
LEMMA Names ==
    /\ Len(Resources) \in Nat
    /\ DOMAIN Resources = 1 .. Len(Resources)
    /\ \A i \in 1 .. Len(Resources) : Resources[i] \in ToSet(Resources)
    /\ \A r \in ToSet(Resources) : r \in Kinds /\ r # Workforce
                                   /\ \E i \in 1 .. Len(Resources) : Resources[i] = r
    /\ Workforce \in Kinds
  BY ResourcesAssumption DEF ToSet, Kinds

\* What a project costs.
LEMMA CostsAreNumbers ==
  ASSUME NEW p \in Projects
  PROVE  /\ CostOf(p) \in [Kinds -> Nat] /\ Cost[p] \in [Kinds -> Nat]
         /\ p \notin bare => CostOf(p) = Cost[p]
         /\ p \in bare => \A r \in Kinds : CostOf(p)[r] = 0
  BY CostAssumption DEF CostOf, Nothing

-----------------------------------------------------------------------------
(* Sums over the resources.                                                *)

Amounts == [Kinds -> Nat]

\* The sum, computed resource by resource.
LEMMA SumSteps ==
  ASSUME NEW a \in Amounts
  PROVE  \E f \in [0 .. Len(Resources) -> Nat] :
            /\ f[0] = 0
            /\ \A n \in 1 .. Len(Resources) : f[n] = f[n - 1] + a[Resources[n]]
            /\ Moved(a) = f[Len(Resources)]
<1> DEFINE L == Len(Resources)
           step == [x \in (1 .. L) \X Nat |-> x[2] + a[Resources[x[1]]]]
           Sums(f) == f = [n \in 0 .. L |-> IF n = 0 THEN 0 ELSE f[n - 1] + a[Resources[n]]]
           sum == CHOOSE f : Sums(f)
<1>1. L \in Nat /\ \A n \in 1 .. L : a[Resources[n]] \in Nat
  BY Names DEF Amounts
<1>2. \A n \in 1 .. L : \A v \in Nat : step[<<n, v>>] = v + a[Resources[n]]
          /\ step[<<n, v>>] \in Nat
  BY <1>1
<1>3. Moved(a) = sum[L]
  BY DEF Moved
<1> HIDE DEF L, step, sum, Sums
<1>4. PICK f \in [0 .. L -> Nat] : f[0] = 0 /\ \A n \in 1 .. L : f[n] = step[<<n, f[n - 1]>>]
  <2>1. Stays(Nat, 0, L, step)
    BY <1>1, <1>2 DEF Stays
  <2>2. \E f : Computes(f, Nat, 0, L, step)
    BY <2>1, RecursionExists
  <2> QED BY <2>2 DEF Computes
<1>5. \A n \in 1 .. L : n - 1 \in 0 .. L /\ f[n - 1] \in Nat
  BY <1>1
<1>6. \A n \in 1 .. L : f[n] = f[n - 1] + a[Resources[n]]
  BY <1>2, <1>4, <1>5
<1>7. Sums(f)
  BY <1>1, <1>4, <1>6 DEF Sums
<1>8. Sums(sum)
  BY <1>7 DEF sum
<1>9. sum[0] = 0 /\ \A n \in 1 .. L : sum[n] = sum[n - 1] + a[Resources[n]]
  BY <1>1, <1>8 DEF Sums
<1>10. sum \in [0 .. L -> Nat]
  <2> DEFINE G == {n \in 0 .. L : sum[n] \in Nat}
  <2>1. 0 \in G
    BY <1>1, <1>9
  <2>2. ASSUME NEW n \in 1 .. L, n - 1 \in G PROVE n \in G
    <3>1. sum[n - 1] \in Nat /\ a[Resources[n]] \in Nat
      BY <1>1, <2>2
    <3>2. sum[n] = sum[n - 1] + a[Resources[n]]
      BY <1>9
    <3> QED BY <3>1, <3>2
  <2> HIDE DEF G
  <2>3. 0 .. L \subseteq G
    BY <1>1, <2>1, <2>2, BoundedInduction
  <2> QED BY <1>8, <2>3 DEF G, Sums
<1> QED BY <1>3, <1>9, <1>10 DEF L

\* Nothing sums up to nothing.
LEMMA NothingMoved == Moved(Nothing) = 0 /\ Nothing \in Amounts
<1>1. Nothing \in Amounts /\ \A r \in Kinds : Nothing[r] = 0
  BY DEF Nothing, Amounts
<1>2. PICK f \in [0 .. Len(Resources) -> Nat] :
          /\ f[0] = 0
          /\ \A n \in 1 .. Len(Resources) : f[n] = f[n - 1] + Nothing[Resources[n]]
          /\ Moved(Nothing) = f[Len(Resources)]
  BY <1>1, SumSteps
<1> DEFINE G == {n \in 0 .. Len(Resources) : f[n] = 0}
<1>3. 0 \in G /\ \A n \in 1 .. Len(Resources) : n - 1 \in G => n \in G
  BY <1>1, <1>2, Names
<1> HIDE DEF G
<1>4. 0 .. Len(Resources) \subseteq G
  BY <1>3, Names, BoundedInduction
<1> QED BY <1>1, <1>2, <1>4, Names DEF G

\* More of one resource is as much more in the sum.
LEMMA MovedOne ==
  ASSUME NEW a \in Amounts, NEW b \in Amounts, NEW r \in ToSet(Resources), NEW amount \in Nat,
         b[r] = a[r] + amount, \A q \in ToSet(Resources) \ {r} : b[q] = a[q]
  PROVE  Moved(b) = Moved(a) + amount
<1> DEFINE L == Len(Resources)
<1>1. PICK f \in [0 .. L -> Nat] : /\ f[0] = 0
                                   /\ \A n \in 1 .. L : f[n] = f[n - 1] + a[Resources[n]]
                                   /\ Moved(a) = f[L]
  BY SumSteps
<1>2. PICK h \in [0 .. L -> Nat] : /\ h[0] = 0
                                   /\ \A n \in 1 .. L : h[n] = h[n - 1] + b[Resources[n]]
                                   /\ Moved(b) = h[L]
  BY SumSteps
<1>3. PICK i \in 1 .. L : Resources[i] = r
  BY Names
<1>4. \A n \in 1 .. L : b[Resources[n]] =
          IF n = i THEN a[Resources[n]] + amount ELSE a[Resources[n]]
  BY <1>3, Names, ResourcesAssumption
<1>5. L \in Nat /\ \A n \in 1 .. L : a[Resources[n]] \in Nat /\ b[Resources[n]] \in Nat
  BY Names DEF Amounts
<1> HIDE DEF L
<1> DEFINE G == {n \in 0 .. L : h[n] = IF n < i THEN f[n] ELSE f[n] + amount}
<1>6. 0 \in G
  BY <1>1, <1>2, <1>3, <1>5
<1>7. ASSUME NEW n \in 1 .. L, n - 1 \in G PROVE n \in G
  <2>1. n - 1 \in 0 .. L /\ f[n - 1] \in Nat /\ f[n] \in Nat
    BY <1>1, <1>5
  <2>2. h[n] = h[n - 1] + b[Resources[n]] /\ f[n] = f[n - 1] + a[Resources[n]]
    BY <1>1, <1>2
  <2>3. CASE n = i
    BY <1>4, <1>5, <1>7, <2>1, <2>2, <2>3
  <2>4. CASE n # i
    <3>1. b[Resources[n]] = a[Resources[n]]
      BY <1>4, <2>4
    <3> QED BY SMTT(30), <1>3, <1>5, <1>7, <2>1, <2>2, <2>4, <3>1
  <2> QED BY <2>3, <2>4
<1> HIDE DEF G
<1>8. 0 .. L \subseteq G
  BY <1>5, <1>6, <1>7, BoundedInduction
<1> QED BY <1>1, <1>2, <1>3, <1>5, <1>8 DEF G

\* Only resources are summed up.
LEMMA MovedSame ==
  ASSUME NEW a \in Amounts, NEW b \in Amounts, \A q \in ToSet(Resources) : b[q] = a[q]
  PROVE  Moved(b) = Moved(a)
<1>1. \A n \in 1 .. Len(Resources) : b[Resources[n]] = a[Resources[n]]
  BY Names
<1> DEFINE Sums(c, f) == f = [n \in 0 .. Len(Resources) |->
                               IF n = 0 THEN 0 ELSE f[n - 1] + c[Resources[n]]]
<1>2. \A f : Sums(a, f) <=> Sums(b, f)
  <2>1. ASSUME NEW f
        PROVE  [n \in 0 .. Len(Resources) |-> IF n = 0 THEN 0 ELSE f[n - 1] + a[Resources[n]]]
               = [n \in 0 .. Len(Resources) |-> IF n = 0 THEN 0 ELSE f[n - 1] + b[Resources[n]]]
    BY <1>1, Names
  <2> QED BY <2>1
<1>3. (CHOOSE f : Sums(a, f)) = CHOOSE f : Sums(b, f)
  BY <1>2
<1> QED BY <1>3 DEF Moved

-----------------------------------------------------------------------------
(* What one project takes.                                                 *)

\* What a turn works on.
States == [pool: [Kinds -> Int], accumulated: [Projects -> Amounts], ready: SUBSET Projects,
           finishers: [Projects -> Nat]]

\* Between s and t only project p was given something, from what was there.
Gives(s, t, p) ==
    /\ t \in States
    /\ \A q \in Projects \ {p} : t.accumulated[q] = s.accumulated[q]
    /\ \A r \in Kinds : t.pool[r] <= s.pool[r] /\ t.accumulated[p][r] >= s.accumulated[p][r]
    /\ \A r \in Kinds :
          t.accumulated[p][r] > s.accumulated[p][r] => s.pool[r] > 0 /\ s.pool[Workforce] > 0

\* What was accumulated keeps the promises about p.
Fair(a, p) ==
    /\ a[Workforce] >= Moved(a)
    /\ a[Workforce] > Moved(a) => \A r \in ToSet(Resources) : a[r] = Cost[p][r]
    /\ \A r \in ToSet(Resources) : a[r] <= CostOf(p)[r]

\* p is given something by a step that does not finish it.
Takes(s, t, p) ==
    /\ Gives(s, t, p)
    /\ t.ready = s.ready /\ t.finishers = s.finishers
    /\ Fair(s.accumulated[p], p) => Fair(t.accumulated[p], p)

\* There is no more of r to take for p, or p does not need it.
Sated(s, p, r) == Needs(s, p, r) <= 0 \/ s.pool[r] <= 0 \/ s.pool[Workforce] <= 0

\* Taking nothing is taking.
LEMMA TakesNothing ==
  ASSUME NEW s \in States, NEW p \in Projects
  PROVE  Takes(s, s, p)
  BY DEF Takes, Gives, States, Amounts

\* Taking twice is taking.
LEMMA TakesOn ==
  ASSUME NEW s \in States, NEW t, NEW u, NEW p \in Projects, Takes(s, t, p), Takes(t, u, p)
  PROVE  Takes(s, u, p)
<1>1. t \in States /\ u \in States
  BY DEF Takes, Gives
<1>2. \A r \in Kinds :
        /\ s.pool[r] \in Int /\ t.pool[r] \in Int /\ u.pool[r] \in Int
        /\ s.accumulated[p][r] \in Nat /\ t.accumulated[p][r] \in Nat /\ u.accumulated[p][r] \in Nat
  BY <1>1 DEF States, Amounts
<1>3. \A r \in Kinds : u.pool[r] <= s.pool[r] /\ u.accumulated[p][r] >= s.accumulated[p][r]
  BY <1>2 DEF Takes, Gives
<1>4. ASSUME NEW r \in Kinds, u.accumulated[p][r] > s.accumulated[p][r]
      PROVE  s.pool[r] > 0 /\ s.pool[Workforce] > 0
  <2>1. \/ t.accumulated[p][r] > s.accumulated[p][r]
        \/ u.accumulated[p][r] > t.accumulated[p][r]
    BY <1>2, <1>4
  <2>2. t.pool[r] <= s.pool[r] /\ t.pool[Workforce] <= s.pool[Workforce]
    BY Names DEF Takes, Gives
  <2> QED BY <1>2, <2>1, <2>2, Names DEF Takes, Gives
<1> QED BY <1>1, <1>3, <1>4 DEF Takes, Gives

\* A project that needs no more of a kind, or found none, stays so while it takes.
LEMMA SatedStays ==
  ASSUME NEW s \in States, NEW t, NEW p \in Projects, NEW r \in Kinds, Takes(s, t, p),
  Sated(s, p, r)
  PROVE  Sated(t, p, r)
<1>1. t \in States /\ CostOf(p)[r] \in Nat
  BY CostsAreNumbers DEF Takes, Gives
<1>2. /\ s.pool[r] \in Int /\ t.pool[r] \in Int
      /\ s.pool[Workforce] \in Int /\ t.pool[Workforce] \in Int
      /\ s.accumulated[p][r] \in Nat /\ t.accumulated[p][r] \in Nat
  BY <1>1, Names DEF States, Amounts
<1>3. /\ t.pool[r] <= s.pool[r] /\ t.pool[Workforce] <= s.pool[Workforce]
      /\ t.accumulated[p][r] >= s.accumulated[p][r]
  BY Names DEF Takes, Gives
<1> QED BY <1>1, <1>2, <1>3 DEF Sated, Needs

\* The fields TakeAmount leaves.
Moves(s, t, p, r, amount) ==
    /\ t \in States
    /\ t.ready = s.ready /\ t.finishers = s.finishers
    /\ \A q \in Projects \ {p} : t.accumulated[q] = s.accumulated[q]
    /\ \A k \in Kinds :
          /\ t.accumulated[p][k] = IF k = r THEN s.accumulated[p][k] + amount
                                   ELSE s.accumulated[p][k]
          /\ t.pool[k] = IF k = r THEN s.pool[k] - amount ELSE s.pool[k]

\* TakeAmount moves an amount from the pool to the project.
LEMMA AmountTaken ==
  ASSUME NEW s \in States, NEW p \in Projects, NEW r \in Kinds, NEW amount \in Nat
  PROVE  Moves(s, TakeAmount(s, p, r, amount), p, r, amount)
<1> DEFINE acc == [s.accumulated EXCEPT ![p][r] = @ + amount]
           pool == [s.pool EXCEPT ![r] = @ - amount]
           u == [s EXCEPT !.accumulated[p][r] = @ + amount]
           t == [u EXCEPT !.pool[r] = @ - amount]
<1>1. /\ s.pool \in [Kinds -> Int] /\ s.accumulated \in [Projects -> [Kinds -> Nat]]
      /\ s.ready \in SUBSET Projects /\ s.finishers \in [Projects -> Nat]
  BY DEF States, Amounts
<1>2. acc \in [Projects -> [Kinds -> Nat]] /\ pool \in [Kinds -> Int]
  BY <1>1
<1>3. u = [s EXCEPT !.accumulated = acc]
  BY DEF States, Amounts
<1>4. u \in States /\ u.pool = s.pool /\ u.accumulated = acc /\ u.ready = s.ready
      /\ u.finishers = s.finishers
  <2> HIDE DEF acc, u
  <2> QED BY <1>2, <1>3 DEF States, Amounts
<1> HIDE DEF u
<1>5. t = [u EXCEPT !.pool = pool]
  BY <1>4 DEF States, Amounts
<1>6. t \in States /\ t.pool = pool /\ t.accumulated = acc /\ t.ready = s.ready
      /\ t.finishers = s.finishers
  <2> HIDE DEF acc, pool, t
  <2> QED BY <1>2, <1>4, <1>5 DEF States, Amounts
<1>7. TakeAmount(s, p, r, amount) = t
  BY DEF TakeAmount, u
<1>8. \A k \in Kinds : /\ acc[p][k] = IF k = r THEN s.accumulated[p][k] + amount
                                      ELSE s.accumulated[p][k]
                       /\ pool[k] = IF k = r THEN s.pool[k] - amount ELSE s.pool[k]
  BY <1>1
<1>9. \A q \in Projects \ {p} : acc[q] = s.accumulated[q]
  BY <1>1
<1> HIDE DEF acc, pool, t
<1> QED BY <1>6, <1>7, <1>8, <1>9 DEF Moves

\* TakeOneResource takes until nothing is needed or nothing is left.
LEMMA OneResourceTaken ==
  ASSUME NEW s \in States, NEW p \in Projects, NEW r \in ToSet(Resources)
  PROVE  Takes(s, TakeOneResource(s, p, r), p) /\ Sated(TakeOneResource(s, p, r), p, r)
<1> DEFINE amount == Min({Needs(s, p, r), s.pool[r], s.pool[Workforce]})
           t == TakeAmount(s, p, r, amount)
           u == TakeAmount(t, p, Workforce, amount)
<1>1. /\ r \in Kinds /\ Workforce \in Kinds /\ r # Workforce
      /\ CostOf(p)[r] \in Nat /\ Needs(s, p, r) \in Int
      /\ s.pool[r] \in Int /\ s.pool[Workforce] \in Int
      /\ \A k \in Kinds : s.accumulated[p][k] \in Nat
  BY Names, CostsAreNumbers DEF States, Amounts, Needs
<1>2. /\ amount \in Int
      /\ amount <= Needs(s, p, r) /\ amount <= s.pool[r] /\ amount <= s.pool[Workforce]
      /\ amount = Needs(s, p, r) \/ amount = s.pool[r] \/ amount = s.pool[Workforce]
  BY <1>1, MinOfThree
<1> HIDE DEF amount
<1>3. CASE ~(s.pool[r] > 0 /\ amount > 0)
  <2>1. TakeOneResource(s, p, r) = s
    BY <1>3 DEF TakeOneResource, amount
  <2>2. Sated(s, p, r)
    BY <1>1, <1>2, <1>3 DEF Sated
  <2> QED BY <2>1, <2>2, TakesNothing
<1>4. CASE s.pool[r] > 0 /\ amount > 0
  <2>1. TakeOneResource(s, p, r) = u /\ amount \in Nat
    BY <1>2, <1>4 DEF TakeOneResource, amount
  <2>2. /\ t \in States
        /\ t.ready = s.ready /\ t.finishers = s.finishers
        /\ \A q \in Projects \ {p} : t.accumulated[q] = s.accumulated[q]
        /\ \A k \in Kinds : /\ t.accumulated[p][k] = IF k = r THEN s.accumulated[p][k] + amount
                                                     ELSE s.accumulated[p][k]
                            /\ t.pool[k] = IF k = r THEN s.pool[k] - amount ELSE s.pool[k]
    <3>1. Moves(s, TakeAmount(s, p, r, amount), p, r, amount)
      BY <1>1, <2>1, AmountTaken
    <3> QED BY <3>1 DEF Moves
  <2> HIDE DEF t
  <2>3. /\ u \in States
        /\ u.ready = t.ready /\ u.finishers = t.finishers
        /\ \A q \in Projects \ {p} : u.accumulated[q] = t.accumulated[q]
        /\ \A k \in Kinds :
              /\ u.accumulated[p][k] = IF k = Workforce THEN t.accumulated[p][k] + amount
                                       ELSE t.accumulated[p][k]
              /\ u.pool[k] = IF k = Workforce THEN t.pool[k] - amount ELSE t.pool[k]
    <3>1. Moves(t, TakeAmount(t, p, Workforce, amount), p, Workforce, amount)
      BY <1>1, <2>1, <2>2, AmountTaken
    <3> QED BY <3>1 DEF Moves
  <2> HIDE DEF u
  <2>4. \A k \in Kinds :
           /\ u.accumulated[p][k] = IF k \in {r, Workforce} THEN s.accumulated[p][k] + amount
                                    ELSE s.accumulated[p][k]
           /\ u.pool[k] = IF k \in {r, Workforce} THEN s.pool[k] - amount ELSE s.pool[k]
    BY <1>1, <2>2, <2>3
  <2>5. \A k \in Kinds : s.pool[k] \in Int
    BY DEF States
  <2>6. Gives(s, u, p)
    <3>1. \A k \in Kinds : u.pool[k] <= s.pool[k] /\ u.accumulated[p][k] >= s.accumulated[p][k]
      BY <1>1, <1>4, <2>1, <2>4, <2>5
    <3>2. ASSUME NEW k \in Kinds, u.accumulated[p][k] > s.accumulated[p][k]
          PROVE  s.pool[k] > 0 /\ s.pool[Workforce] > 0
      BY <1>1, <1>2, <1>4, <2>4, <3>2
    <3> QED BY <2>2, <2>3, <3>1, <3>2 DEF Gives
  <2>7. ASSUME Fair(s.accumulated[p], p) PROVE Fair(u.accumulated[p], p)
    <3>1. s.accumulated[p] \in Amounts /\ u.accumulated[p] \in Amounts
      BY <2>3 DEF States
    <3>2. \A q \in ToSet(Resources) \ {r} : u.accumulated[p][q] = s.accumulated[p][q]
      BY <2>4, Names
    <3>3. u.accumulated[p][r] = s.accumulated[p][r] + amount
      BY <1>1, <2>4
    <3>4. Moved(u.accumulated[p]) = Moved(s.accumulated[p]) + amount
      BY <2>1, <3>1, <3>2, <3>3, MovedOne
    <3>5. Moved(s.accumulated[p]) \in Nat
      BY SMTT(30), <3>1, SumSteps, Names
    <3>6. u.accumulated[p][Workforce] = s.accumulated[p][Workforce] + amount
      BY <1>1, <2>4
    <3>7. s.accumulated[p][r] + amount <= CostOf(p)[r] /\ s.accumulated[p][r] < CostOf(p)[r]
      BY <1>1, <1>2, <1>4 DEF Needs
    <3>8. CostOf(p)[r] <= Cost[p][r] /\ Cost[p][r] \in Nat
      BY <1>1, CostsAreNumbers
    <3>9. s.accumulated[p][Workforce] = Moved(s.accumulated[p])
      BY <1>1, <2>7, <3>5, <3>7, <3>8 DEF Fair
    <3> QED BY <1>1, <2>1, <2>7, <3>2, <3>3, <3>4, <3>5, <3>6, <3>7, <3>9 DEF Fair
  <2>8. Takes(s, u, p)
    BY <2>2, <2>3, <2>6, <2>7 DEF Takes
  <2>9. Sated(u, p, r)
    BY <1>1, <1>2, <2>1, <2>4 DEF Sated, Needs
  <2> QED BY <2>1, <2>8, <2>9
<1> QED BY <1>3, <1>4

\* TakeAssemblyCost takes workforce alone, until nothing is needed or nothing is left.
LEMMA AssemblyTaken ==
  ASSUME NEW s \in States, NEW p \in Projects, HasResources(s, p)
  PROVE  LET u == TakeAssemblyCost(s, p)
         IN  /\ Takes(s, u, p)
             /\ \A r \in ToSet(Resources) : u.accumulated[p][r] = s.accumulated[p][r]
             /\ Needs(u, p, Workforce) <= 0 \/ u.pool[Workforce] <= 0
<1> DEFINE amount == Min({Needs(s, p, Workforce), s.pool[Workforce]})
           u == TakeAmount(s, p, Workforce, amount)
<1>1. /\ Workforce \in Kinds /\ CostOf(p)[Workforce] \in Nat /\ Needs(s, p, Workforce) \in Int
      /\ \A k \in Kinds : s.accumulated[p][k] \in Nat /\ s.pool[k] \in Int /\ CostOf(p)[k] \in Nat
      /\ \A r \in ToSet(Resources) : r \in Kinds /\ r # Workforce
  BY Names, CostsAreNumbers DEF States, Amounts, Needs
<1>2. /\ amount \in Int
      /\ amount <= Needs(s, p, Workforce) /\ amount <= s.pool[Workforce]
      /\ amount = Needs(s, p, Workforce) \/ amount = s.pool[Workforce]
  BY <1>1, MinOfTwo
<1> HIDE DEF amount
<1>3. CASE ~(amount > 0)
  <2>1. TakeAssemblyCost(s, p) = s
    BY <1>3 DEF TakeAssemblyCost, amount
  <2> QED BY <1>1, <1>2, <1>3, <2>1, TakesNothing
<1>4. CASE amount > 0
  <2>1. TakeAssemblyCost(s, p) = u /\ amount \in Nat
    BY <1>2, <1>4 DEF TakeAssemblyCost, amount
  <2>2. /\ u \in States
        /\ u.ready = s.ready /\ u.finishers = s.finishers
        /\ \A q \in Projects \ {p} : u.accumulated[q] = s.accumulated[q]
        /\ \A k \in Kinds :
              /\ u.accumulated[p][k] = IF k = Workforce THEN s.accumulated[p][k] + amount
                                       ELSE s.accumulated[p][k]
              /\ u.pool[k] = IF k = Workforce THEN s.pool[k] - amount ELSE s.pool[k]
    <3>1. Moves(s, TakeAmount(s, p, Workforce, amount), p, Workforce, amount)
      BY <1>1, <2>1, AmountTaken
    <3> QED BY <3>1 DEF Moves
  <2> HIDE DEF u
  <2>3. Gives(s, u, p)
    <3>1. \A k \in Kinds : u.pool[k] <= s.pool[k] /\ u.accumulated[p][k] >= s.accumulated[p][k]
      BY <1>1, <2>1, <2>2
    <3>2. ASSUME NEW k \in Kinds, u.accumulated[p][k] > s.accumulated[p][k]
          PROVE  s.pool[k] > 0 /\ s.pool[Workforce] > 0
      BY <1>1, <1>2, <1>4, <2>2, <3>2
    <3> QED BY <2>2, <3>1, <3>2 DEF Gives
  <2>4. \A r \in ToSet(Resources) : u.accumulated[p][r] = s.accumulated[p][r]
    BY <1>1, <2>2
  <2>5. ASSUME Fair(s.accumulated[p], p) PROVE Fair(u.accumulated[p], p)
    <3>1. s.accumulated[p] \in Amounts /\ u.accumulated[p] \in Amounts
      BY <2>2 DEF States
    <3>2. Moved(u.accumulated[p]) = Moved(s.accumulated[p])
      BY <2>4, <3>1, MovedSame
    <3>3. Moved(s.accumulated[p]) \in Nat
      BY <3>1, SumSteps, Names
    <3>4. CostOf(p) = Cost[p]
      BY <1>1, <1>2, <1>4, CostsAreNumbers DEF Needs
    <3>5. \A r \in ToSet(Resources) : s.accumulated[p][r] = Cost[p][r]
      BY <1>1, <2>5, <3>4 DEF HasResources, Needs, Fair
    <3> QED BY <1>1, <2>1, <2>2, <2>4, <2>5, <3>2, <3>3, <3>5 DEF Fair
  <2> QED BY <1>1, <1>2, <2>1, <2>2, <2>3, <2>4, <2>5 DEF Takes, Needs
<1> QED BY <1>3, <1>4

\* Resource after resource is taken.
LEMMA EachTaken ==
  ASSUME NEW s \in States, NEW p \in Projects
  PROVE  /\ Takes(s, TakeEachResource(s, p), p)
         /\ \A r \in ToSet(Resources) : Sated(TakeEachResource(s, p), p, r)
<1> DEFINE L == Len(Resources)
           step == [x \in (1 .. L) \X States |-> TakeOneResource(x[2], p, Resources[x[1]])]
           Steps(f) == f = [n \in 0 .. L |->
                               IF n = 0 THEN s ELSE TakeOneResource(f[n - 1], p, Resources[n])]
           taken == CHOOSE f : Steps(f)
<1>1. L \in Nat /\ \A n \in 1 .. L : Resources[n] \in ToSet(Resources)
  BY Names
<1>2. \A t \in States : \A r \in ToSet(Resources) :
          TakeOneResource(t, p, r) \in States
  BY OneResourceTaken DEF Takes, Gives
<1>3. \A n \in 1 .. L : \A t \in States : /\ step[<<n, t>>] = TakeOneResource(t, p, Resources[n])
                                          /\ step[<<n, t>>] \in States
  BY <1>1, <1>2
<1>4. TakeEachResource(s, p) = taken[L]
  BY DEF TakeEachResource
<1> HIDE DEF L, step, taken, Steps
<1>5. PICK f : Computes(f, States, s, L, step)
  BY <1>1, <1>3, RecursionExists DEF Stays
<1>6. /\ f \in [0 .. L -> States] /\ f[0] = s
      /\ \A n \in 1 .. L : f[n] = TakeOneResource(f[n - 1], p, Resources[n])
  <2>1. \A n \in 1 .. L : n - 1 \in 0 .. L
    BY <1>1
  <2> QED BY <1>3, <1>5, <2>1 DEF Computes
<1>7. Steps(f)
  BY <1>1, <1>6 DEF Steps
<1>8. Steps(taken)
  BY <1>7 DEF taken
<1>9. taken[0] = s /\ \A n \in 1 .. L : taken[n] = TakeOneResource(taken[n - 1], p, Resources[n])
  BY <1>1, <1>8 DEF Steps
<1> DEFINE G == {n \in 0 .. L : /\ Takes(s, taken[n], p)
                                /\ \A i \in 1 .. n : Sated(taken[n], p, Resources[i])}
<1>10. 0 \in G
  BY <1>1, <1>9, TakesNothing
<1>11. ASSUME NEW n \in 1 .. L, n - 1 \in G PROVE n \in G
  <2> DEFINE t == taken[n - 1]
             u == taken[n]
  <2>1. t \in States /\ Takes(s, t, p) /\ \A i \in 1 .. n - 1 : Sated(t, p, Resources[i])
    BY <1>11 DEF Takes, Gives
  <2>2. u = TakeOneResource(t, p, Resources[n])
    BY <1>9
  <2> HIDE DEF t, u
  <2>3. Takes(t, u, p) /\ Sated(u, p, Resources[n])
    BY <1>1, <2>1, <2>2, OneResourceTaken
  <2>4. Takes(s, u, p)
    BY <2>1, <2>3, TakesOn
  <2>5. \A i \in 1 .. n : Sated(u, p, Resources[i])
    <3>1. \A i \in 1 .. n - 1 : Resources[i] \in Kinds
      BY <1>1, Names
    <3>2. \A i \in 1 .. n - 1 : Sated(u, p, Resources[i])
      BY <2>1, <2>3, <3>1, SatedStays
    <3>3. \A i \in 1 .. n : i = n \/ i \in 1 .. n - 1
      BY <1>1
    <3> QED BY <2>3, <3>2, <3>3
  <2> QED BY <1>1, <2>4, <2>5 DEF u
<1> HIDE DEF G
<1>12. 0 .. L \subseteq G
  BY <1>1, <1>10, <1>11, BoundedInduction
<1>13. Takes(s, taken[L], p) /\ \A i \in 1 .. L : Sated(taken[L], p, Resources[i])
  BY <1>1, <1>12 DEF G
<1> QED BY <1>4, <1>13, Names DEF L

-----------------------------------------------------------------------------
(* Serving one project.                                                    *)

\* What p lacks and wants is not there.
Exhausted(s, p) ==
    /\ \A r \in ToSet(Resources) :
          s.accumulated[p][r] < CostOf(p)[r] => s.pool[r] <= 0 \/ s.pool[Workforce] <= 0
    /\ s.pool[Workforce] > 0 /\ (\A r \in ToSet(Resources) : s.accumulated[p][r] >= CostOf(p)[r])
          => p \in s.ready

\* Between s and t project p was served.
Serves(s, t, p) ==
    /\ Gives(s, t, p)
    /\ Fair(s.accumulated[p], p) => Fair(t.accumulated[p], p)
    /\ Exhausted(t, p)
    /\ t.ready = s.ready \cup {p} \/ t.ready = s.ready
    /\ \A q \in Projects \ {p} : t.finishers[q] = s.finishers[q]
    /\ p \in t.ready => /\ t.finishers[p] = s.finishers[p] + 1
                        /\ \A r \in Kinds : t.accumulated[p][r] >= CostOf(p)[r]
    /\ p \notin t.ready => t.finishers[p] = s.finishers[p]

\* Serve takes for one project and finishes it only when all is paid.
LEMMA ServeServes ==
  ASSUME NEW s \in States, NEW p \in Projects, p \notin s.ready
  PROVE  Serves(s, Serve(s, p), p)
<1> DEFINE served == TakeEachResource(s, p)
           paid == IF HasResources(served, p) THEN TakeAssemblyCost(served, p) ELSE served
           done == HasResources(paid, p) /\ Needs(paid, p, Workforce) <= 0
           t == [paid EXCEPT !.ready = IF done THEN @ \cup {p} ELSE @ \ {p}]
<1>1. CASE s.pool[Workforce] <= 0
  <2>1. TakeResources(s, p) = s
    BY <1>1 DEF TakeResources
  <2>2. Serve(s, p) = s
    BY <2>1 DEF Serve, ExecuteFinisher
  <2>3. s.pool[Workforce] \in Int
    BY Names DEF States
  <2>4. Exhausted(s, p)
    BY <1>1, <2>3 DEF Exhausted
  <2> QED BY <2>2, <2>4, TakesNothing DEF Serves, Takes
<1>2. CASE ~(s.pool[Workforce] <= 0)
  <2>1. TakeResources(s, p) = t
    BY <1>2 DEF TakeResources
  <2>2. Takes(s, served, p) /\ \A r \in ToSet(Resources) : Sated(served, p, r)
    BY EachTaken
  <2>3. served \in States
    BY <2>2 DEF Takes, Gives
  <2> HIDE DEF served
  <2>4. /\ Takes(s, paid, p)
        /\ \A r \in ToSet(Resources) : paid.accumulated[p][r] = served.accumulated[p][r]
        /\ HasResources(served, p) => Needs(paid, p, Workforce) <= 0 \/ paid.pool[Workforce] <= 0
        /\ \A r \in ToSet(Resources) : Sated(paid, p, r)
    <3>1. CASE HasResources(served, p)
      <4>1. /\ Takes(served, paid, p)
            /\ \A r \in ToSet(Resources) : paid.accumulated[p][r] = served.accumulated[p][r]
            /\ Needs(paid, p, Workforce) <= 0 \/ paid.pool[Workforce] <= 0
        BY <2>3, <3>1, AssemblyTaken
      <4> HIDE DEF paid
      <4> QED BY <2>2, <2>3, <4>1, TakesOn, SatedStays, Names
    <3>2. CASE ~HasResources(served, p)
      BY <2>2, <3>2
    <3> QED BY <3>1, <3>2
  <2>5. HasResources(paid, p) <=> HasResources(served, p)
    BY <2>4 DEF HasResources, Needs
  <2>6. paid \in States /\ paid.ready = s.ready /\ paid.finishers = s.finishers
    BY <2>4 DEF Takes, Gives
  <2> HIDE DEF paid
  <2>7. /\ t \in States
        /\ t.pool = paid.pool /\ t.accumulated = paid.accumulated /\ t.finishers = s.finishers
        /\ t.ready = IF done THEN s.ready \cup {p} ELSE s.ready
    BY <2>6 DEF States
  <2> HIDE DEF t, done
  <2> DEFINE u == Serve(s, p)
  <2>8. u = IF done THEN [t EXCEPT !.finishers[p] = @ + 1] ELSE t
    BY <2>1, <2>7 DEF Serve, ExecuteFinisher
  <2>9. /\ u \in States
        /\ u.pool = paid.pool /\ u.accumulated = paid.accumulated
        /\ u.ready = IF done THEN s.ready \cup {p} ELSE s.ready
        /\ u.finishers = IF done THEN [s.finishers EXCEPT ![p] = @ + 1] ELSE s.finishers
    BY <2>7, <2>8 DEF States
  <2> HIDE DEF u
  <2>10. \A k \in Kinds : /\ paid.pool[k] \in Int
                          /\ paid.accumulated[p][k] \in Nat
                          /\ CostOf(p)[k] \in Nat
    BY <2>6, CostsAreNumbers DEF States, Amounts
  <2>11. Exhausted(u, p)
    <3>1. \A r \in ToSet(Resources) :
              paid.accumulated[p][r] < CostOf(p)[r]
                  => paid.pool[r] <= 0 \/ paid.pool[Workforce] <= 0
      BY <2>4, <2>10, Names DEF Sated, Needs
    <3>2. ASSUME paid.pool[Workforce] > 0,
                 \A r \in ToSet(Resources) : paid.accumulated[p][r] >= CostOf(p)[r]
          PROVE  done
      <4>1. HasResources(paid, p)
        BY <2>10, <3>2, Names DEF HasResources, Needs
      <4> QED BY <2>4, <2>5, <2>10, <3>2, <4>1, Names DEF done
    <3> QED BY <2>9, <3>1, <3>2 DEF Exhausted
  <2>12. done => \A r \in Kinds : u.accumulated[p][r] >= CostOf(p)[r]
    <3>1. \A r \in Kinds : r = Workforce \/ r \in ToSet(Resources)
      BY DEF Kinds
    <3> QED BY <2>9, <2>10, <3>1 DEF done, HasResources, Needs
  <2>13. Gives(s, u, p) /\ (Fair(s.accumulated[p], p) => Fair(u.accumulated[p], p))
    BY <2>4, <2>9 DEF Takes, Gives
  <2>14. s.finishers \in [Projects -> Nat]
    BY DEF States
  <2> QED BY <2>9, <2>11, <2>12, <2>13, <2>14 DEF Serves, u
<1> QED BY <1>1, <1>2

-----------------------------------------------------------------------------
(* Serving the queue.                                                      *)

Distinct(projects) ==
    \A i, j \in 1 .. Len(projects) : projects[i] = projects[j] => i = j

\* Between s and t nothing changed but for the projects in Q.
Within(s, t, Q) ==
    /\ \A q \in Projects \ Q : /\ t.accumulated[q] = s.accumulated[q]
                               /\ t.finishers[q] = s.finishers[q]
                               /\ q \in t.ready <=> q \in s.ready
    /\ \A r \in Kinds : t.pool[r] <= s.pool[r]
    /\ s.ready \subseteq t.ready

\* Serving one more project is serving a set with one more.
LEMMA WithinOn ==
  ASSUME NEW s \in States, NEW t \in States, NEW p \in Projects, NEW q, NEW u, q = p,
         NEW Q, Within(s, t, Q), Serves(t, u, p)
  PROVE  Within(s, u, Q \cup {q})
<1>1. u \in States
  BY DEF Serves, Gives
<1>2. \A r \in Kinds : s.pool[r] \in Int /\ t.pool[r] \in Int /\ u.pool[r] \in Int
  BY <1>1 DEF States
<1>3. \A r \in Kinds : u.pool[r] <= s.pool[r]
  BY <1>2 DEF Within, Serves, Gives
<1> QED BY <1>3 DEF Within, Serves, Gives

\* Serve gives a state of a turn.
LEMMA ServeIsTyped ==
  ASSUME NEW s \in States, NEW p \in Projects
  PROVE  Serve(s, p) \in States
<1>1. CASE p \in s.ready
  <2>1. Serve(s, p) = [s EXCEPT !.finishers[p] = @ + 1]
    BY <1>1 DEF Serve, ExecuteFinisher
  <2> QED BY <2>1 DEF States
<1>2. CASE p \notin s.ready
  BY <1>2, ServeServes DEF Serves, Gives
<1> QED BY <1>1, <1>2

\* The projects from one place to another.
Slice(i, j) == {queue[m] : m \in i .. j}

\* The queue is served project by project, each of them once.
Run(s, after) ==
    /\ after \in [0 .. Len(queue) -> States]
    /\ after[0] = s
    /\ after[Len(queue)] = ServeAll(s)
    /\ \A n \in 1 .. Len(queue) : Serves(after[n - 1], after[n], queue[n])

Progress(s, after, n) ==
    /\ after[n] \in States
    /\ Within(s, after[n], Slice(1, n))
    /\ \A m \in 1 .. n : Serves(after[m - 1], after[m], queue[m])

\* The states of a turn, one after each project.
LEMMA QueueServed ==
  ASSUME NEW s \in States, queue \in Seq(Projects), Distinct(queue),
         \A i \in 1 .. Len(queue) : queue[i] \notin s.ready
  PROVE  \E after : Run(s, after)
<1> DEFINE L == Len(queue)
           step == [x \in (1 .. L) \X States |-> Serve(x[2], queue[x[1]])]
           Steps(f) == f = [n \in 0 .. L |-> IF n = 0 THEN s ELSE Serve(f[n - 1], queue[n])]
           after == CHOOSE f : Steps(f)
<1>1. L \in Nat /\ \A n \in 1 .. L : queue[n] \in Projects
  OBVIOUS
<1>2. \A n \in 1 .. L : \A t \in States : /\ step[<<n, t>>] = Serve(t, queue[n])
                                          /\ step[<<n, t>>] \in States
  BY <1>1, ServeIsTyped
<1>3. ServeAll(s) = after[L]
  BY DEF ServeAll
<1> HIDE DEF L, step, after, Steps
<1>4. PICK f : Computes(f, States, s, L, step)
  BY <1>1, <1>2, RecursionExists DEF Stays
<1>5. /\ f \in [0 .. L -> States] /\ f[0] = s
      /\ \A n \in 1 .. L : f[n] = Serve(f[n - 1], queue[n])
  <2>1. \A n \in 1 .. L : n - 1 \in 0 .. L
    BY <1>1
  <2> QED BY <1>2, <1>4, <2>1 DEF Computes
<1>6. Steps(f)
  BY <1>1, <1>5 DEF Steps
<1>7. Steps(after)
  BY <1>6 DEF after
<1>8. after[0] = s /\ \A n \in 1 .. L : after[n] = Serve(after[n - 1], queue[n])
  BY <1>1, <1>7 DEF Steps
<1> DEFINE G == {n \in 0 .. L : Progress(s, after, n)}
<1>9. 0 \in G
  <2>1. Within(s, s, Slice(1, 0))
    BY DEF Within, States
  <2>2. Progress(s, after, 0)
    BY <1>8, <2>1 DEF Progress
  <2> QED BY <1>1, <2>2
<1>10. ASSUME NEW n \in 1 .. L, n - 1 \in G PROVE n \in G
  <2> DEFINE t == after[n - 1]
             u == after[n]
             p == queue[n]
             Q == Slice(1, n - 1)
  <2>1. t \in States /\ Within(s, t, Q) /\ p \in Projects /\ u = Serve(t, p)
    BY <1>1, <1>8, <1>10 DEF Progress
  <2>2. p \notin Q
    BY <1>1 DEF Distinct, L, Slice
  <2>3. p \notin s.ready
    BY DEF L
  <2>4. Slice(1, n) = Q \cup {p}
    BY <1>1 DEF Slice
  <2>5. \A m \in 1 .. n - 1 : Serves(after[m - 1], after[m], queue[m])
    BY <1>10 DEF Progress
  <2> HIDE DEF t, u, p, Q
  <2>6. p \notin t.ready
    BY <2>1, <2>2, <2>3 DEF Within
  <2>7. Serves(t, u, p)
    BY <2>1, <2>6, ServeServes
  <2>8. Within(s, u, Q \cup {p})
    BY <2>1, <2>7, WithinOn
  <2>9. u \in States
    BY <2>7 DEF Serves, Gives
  <2>10. \A m \in 1 .. n : Serves(after[m - 1], after[m], queue[m])
    <3>1. \A m \in 1 .. n : m = n \/ m \in 1 .. n - 1
      BY <1>1
    <3> QED BY <2>5, <2>7, <3>1 DEF t, u, p
  <2>11. Progress(s, after, n)
    BY <2>4, <2>8, <2>9, <2>10 DEF Progress, u
  <2> QED BY <1>1, <2>11
<1> HIDE DEF G
<1>11. 0 .. L \subseteq G
  BY <1>1, <1>9, <1>10, BoundedInduction
<1>12. \A n \in 0 .. L : after[n] \in States
  BY <1>11 DEF G, Progress
<1>13. after \in [0 .. L -> States]
  BY <1>7, <1>12 DEF Steps
<1>14. \A n \in 1 .. L : Serves(after[n - 1], after[n], queue[n])
  <2>1. Progress(s, after, L)
    BY <1>1, <1>11 DEF G
  <2> QED BY <2>1 DEF Progress
<1>15. Run(s, after)
  BY <1>3, <1>8, <1>13, <1>14 DEF Run, L
<1> QED BY <1>15

\* From one project on, only those that follow get anything.
LEMMA Between ==
  ASSUME NEW s \in States, queue \in Seq(Projects), NEW after, Run(s, after),
         NEW k \in 0 .. Len(queue), NEW n \in k .. Len(queue)
  PROVE  Within(after[k], after[n], Slice(k + 1, n))
<1> DEFINE L == Len(queue)
           Q(i) == Slice(k + 1, i)
           G == {i \in 0 .. L : i >= k => Within(after[k], after[i], Q(i))}
<1>1. L \in Nat /\ \A i \in 1 .. L : queue[i] \in Projects
  OBVIOUS
<1>2. /\ after \in [0 .. L -> States]
      /\ \A i \in 1 .. L : Serves(after[i - 1], after[i], queue[i])
  BY DEF Run
<1>3. Within(after[k], after[k], Q(k))
  BY <1>1, <1>2 DEF Within, States
<1>4. 0 \in G
  <2>1. 0 >= k => k = 0
    BY <1>1
  <2> QED BY <1>1, <1>3, <2>1
<1>5. ASSUME NEW i \in 1 .. L, i - 1 \in G PROVE i \in G
  <2>1. CASE i <= k
    <3>1. i >= k => i = k
      BY <1>1, <2>1
    <3> QED BY <1>1, <1>3, <3>1
  <2>2. CASE i > k
    <3>1. i - 1 \in 0 .. L /\ i - 1 >= k /\ i \in 0 .. L
      BY <1>1, <2>2
    <3>2. Within(after[k], after[i - 1], Q(i - 1))
      BY <1>5, <3>1
    <3>3. Q(i) = Q(i - 1) \cup {queue[i]}
      BY <1>1, <2>2 DEF Slice
    <3>4. Within(after[k], after[i], Q(i - 1) \cup {queue[i]})
      BY <1>1, <1>2, <3>1, <3>2, WithinOn
    <3>5. Within(after[k], after[i], Slice(k + 1, i))
      BY <3>3, <3>4
    <3> QED BY <3>1, <3>5
  <2> QED BY <1>1, <2>1, <2>2
<1> HIDE DEF G
<1>6. 0 .. L \subseteq G
  BY <1>1, <1>4, <1>5, BoundedInduction
<1> QED BY <1>1, <1>6 DEF G

\* A turn, seen from outside: t is what s has become.
Offers(s, t, i, r) ==
    \/ t.pool[r] > 0 /\ t.pool[Workforce] > 0
    \/ \E j \in (i + 1) .. Len(queue) :
          t.accumulated[queue[j]][r] > s.accumulated[queue[j]][r]

Outcome(s, t) ==
    /\ t \in States
    /\ \A q \in Projects :
          /\ Fair(s.accumulated[q], q) => Fair(t.accumulated[q], q)
          /\ \A r \in Kinds : t.accumulated[q][r] >= s.accumulated[q][r]
    /\ \A q \in Projects \ ToSet(queue) : /\ t.accumulated[q] = s.accumulated[q]
                                          /\ t.finishers[q] = s.finishers[q]
                                          /\ q \in t.ready <=> q \in s.ready
    /\ \A q \in ToSet(queue) :
          /\ q \in t.ready => /\ t.finishers[q] = s.finishers[q] + 1
                              /\ \A r \in Kinds : t.accumulated[q][r] >= CostOf(q)[r]
          /\ q \notin t.ready => t.finishers[q] = s.finishers[q]
    /\ \A i \in 1 .. Len(queue) :
          /\ \A r \in ToSet(Resources) :
                t.accumulated[queue[i]][r] < CostOf(queue[i])[r] => ~Offers(s, t, i, r)
          /\ /\ Offers(s, t, i, Workforce)
             /\ \A r \in ToSet(Resources) : t.accumulated[queue[i]][r] >= CostOf(queue[i])[r]
             => queue[i] \in t.ready

\* What a whole turn does to the projects of the queue, and to no other.
LEMMA QueueOutcome ==
  ASSUME NEW s \in States, queue \in Seq(Projects), Distinct(queue),
         \A i \in 1 .. Len(queue) : queue[i] \notin s.ready
  PROVE  Outcome(s, ServeAll(s))
<1> DEFINE L == Len(queue)
           t == ServeAll(s)
<1>1. L \in Nat /\ (\A i \in 1 .. L : queue[i] \in Projects) /\ ToSet(queue) = Slice(1, L)
  BY DEF ToSet, Slice
<1>2. PICK after : Run(s, after)
  BY QueueServed
<1>3. /\ \A n \in 0 .. L : after[n] \in States
      /\ after[0] = s /\ after[L] = t
      /\ \A n \in 1 .. L : Serves(after[n - 1], after[n], queue[n])
  BY <1>2 DEF Run
<1>4. \A k \in 0 .. L : \A n \in k .. L : Within(after[k], after[n], Slice(k + 1, n))
  BY <1>2, Between
<1> HIDE DEF L, t
<1>5. t \in States
  BY <1>1, <1>3
\* What project i has before, after and at the end.
<1>6. ASSUME NEW i \in 1 .. L
      PROVE  LET p == queue[i]  b == after[i - 1]  a == after[i]
             IN  /\ p \in Projects /\ a \in States /\ b \in States /\ Serves(b, a, p)
                 /\ b.accumulated[p] = s.accumulated[p] /\ b.finishers[p] = s.finishers[p]
                 /\ t.accumulated[p] = a.accumulated[p] /\ t.finishers[p] = a.finishers[p]
                 /\ p \in t.ready <=> p \in a.ready
  <2>1. i - 1 \in 0 .. L /\ i \in 0 .. L /\ i - 1 \in 0 .. L /\ L \in i .. L /\ 0 \in 0 .. L
    BY <1>1
  <2>2. Within(s, after[i - 1], Slice(1, i - 1))
    <3>1. Within(after[0], after[i - 1], Slice(0 + 1, i - 1))
      BY <1>4, <2>1
    <3> QED BY <1>3, <3>1
  <2>3. Within(after[i], t, Slice(i + 1, L))
    BY <1>3, <1>4, <2>1
  <2>4. queue[i] \notin Slice(1, i - 1) /\ queue[i] \notin Slice(i + 1, L)
    BY <1>1 DEF Slice, Distinct, L
  <2> QED BY <1>1, <1>3, <2>1, <2>2, <2>3, <2>4 DEF Within
<1>7. \A q \in Projects \ ToSet(queue) : /\ t.accumulated[q] = s.accumulated[q]
                                         /\ t.finishers[q] = s.finishers[q]
                                         /\ q \in t.ready <=> q \in s.ready
  <2>1. Within(after[0], after[L], Slice(0 + 1, L))
    BY <1>1, <1>4
  <2> QED BY <1>1, <1>3, <2>1 DEF Within
<1>8. \A q \in ToSet(queue) : \E i \in 1 .. L : q = queue[i]
  BY <1>1 DEF Slice
<1>9. ASSUME NEW q \in Projects
      PROVE  /\ Fair(s.accumulated[q], q) => Fair(t.accumulated[q], q)
             /\ \A r \in Kinds : t.accumulated[q][r] >= s.accumulated[q][r]
  <2>1. CASE q \in ToSet(queue)
    <3>1. PICK i \in 1 .. L : q = queue[i]
      BY <1>8, <2>1
    <3> QED BY <1>6, <3>1 DEF Serves, Gives
  <2>2. CASE q \notin ToSet(queue)
    <3>1. t.accumulated[q] = s.accumulated[q] /\ s.accumulated[q] \in Amounts
      BY <1>7, <2>2 DEF States
    <3>2. \A r \in Kinds : s.accumulated[q][r] \in Nat
      BY <3>1 DEF Amounts
    <3> QED BY <3>1, <3>2
  <2> QED BY <2>1, <2>2
<1>10. ASSUME NEW q \in ToSet(queue)
       PROVE  /\ q \in t.ready => /\ t.finishers[q] = s.finishers[q] + 1
                                  /\ \A r \in Kinds : t.accumulated[q][r] >= CostOf(q)[r]
              /\ q \notin t.ready => t.finishers[q] = s.finishers[q]
  <2>1. PICK i \in 1 .. L : q = queue[i]
    BY <1>8
  <2> QED BY <1>6, <2>1 DEF Serves
\* What is offered after project i was there when it had been served.
<1>11. ASSUME NEW i \in 1 .. L, NEW r \in Kinds, Offers(s, t, i, r)
       PROVE  after[i].pool[r] > 0 /\ after[i].pool[Workforce] > 0
  <2>1. \A n \in i .. L : /\ after[n] \in States
                          /\ after[n].pool[r] <= after[i].pool[r]
                          /\ after[n].pool[Workforce] <= after[i].pool[Workforce]
    <3>1. \A n \in i .. L : n \in 0 .. L
      BY <1>1
    <3>2. i \in 0 .. L
      OBVIOUS
    <3> QED BY <1>3, <1>4, <3>1, <3>2, Names DEF Within
  <2>2. \A n \in i .. L : after[n].pool[r] \in Int /\ after[n].pool[Workforce] \in Int
    BY <2>1, Names DEF States
  <2>3. CASE t.pool[r] > 0 /\ t.pool[Workforce] > 0
    <3>1. L \in i .. L /\ i \in i .. L
      BY <1>1
    <3> QED BY <1>3, <2>1, <2>2, <2>3, <3>1
  <2>4. CASE \E j \in (i + 1) .. L : t.accumulated[queue[j]][r] > s.accumulated[queue[j]][r]
    <3>1. PICK j \in (i + 1) .. L : t.accumulated[queue[j]][r] > s.accumulated[queue[j]][r]
      BY <2>4
    <3>2. j \in 1 .. L /\ j - 1 \in i .. L /\ i \in i .. L
      BY <1>1
    <3>3. after[j - 1].pool[r] > 0 /\ after[j - 1].pool[Workforce] > 0
      BY <1>6, <3>1, <3>2 DEF Serves, Gives
    <3> QED BY SMTT(30), <2>1, <2>2, <3>2, <3>3
  <2> QED BY <1>11, <2>3, <2>4 DEF Offers, L
<1>12. ASSUME NEW i \in 1 .. L
       PROVE  /\ \A r \in ToSet(Resources) :
                    t.accumulated[queue[i]][r] < CostOf(queue[i])[r] => ~Offers(s, t, i, r)
              /\ /\ Offers(s, t, i, Workforce)
                 /\ \A r \in ToSet(Resources) :
                       t.accumulated[queue[i]][r] >= CostOf(queue[i])[r]
                 => queue[i] \in t.ready
  <2>1. /\ Exhausted(after[i], queue[i]) /\ after[i] \in States
        /\ t.accumulated[queue[i]] = after[i].accumulated[queue[i]]
        /\ queue[i] \in t.ready <=> queue[i] \in after[i].ready
    BY <1>6 DEF Serves
  <2>2. ASSUME NEW r \in Kinds, Offers(s, t, i, r)
        PROVE  /\ after[i].pool[r] > 0 /\ after[i].pool[Workforce] > 0
               /\ ~(after[i].pool[r] <= 0) /\ ~(after[i].pool[Workforce] <= 0)
    <3>1. after[i].pool[r] \in Int /\ after[i].pool[Workforce] \in Int
      BY <2>1, Names DEF States
    <3> QED BY <1>11, <2>2, <3>1
  <2> QED BY <2>1, <2>2, Names DEF Exhausted
<1> QED BY <1>5, <1>7, <1>9, <1>10, <1>12 DEF Outcome, t, L

-----------------------------------------------------------------------------
(* Adding to the queue and removing from it.                               *)

LEMMA Inserted ==
  ASSUME NEW projects \in Seq(Projects), NEW p \in Projects, NEW index \in 1 .. Len(projects) + 1
  PROVE  LET longer == InsertAt(projects, index, p)
         IN  /\ longer \in Seq(Projects)
             /\ Len(longer) = Len(projects) + 1
             /\ \A j \in 1 .. Len(projects) + 1 :
                   longer[j] = IF j < index THEN projects[j]
                               ELSE IF j = index THEN p ELSE projects[j - 1]
<1> DEFINE L == Len(projects)
           before == SubSeq(projects, 1, index - 1)
           behind == SubSeq(projects, index, L)
           start == before \o <<p>>
<1>1. /\ L \in Nat /\ index \in 1 .. L + 1
      /\ \A j \in 1 .. L : projects[j] \in Projects
  OBVIOUS
<1>2. /\ before \in Seq(Projects) /\ Len(before) = index - 1
      /\ \A j \in 1 .. index - 1 : before[j] = projects[j]
  <2>1. \A j \in 1 .. index - 1 : projects[j] \in Projects
    BY <1>1
  <2> HIDE DEF L
  <2> QED BY <1>1, <2>1, SubSeqProperties
<1>3. /\ behind \in Seq(Projects) /\ Len(behind) = L - index + 1
      /\ \A j \in 1 .. L - index + 1 : behind[j] = projects[index + j - 1]
  <2>1. \A j \in index .. L : projects[j] \in Projects
    BY <1>1
  <2>2. index <= L \/ index = L + 1
    BY <1>1
  <2>3. index \in Int /\ L \in Int
    BY <1>1
  <2> HIDE DEF L
  <2> QED BY <2>1, <2>2, <2>3, SubSeqProperties
<1> HIDE DEF L, before, behind
<1>4. /\ start \in Seq(Projects) /\ Len(start) = index
      /\ \A j \in 1 .. index : start[j] = IF j < index THEN projects[j] ELSE p
  <2>1. <<p>> \in Seq(Projects) /\ Len(<<p>>) = 1 /\ <<p>>[1] = p
    OBVIOUS
  <2>2. /\ start \in Seq(Projects) /\ Len(start) = index
        /\ \A j \in 1 .. index : start[j]
               = IF j <= index - 1 THEN before[j] ELSE <<p>>[j - (index - 1)]
    BY <1>2, <2>1, ConcatProperties
  <2> QED BY <1>2, <2>1, <2>2
<1> HIDE DEF start
<1>5. /\ start \o behind \in Seq(Projects) /\ Len(start \o behind) = L + 1
      /\ \A j \in 1 .. L + 1 : (start \o behind)[j]
             = IF j <= index THEN start[j] ELSE behind[j - index]
  <2>1. /\ start \o behind \in Seq(Projects)
        /\ Len(start \o behind) = Len(start) + Len(behind)
        /\ \A j \in 1 .. Len(start) + Len(behind) :
              (start \o behind)[j] = IF j <= Len(start) THEN start[j] ELSE behind[j - Len(start)]
    BY <1>3, <1>4, ConcatProperties
  <2>2. Len(start) = index /\ Len(start) + Len(behind) = L + 1
    BY <1>1, <1>3, <1>4
  <2> QED BY <2>1, <2>2
<1>6. ASSUME NEW j \in 1 .. L + 1
      PROVE  (start \o behind)[j] = IF j < index THEN projects[j]
                                    ELSE IF j = index THEN p ELSE projects[j - 1]
  <2>1. CASE j <= index
    BY <1>1, <1>4, <1>5, <2>1
  <2>2. CASE j > index
    <3>1. j - index \in 1 .. L - index + 1 /\ index + (j - index) - 1 = j - 1
      BY <1>1, <2>2
    <3>2. behind[j - index] = projects[j - 1]
      BY <1>3, <3>1
    <3> QED BY <1>1, <1>5, <2>2, <3>2
  <2>3. j <= index \/ j > index
    BY <1>1
  <2> QED BY <2>1, <2>2, <2>3
<1>7. InsertAt(projects, index, p) = start \o behind
  BY DEF InsertAt, start, before, behind, L
<1> QED BY <1>5, <1>6, <1>7 DEF L

\* A new project does not double another one.
LEMMA InsertedDistinct ==
  ASSUME NEW projects \in Seq(Projects), NEW p \in Projects, NEW index \in 1 .. Len(projects) + 1,
         Distinct(projects), p \notin ToSet(projects)
  PROVE  /\ Distinct(InsertAt(projects, index, p))
         /\ ToSet(InsertAt(projects, index, p)) \subseteq ToSet(projects) \cup {p}
<1> DEFINE longer == InsertAt(projects, index, p)
           L == Len(projects)
           old(j) == IF j < index THEN j ELSE j - 1
<1>1. /\ longer \in Seq(Projects) /\ Len(longer) = L + 1 /\ L \in Nat
      /\ \A j \in 1 .. L + 1 : longer[j] = IF j < index THEN projects[j]
                                           ELSE IF j = index THEN p ELSE projects[j - 1]
  BY Inserted
<1> HIDE DEF longer
<1>2. \A j \in 1 .. L + 1 : j # index => old(j) \in 1 .. L /\ longer[j] = projects[old(j)]
  BY <1>1
<1>3. \A j \in 1 .. L : projects[j] # p
  BY DEF ToSet
<1>4. longer[index] = p
  BY <1>1
<1>5. Distinct(longer)
  <2> SUFFICES ASSUME NEW i \in 1 .. L + 1, NEW j \in 1 .. L + 1, longer[i] = longer[j]
               PROVE  i = j
    BY <1>1 DEF Distinct
  <2>1. CASE i = index \/ j = index
    BY <1>2, <1>3, <1>4, <2>1
  <2>2. CASE i # index /\ j # index
    <3>1. old(i) = old(j)
      BY <1>2, <2>2 DEF Distinct
    <3> QED BY <1>1, <2>2, <3>1
  <2> QED BY <2>1, <2>2
<1>6. ToSet(longer) \subseteq ToSet(projects) \cup {p}
  BY <1>1, <1>2, <1>4 DEF ToSet
<1> QED BY <1>5, <1>6 DEF longer

\* What is not finished stays, in its order.
Kept(kept, projects, finished, n) ==
    /\ kept \in Seq(Projects)
    /\ Distinct(kept)
    /\ \A j \in 1 .. Len(kept) : \E m \in 1 .. n : kept[j] = projects[m]
           /\ projects[m] \notin finished

\* RemoveFinished leaves the others, in their order.
LEMMA Removed ==
  ASSUME NEW projects \in Seq(Projects), NEW finished, Distinct(projects)
  PROVE  LET rest == RemoveFinished(projects, finished)
         IN  /\ rest \in Seq(Projects) /\ Distinct(rest)
             /\ ToSet(rest) \subseteq ToSet(projects) \ finished
<1> DEFINE L == Len(projects)
           D == Seq(Projects)
           step == [x \in (1 .. L) \X D |-> IF projects[x[1]] \in finished THEN x[2]
                                            ELSE Append(x[2], projects[x[1]])]
           Steps(f) == f = [n \in 0 .. L |-> IF n = 0 THEN <<>>
                                             ELSE IF projects[n] \in finished THEN f[n - 1]
                                             ELSE Append(f[n - 1], projects[n])]
           kept == CHOOSE f : Steps(f)
<1>1. L \in Nat /\ \A n \in 1 .. L : projects[n] \in Projects
  OBVIOUS
<1>2. \A n \in 1 .. L : \A v \in D :
         /\ step[<<n, v>>] = IF projects[n] \in finished THEN v ELSE Append(v, projects[n])
         /\ step[<<n, v>>] \in D
  BY <1>1
<1>3. RemoveFinished(projects, finished) = kept[L]
  BY DEF RemoveFinished
<1>4. <<>> \in D
  OBVIOUS
<1> HIDE DEF L, D, step, kept, Steps
<1>5. PICK f : Computes(f, D, <<>>, L, step)
  BY <1>1, <1>2, <1>4, RecursionExists DEF Stays
<1>6. /\ f \in [0 .. L -> D] /\ f[0] = <<>>
      /\ \A n \in 1 .. L : f[n] = IF projects[n] \in finished THEN f[n - 1]
                                  ELSE Append(f[n - 1], projects[n])
  <2>1. \A n \in 1 .. L : n - 1 \in 0 .. L
    BY <1>1
  <2> QED BY <1>2, <1>5, <2>1 DEF Computes
<1>7. Steps(f)
  <2>1. \A n \in 0 .. L : n = 0 \/ n \in 1 .. L
    BY <1>1
  <2>2. \A n \in 0 .. L : f[n] = IF n = 0 THEN <<>>
                                ELSE IF projects[n] \in finished THEN f[n - 1]
                                ELSE Append(f[n - 1], projects[n])
    BY <1>6, <2>1
  <2> QED BY <1>6, <2>2 DEF Steps
<1>8. Steps(kept)
  BY <1>7 DEF kept
<1>9. /\ kept[0] = <<>>
      /\ \A n \in 1 .. L : kept[n] = IF projects[n] \in finished THEN kept[n - 1]
                                     ELSE Append(kept[n - 1], projects[n])
  <2>1. \A n \in 0 .. L : kept[n] = IF n = 0 THEN <<>>
                                   ELSE IF projects[n] \in finished THEN kept[n - 1]
                                   ELSE Append(kept[n - 1], projects[n])
    BY <1>8 DEF Steps
  <2> QED BY <1>1, <2>1
<1> DEFINE G == {n \in 0 .. L : Kept(kept[n], projects, finished, n)}
<1>10. 0 \in G
  <2>1. Kept(<<>>, projects, finished, 0)
    BY DEF Kept, Distinct
  <2> QED BY <1>1, <1>9, <2>1
<1>11. ASSUME NEW n \in 1 .. L, n - 1 \in G PROVE n \in G
  <2> DEFINE a == kept[n - 1]
             b == kept[n]
  <2>1. Kept(a, projects, finished, n - 1)
    BY <1>11
  <2>2. b = IF projects[n] \in finished THEN a ELSE Append(a, projects[n])
    BY <1>9
  <2> HIDE DEF a, b
  <2>3. CASE projects[n] \in finished
    <3>1. Kept(b, projects, finished, n)
      BY <1>1, <2>1, <2>2, <2>3 DEF Kept
    <3> QED BY <1>1, <3>1 DEF b
  <2>4. CASE projects[n] \notin finished
    <3> DEFINE K == Len(a)
    <3>1. /\ a \in Seq(Projects) /\ K \in Nat /\ b \in Seq(Projects) /\ Len(b) = K + 1
          /\ \A j \in 1 .. K : b[j] = a[j]
          /\ b[K + 1] = projects[n]
      BY <1>1, <2>1, <2>2, <2>4, AppendProperties DEF Kept
    <3>2. \A j \in 1 .. K : \E m \in 1 .. n - 1 : a[j] = projects[m] /\ projects[m] \notin finished
      BY <2>1 DEF Kept
    <3>3. \A j \in 1 .. K : a[j] # projects[n]
      <4>1. \A m \in 1 .. n - 1 : projects[m] # projects[n]
        BY <1>1 DEF Distinct, L
      <4> QED BY <3>2, <4>1
    <3>4. \A i, j \in 1 .. K : a[i] = a[j] => i = j
      BY <2>1 DEF Kept, Distinct
    <3> HIDE DEF K
    <3>5. \A j \in 1 .. K + 1 : j = K + 1 \/ j \in 1 .. K
      BY <3>1
    <3>6. Distinct(b)
      BY <3>1, <3>3, <3>4, <3>5 DEF Distinct
    <3>7. \A j \in 1 .. K + 1 : \E m \in 1 .. n : b[j] = projects[m] /\ projects[m] \notin finished
      <4>1. n \in 1 .. n /\ \A m \in 1 .. n - 1 : m \in 1 .. n
        BY <1>1
      <4> QED BY <2>4, <3>1, <3>2, <3>5, <4>1
    <3>8. Kept(b, projects, finished, n)
      BY <3>1, <3>6, <3>7 DEF Kept
    <3> QED BY <1>1, <3>8 DEF b
  <2> QED BY <2>3, <2>4
<1> HIDE DEF G
<1>12. 0 .. L \subseteq G
  BY <1>1, <1>10, <1>11, BoundedInduction
<1>13. Kept(kept[L], projects, finished, L)
  BY <1>1, <1>12 DEF G
<1> QED BY <1>3, <1>13 DEF Kept, ToSet, L

-----------------------------------------------------------------------------
(* The invariant.  That a project is finished once needs that it is in the  *)
(* queue once and that ready is what has been finished, in a save as well.  *)

\* What is finished is ready, was finished once and is no longer in the queue.
Settled(projects, done, count) ==
    /\ projects \in Seq(Projects) /\ Distinct(projects)
    /\ done \in SUBSET Projects
    /\ count \in [Projects -> Nat]
    /\ \A p \in Projects : /\ count[p] <= 1
                           /\ p \in done <=> count[p] = 1
                           /\ p \in done => p \notin ToSet(projects)

Paid ==
    \A p \in Projects :
        finishers[p] = 1 /\ saved.finishers[p] = 0 /\ p \notin bare =>
            \A r \in Kinds : accumulated[p][r] >= Cost[p][r]

ProjectsInv ==
    /\ CityProjectsTypeOK
    /\ Settled(queue, ready, finishers)
    /\ Settled(saved.queue, saved.ready, saved.finishers)
    /\ \A p \in Projects : Fair(accumulated[p], p)
    /\ Paid
    /\ ServedInOrder

\* What is settled and paid was finished once, and paid.
LEMMA InvariantImpliesFinishedOncePaid == ProjectsInv => FinishedOncePaid
  BY DEF ProjectsInv, Settled, Paid, FinishedOncePaid

\* The property is part of the invariant.
LEMMA InvariantImpliesWorkforceMoves == ProjectsInv => WorkforceMovesResources
  BY DEF ProjectsInv, Fair, WorkforceMovesResources

\* A project that has nothing yet.
LEMMA NothingIsFair ==
  ASSUME NEW p \in Projects
  PROVE  Fair(Nothing, p) /\ Fair(Nothing, p)'
<1>1. \A r \in Kinds : Nothing[r] = 0
  BY DEF Nothing
<1>2. Moved(Nothing) = 0
  BY NothingMoved
<1>3. \A r \in ToSet(Resources) : CostOf(p)[r] \in Nat
  BY CostsAreNumbers, Names
<1>4. \A r \in ToSet(Resources) : CostOf(p)'[r] \in Nat
  BY CostAssumption, Names DEF CostOf, Nothing
<1>5. \A r \in ToSet(Resources) : Nothing[r] = 0
  BY <1>1, Names
<1>6. Nothing[Workforce] = 0
  BY <1>1, Names
<1>7. Fair(Nothing, p)
  BY <1>2, <1>3, <1>5, <1>6 DEF Fair
<1>8. Fair(Nothing, p)'
  BY <1>2, <1>4, <1>5, <1>6 DEF Fair
<1> QED BY <1>7, <1>8

\* Without a turn to speak of nobody was passed over.
LEMMA NoTurnInOrder ==
  /\ NoTurn \in [served : Seq(Projects), gave : [Projects -> [Kinds -> Nat]], left : [Kinds -> Int]]
  /\ turn = NoTurn => ServedInOrder
  /\ turn' = NoTurn => ServedInOrder'
<1>1. Nothing \in [Kinds -> Nat] /\ Nothing \in [Kinds -> Int]
  BY DEF Nothing
<1>2. NoTurn \in [served : Seq(Projects), gave : [Projects -> [Kinds -> Nat]],
                  left : [Kinds -> Int]]
  BY <1>1 DEF NoTurn
<1>3. DOMAIN NoTurn.served = {}
  BY DEF NoTurn
<1> QED BY <1>2, <1>3 DEF ServedInOrder

\* A city begins without projects.
LEMMA InitProjects == Init => ProjectsInv
<1> SUFFICES ASSUME Init PROVE ProjectsInv
  OBVIOUS
<1>1. Nothing \in [Kinds -> Nat]
  BY DEF Nothing
<1>2. CityProjectsTypeOK
  BY <1>1, NoTurnInOrder DEF Init, CityProjectsTypeOK
<1>3. ToSet(<<>>) = {} /\ Distinct(<<>>)
  BY DEF ToSet, Distinct
<1>4. Settled(queue, ready, finishers) /\ Settled(saved.queue, saved.ready, saved.finishers)
  BY <1>3 DEF Init, Settled
<1>5. \A p \in Projects : Fair(accumulated[p], p)
  BY NothingIsFair DEF Init
<1> QED BY <1>2, <1>4, <1>5, NoTurnInOrder DEF Init, Paid, ProjectsInv

\* AddProject keeps the invariant: a project is added once.
LEMMA AddPreserves ==
  ASSUME ProjectsInv, NEW p \in Projects, NEW index \in 1 .. Len(queue) + 1, AddProject(p, index)
  PROVE  ProjectsInv'
<1>1. /\ p \notin ToSet(queue) /\ finishers[p] = 0
      /\ queue' = InsertAt(queue, index, p)
      /\ accumulated' = [accumulated EXCEPT ![p] = Nothing]
      /\ bare' = bare \ {p}
      /\ turn' = NoTurn
      /\ UNCHANGED <<ready, finishers, saved>>
  BY DEF AddProject
<1>2. queue \in Seq(Projects) /\ Distinct(queue)
  BY DEF ProjectsInv, Settled
<1>3. queue' \in Seq(Projects) /\ Distinct(queue') /\ ToSet(queue') \subseteq ToSet(queue) \cup {p}
  BY <1>1, <1>2, Inserted, InsertedDistinct
<1>4. Nothing \in [Kinds -> Nat]
  BY DEF Nothing
<1>5. CityProjectsTypeOK'
  BY <1>1, <1>3, <1>4, NoTurnInOrder DEF ProjectsInv, CityProjectsTypeOK
<1>6. p \notin ready
  BY <1>1 DEF ProjectsInv, Settled
<1>7. Settled(queue', ready', finishers')
  BY <1>1, <1>3, <1>6 DEF ProjectsInv, Settled
<1>8. ASSUME NEW q \in Projects PROVE Fair(accumulated[q], q)'
  <2>1. CASE q = p
    <3>1. accumulated'[q] = Nothing
      BY <1>1, <2>1 DEF ProjectsInv, CityProjectsTypeOK
    <3> QED BY <3>1, NothingIsFair DEF Fair
  <2>2. CASE q # p
    <3>1. accumulated'[q] = accumulated[q] /\ CostOf(q)' = CostOf(q)
      BY <1>1, <2>2 DEF ProjectsInv, CityProjectsTypeOK, CostOf
    <3> QED BY <3>1 DEF ProjectsInv, Fair
  <2> QED BY <2>1, <2>2
<1>9. Paid'
  BY <1>1 DEF ProjectsInv, CityProjectsTypeOK, Paid
<1> QED BY <1>1, <1>5, <1>7, <1>8, <1>9, NoTurnInOrder DEF ProjectsInv

\* SwapProjects keeps the invariant: it changes nothing but the order.
LEMMA SwapPreserves ==
  ASSUME ProjectsInv, NEW source \in DOMAIN queue, NEW target \in DOMAIN queue,
         SwapProjects(source, target)
  PROVE  ProjectsInv'
<1>1. /\ queue' = [queue EXCEPT ![source] = queue[target], ![target] = queue[source]]
      /\ turn' = NoTurn
      /\ UNCHANGED <<accumulated, ready, bare, finishers, saved>>
  BY DEF SwapProjects
<1>2. queue \in Seq(Projects) /\ Distinct(queue) /\ DOMAIN queue = 1 .. Len(queue)
  BY DEF ProjectsInv, Settled
<1> DEFINE L == Len(queue)
           other(j) == IF j = source THEN target ELSE IF j = target THEN source ELSE j
<1>3. L \in Nat /\ source \in 1 .. L /\ target \in 1 .. L
  BY <1>2
<1>4. queue' \in Seq(Projects) /\ Len(queue') = L
  BY <1>1, <1>2, <1>3
<1>5. \A j \in 1 .. L : queue'[j] = queue[other(j)] /\ other(j) \in 1 .. L
  BY <1>1, <1>2, <1>3
<1>6. Distinct(queue')
  BY <1>2, <1>4, <1>5 DEF Distinct
<1>7. ToSet(queue') \subseteq ToSet(queue)
  BY <1>2, <1>4, <1>5 DEF ToSet
<1>8. CityProjectsTypeOK'
  BY <1>1, <1>4, NoTurnInOrder DEF ProjectsInv, CityProjectsTypeOK
<1>9. Settled(queue', ready', finishers')
  BY <1>1, <1>4, <1>6, <1>7 DEF ProjectsInv, Settled
<1>10. (\A p \in Projects : Fair(accumulated[p], p)') /\ Paid'
  BY <1>1 DEF ProjectsInv, Fair, CostOf, Paid
<1> QED BY <1>1, <1>8, <1>9, <1>10, NoTurnInOrder DEF ProjectsInv

\* Process keeps the invariant: what it finishes is paid for and leaves the queue.
LEMMA ProcessPreserves ==
  ASSUME ProjectsInv, NEW offered \in Pools, Process(offered)
  PROVE  ProjectsInv'
<1> DEFINE s == [pool |-> offered, accumulated |-> accumulated, ready |-> ready,
                 finishers |-> finishers]
           t == ServeAll(s)
           gave == [p \in Projects |-> [r \in Kinds |-> t.accumulated[p][r] - accumulated[p][r]]]
<1>1. /\ accumulated' = t.accumulated /\ ready' = t.ready /\ finishers' = t.finishers
      /\ turn' = [served |-> queue, gave |-> gave, left |-> t.pool]
      /\ queue' = RemoveFinished(queue, t.ready)
      /\ UNCHANGED <<bare, saved>>
  BY DEF Process
<1>2. /\ s \in States
      /\ s.accumulated = accumulated /\ s.ready = ready /\ s.finishers = finishers
  BY PoolsAssumption DEF ProjectsInv, CityProjectsTypeOK, States, Amounts
<1>3. /\ queue \in Seq(Projects) /\ Distinct(queue)
      /\ \A i \in 1 .. Len(queue) : queue[i] \in Projects /\ queue[i] \in ToSet(queue)
      /\ DOMAIN queue = 1 .. Len(queue)
  BY DEF ProjectsInv, Settled, ToSet
<1>4. Outcome(s, t)
  <2>1. \A i \in 1 .. Len(queue) : queue[i] \notin s.ready
    BY <1>2, <1>3 DEF ProjectsInv, Settled
  <2> HIDE DEF s
  <2> QED BY <1>2, <1>3, <2>1, QueueOutcome
<1> HIDE DEF s, t
<1>5. /\ t.pool \in [Kinds -> Int] /\ t.accumulated \in [Projects -> [Kinds -> Nat]]
      /\ t.ready \in SUBSET Projects /\ t.finishers \in [Projects -> Nat]
  BY <1>4 DEF Outcome, States, Amounts
<1>6. /\ queue' \in Seq(Projects) /\ Distinct(queue')
      /\ ToSet(queue') \subseteq ToSet(queue) \ t.ready
  BY <1>1, <1>3, Removed
<1>7. \A p \in Projects, r \in Kinds : /\ accumulated[p][r] \in Nat /\ t.accumulated[p][r] \in Nat
                                       /\ t.accumulated[p][r] >= accumulated[p][r]
  BY <1>2, <1>4, <1>5 DEF ProjectsInv, CityProjectsTypeOK, Outcome
<1>8. CityProjectsTypeOK'
  <2>1. gave \in [Projects -> [Kinds -> Nat]]
    <3>1. \A p \in Projects, r \in Kinds : t.accumulated[p][r] - accumulated[p][r] \in Nat
      BY <1>7
    <3> QED BY <3>1
  <2> HIDE DEF gave
  <2> QED BY <1>1, <1>3, <1>5, <1>6, <2>1 DEF ProjectsInv, CityProjectsTypeOK
<1>9. Settled(queue', ready', finishers')
  <2> SUFFICES ASSUME NEW p \in Projects
               PROVE  /\ t.finishers[p] <= 1
                      /\ p \in t.ready <=> t.finishers[p] = 1
                      /\ p \in t.ready => p \notin ToSet(queue')
    BY <1>1, <1>5, <1>6 DEF Settled
  <2>1. /\ finishers[p] \in Nat /\ finishers[p] <= 1
        /\ p \in ready <=> finishers[p] = 1
        /\ p \in ready => p \notin ToSet(queue)
    BY DEF ProjectsInv, Settled
  <2>2. CASE p \notin ToSet(queue)
    <3>1. /\ t.finishers[p] = finishers[p]
          /\ p \in t.ready <=> p \in ready
      BY <1>2, <1>4, <2>2 DEF Outcome
    <3> QED BY <1>6, <2>1, <2>2, <3>1
  <2>3. CASE p \in ToSet(queue)
    <3>1. /\ p \in t.ready => t.finishers[p] = finishers[p] + 1
          /\ p \notin t.ready => t.finishers[p] = finishers[p]
      BY <1>2, <1>4, <2>3 DEF Outcome
    <3>2. finishers[p] = 0
      BY <2>1, <2>3
    <3> QED BY <1>6, <3>1, <3>2
  <2> QED BY <2>2, <2>3
<1>10. ASSUME NEW p \in Projects PROVE Fair(accumulated[p], p)'
  <2>1. Fair(t.accumulated[p], p)
    BY <1>2, <1>4 DEF ProjectsInv, Outcome
  <2>2. CostOf(p)' = CostOf(p)
    BY <1>1 DEF CostOf
  <2> QED BY <1>1, <2>1, <2>2 DEF Fair
<1>11. Paid'
  <2> SUFFICES ASSUME NEW p \in Projects, t.finishers[p] = 1, saved.finishers[p] = 0, p \notin bare
               PROVE  \A r \in Kinds : t.accumulated[p][r] >= Cost[p][r]
    BY <1>1 DEF Paid
  <2>1. CASE p \notin ToSet(queue)
    <3>1. t.finishers[p] = finishers[p] /\ t.accumulated[p] = accumulated[p]
      BY <1>2, <1>4, <2>1 DEF Outcome
    <3> QED BY <3>1 DEF ProjectsInv, Paid
  <2>2. CASE p \in ToSet(queue)
    <3>1. p \in t.ready
      BY <1>1, <1>9 DEF Settled
    <3>2. \A r \in Kinds : t.accumulated[p][r] >= CostOf(p)[r]
      BY <1>4, <2>2, <3>1 DEF Outcome
    <3> QED BY <3>2, CostsAreNumbers
  <2> QED BY <2>1, <2>2
<1>12. ServedInOrder'
  <2>1. /\ turn'.served = queue /\ turn'.left = t.pool /\ turn'.gave = gave
        /\ \A p \in Projects : CostOf(p)' = CostOf(p)
    BY <1>1 DEF CostOf
  <2>2. \A p \in Projects, r \in Kinds :
            gave[p][r] > 0 <=> t.accumulated[p][r] > accumulated[p][r]
    BY <1>7
  <2> HIDE DEF gave
  <2> DEFINE Offered(i, r) ==
                \/ t.pool[r] > 0 /\ t.pool[Workforce] > 0
                \/ \E j \in (i + 1) .. Len(queue) : gave[queue[j]][r] > 0
  <2>3. ASSUME NEW i \in 1 .. Len(queue), NEW r \in Kinds
        PROVE  Offered(i, r) <=> Offers(s, t, i, r)
    <3>1. \A j \in (i + 1) .. Len(queue) : j \in 1 .. Len(queue)
      BY <1>3
    <3> QED BY <1>2, <1>3, <2>2, <3>1 DEF Offers
  <2>4. ASSUME NEW i \in 1 .. Len(queue)
        PROVE  LET p == queue[i]
                   missing == {r \in ToSet(Resources) : t.accumulated[p][r] < CostOf(p)[r]}
               IN  /\ \A r \in missing : ~Offered(i, r)
                   /\ Offered(i, Workforce) /\ missing = {} => p \in t.ready
    <3> DEFINE p == queue[i]
               missing == {r \in ToSet(Resources) : t.accumulated[p][r] < CostOf(p)[r]}
    <3>1. \A r \in ToSet(Resources) : t.accumulated[p][r] \in Nat /\ CostOf(p)[r] \in Nat
      BY <1>3, <1>7, CostsAreNumbers, Names
    <3>2. \A r \in missing : ~Offered(i, r)
      BY <1>4, <2>3, Names DEF Outcome
    <3>3. ASSUME Offered(i, Workforce), missing = {} PROVE p \in t.ready
      <4>1. \A r \in ToSet(Resources) : t.accumulated[p][r] >= CostOf(p)[r]
        BY <3>1, <3>3
      <4>2. Offers(s, t, i, Workforce)
        BY <2>3, <3>3, Names
      <4> QED BY <1>4, <4>1, <4>2 DEF Outcome
    <3> QED BY <3>2, <3>3
  <2> QED BY <1>1, <1>3, <2>1, <2>4 DEF ServedInOrder
<1> QED BY <1>1, <1>8, <1>9, <1>10, <1>11, <1>12 DEF ProjectsInv

\* Save keeps the invariant: queue and accounts are saved together.
LEMMA SavePreserves ==
  ASSUME ProjectsInv, Save \/ UNCHANGED vars
  PROVE  ProjectsInv'
<1>1. UNCHANGED <<queue, accumulated, ready, bare, finishers, turn>>
  BY DEF Save, vars
<1>2. \/ /\ saved'.queue = queue /\ saved'.ready = ready /\ saved'.finishers = finishers
      \/ saved' = saved
  BY DEF Save, vars
<1>3. CityProjectsTypeOK'
  BY <1>1 DEF ProjectsInv, CityProjectsTypeOK
<1>4. ServedInOrder'
  BY <1>1 DEF ProjectsInv, ServedInOrder, CostOf
<1>5. \A p \in Projects : Fair(accumulated[p], p)'
  <2>1. \A p \in Projects : Fair(accumulated[p], p)
    BY DEF ProjectsInv
  <2> QED BY <1>1, <2>1 DEF Fair, CostOf
<1>6. Paid'
  BY <1>1, <1>2 DEF ProjectsInv, Paid
<1> QED BY <1>1, <1>2, <1>3, <1>4, <1>5, <1>6 DEF ProjectsInv

\* Load keeps the invariant: queue and accounts come back together.
LEMMA LoadPreserves ==
  ASSUME ProjectsInv, Load
  PROVE  ProjectsInv'
<1>1. /\ queue' = saved.queue /\ ready' = saved.ready /\ finishers' = saved.finishers
      /\ accumulated' = [p \in Projects |-> Nothing]
      /\ bare' = ToSet(saved.queue)
      /\ turn' = NoTurn /\ saved' = saved
  BY DEF Load
<1>2. Nothing \in [Kinds -> Nat]
  BY DEF Nothing
<1>3. ToSet(saved.queue) \subseteq Projects
  BY DEF ProjectsInv, Settled, ToSet
<1>4. CityProjectsTypeOK'
  BY <1>1, <1>2, <1>3, NoTurnInOrder DEF ProjectsInv, Settled, CityProjectsTypeOK
<1>5. \A p \in Projects : Fair(accumulated[p], p)'
  <2>1. \A p \in Projects : accumulated'[p] = Nothing
    BY <1>1
  <2> QED BY <2>1, NothingIsFair DEF Fair
<1>6. Paid'
  BY <1>1 DEF Paid
<1> QED BY <1>1, <1>4, <1>5, <1>6, NoTurnInOrder DEF ProjectsInv

\* Every step keeps the invariant.
LEMMA NextProjects == ProjectsInv /\ [Next]_vars => ProjectsInv'
  BY AddPreserves, SwapPreserves, ProcessPreserves, SavePreserves, LoadPreserves DEF Next

\* Every project has what the queue, a turn or a save left it, of the right kind.
THEOREM TypeCorrect == Spec => []CityProjectsTypeOK
<1>1. Init => ProjectsInv
  BY InitProjects
<1>2. ProjectsInv /\ [Next]_vars => ProjectsInv'
  BY NextProjects
<1>3. ProjectsInv => CityProjectsTypeOK
  BY DEF ProjectsInv
<1> QED BY <1>1, <1>2, <1>3, PTL DEF Spec

\* Whatever turns offer, workforce is spent on resources one for one and on the assembly
\* only when all resources are there (ConstructionProject._take_one_resource,
\* _take_assembly_cost).
THEOREM WorkforceIsNotSpentInAdvance == Spec => []WorkforceMovesResources
<1>1. Init => ProjectsInv
  BY InitProjects
<1>2. ProjectsInv /\ [Next]_vars => ProjectsInv'
  BY NextProjects
<1>3. ProjectsInv => WorkforceMovesResources
  BY InvariantImpliesWorkforceMoves
<1> QED BY <1>1, <1>2, <1>3, PTL DEF Spec

\* However often the queue is rearranged, saved and loaded, a project is finished once, and
\* only when its cost was paid, but for a project from a save (CityProjectsQueue.process).
THEOREM FinishedOnlyOnce == Spec => []FinishedOncePaid
<1>1. Init => ProjectsInv
  BY InitProjects
<1>2. ProjectsInv /\ [Next]_vars => ProjectsInv'
  BY NextProjects
<1>3. ProjectsInv => FinishedOncePaid
  BY InvariantImpliesFinishedOncePaid
<1> QED BY <1>1, <1>2, <1>3, PTL DEF Spec

\* Nobody waits for what a turn left over or gave to a project behind it
\* (CityProjectsQueue.process, ConstructionProject._take_resources).
THEOREM NobodyIsPassedOver == Spec => []ServedInOrder
<1>1. Init => ProjectsInv
  BY InitProjects
<1>2. ProjectsInv /\ [Next]_vars => ProjectsInv'
  BY NextProjects
<1>3. ProjectsInv => ServedInOrder
  BY DEF ProjectsInv
<1> QED BY <1>1, <1>2, <1>3, PTL DEF Spec
=============================================================================
