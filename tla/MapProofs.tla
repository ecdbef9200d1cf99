------------------------------ MODULE MapProofs ------------------------------
(***************************************************************************)
(* What holds of every map: of planes and regions of any sizes, wherever   *)
(* the allocator puts their cells, after any sequence of additions,        *)
(* replacements, cities, saves and loads.                                  *)
(*                                                                         *)
(* From the bottom up: numbers; surfaces, where the places of a shape and  *)
(* the elements of its array are one to one; regions and planes as they    *)
(* are made, saved and loaded; the planes of a world, apart from each      *)
(* other in ids and addresses; scopes of cells; the invariant.             *)
(***************************************************************************)
EXTENDS Map, Recursion
-----------------------------------------------------------------------------
(* Numbers.                                                                *)

\* Products of natural numbers grow with their factors.
LEMMA ProductGrows ==
  ASSUME NEW a \in Nat, NEW b \in Nat, NEW c \in Nat, a <= b
  PROVE  a * c \in Nat /\ b * c \in Nat /\ a * c <= b * c
<1>1. b = a + (b - a) /\ b - a \in Nat
  OBVIOUS
<1>2. (b - a) * c \in Nat /\ a * c \in Nat
  BY <1>1
<1>3. b * c = a * c + (b - a) * c
  BY <1>1
<1> QED BY <1>2, <1>3

\* Rows of r elements: the element in a row, and the row, say which element it is.
LEMMA RowsApart ==
  ASSUME NEW r \in Nat, NEW a \in Nat, NEW c \in Nat, NEW b \in 0 .. r - 1, NEW d \in 0 .. r - 1,
         a * r + b = c * r + d
  PROVE  a = c /\ b = d
<1>1. ASSUME NEW x \in Nat, NEW y \in Nat, x < y PROVE x * r + r <= y * r
  <2>1. (x + 1) * r <= y * r
    BY <1>1, ProductGrows
  <2>2. (x + 1) * r = x * r + r
    OBVIOUS
  <2> QED BY <2>1, <2>2
<1>2. a * r \in Nat /\ c * r \in Nat
  OBVIOUS
<1>3. ~(a < c)
  BY <1>1, <1>2
<1>4. ~(c < a)
  BY <1>1, <1>2
<1>5. a = c
  BY <1>3, <1>4
<1> QED BY <1>2, <1>5

\* An element of a row is one of all the elements of the rows.
LEMMA RowsFit ==
  ASSUME NEW n \in Nat, NEW r \in Nat, NEW a \in 0 .. n - 1, NEW b \in 0 .. r - 1
  PROVE  a * r + b \in 0 .. n * r - 1
<1>1. (a + 1) * r <= n * r /\ a * r \in Nat /\ n * r \in Nat
  BY ProductGrows
<1>2. (a + 1) * r = a * r + r
  OBVIOUS
<1> QED BY <1>1, <1>2

\* Every element is in a row, which division finds.
LEMMA Division ==
  ASSUME NEW n \in Nat, NEW r \in Nat, r > 0, NEW i \in 0 .. n * r - 1
  PROVE  /\ i % r \in 0 .. r - 1 /\ i \div r \in 0 .. n - 1
         /\ i = (i \div r) * r + (i % r)
<1>1. i \in Nat /\ i % r \in 0 .. r - 1 /\ i \div r \in Int /\ i = r * (i \div r) + (i % r)
  OBVIOUS
<1>2. i = (i \div r) * r + (i % r)
  BY <1>1
<1>3. i \div r >= 0
  <2> SUFFICES ASSUME i \div r < 0 PROVE FALSE
    BY <1>1
  <2>1. (-1 - (i \div r)) * r \in Nat
    BY <1>1
  <2>2. (-1 - (i \div r)) * r = - r - (i \div r) * r
    BY <1>1
  <2> QED BY <1>1, <1>2, <2>1, <2>2
<1>4. i \div r < n
  <2> SUFFICES ASSUME i \div r >= n PROVE FALSE
    BY <1>1
  <2>1. n * r <= (i \div r) * r
    BY <1>1, <1>3, ProductGrows
  <2> QED BY <1>1, <1>2, <2>1
<1> QED BY <1>1, <1>2, <1>3, <1>4

\* A product of numbers on both sides of zero is not above zero.
LEMMA SignsOfProduct ==
  ASSUME NEW x \in Int, NEW y \in Int, x >= 0, y <= 0
  PROVE  x * y <= 0 /\ y * x <= 0
<1>1. x * (0 - y) \in Nat
  OBVIOUS
<1>2. x * (0 - y) = 0 - x * y /\ x * y = y * x /\ x * y \in Int
  OBVIOUS
<1> QED BY <1>1, <1>2

\* The lesser of two numbers is one of the integers.
LEMMA LeastOfTwo ==
  ASSUME NEW a \in Int, NEW b \in Int
  PROVE  Min({a, b}) \in Int /\ Min({a, b}) <= a /\ Min({a, b}) <= b
<1>1. \E x \in {a, b} : \A y \in {a, b} : x <= y
  OBVIOUS
<1> QED BY <1>1 DEF Min

\* The greater of two numbers is one of them.
LEMMA GreatestOfTwo ==
  ASSUME NEW a \in Int, NEW b \in Int
  PROVE  Max({a, b}) \in Int /\ Max({a, b}) >= a /\ Max({a, b}) >= b
         /\ (Max({a, b}) = a \/ Max({a, b}) = b)
<1>1. \E x \in {a, b} : \A y \in {a, b} : x >= y
  OBVIOUS
<1> QED BY <1>1 DEF Max

-----------------------------------------------------------------------------
(* Surfaces.                                                               *)

\* A box whose corners are in order.
WellBox(box) ==
    /\ box = [start |-> box.start, end |-> box.end]
    /\ box.start \in Int \X Int /\ box.end \in Int \X Int
    /\ Q(box.start) <= Q(box.end) /\ R(box.start) <= R(box.end)

\* The shape of a region.
WellHexagon(shape) ==
    shape = [kind |-> "hexagon", radius |-> shape.radius] /\ shape.radius \in Nat \ {0}

\* The shape of a plane.
WellRhombus(shape) == shape = Rhombus(shape.box) /\ WellBox(shape.box)

\* The shapes there are.
WellShape(shape) == WellHexagon(shape) \/ WellRhombus(shape)

\* Corners may be given in any order: the box has them in order.
LEMMA BoxesAreWell ==
  ASSUME NEW a \in Int \X Int, NEW b \in Int \X Int
  PROVE  WellBox(Box(a, b)) /\ WellRhombus(Rhombus(Box(a, b)))
<1> DEFINE x == <<Min({Q(a), Q(b)}), Min({R(a), R(b)})>>
           y == <<Max({Q(a), Q(b)}), Max({R(a), R(b)})>>
<1>1. Q(a) \in Int /\ R(a) \in Int /\ Q(b) \in Int /\ R(b) \in Int
  BY DEF Q, R
<1>2. /\ Min({Q(a), Q(b)}) \in Int /\ Min({R(a), R(b)}) \in Int
      /\ Max({Q(a), Q(b)}) \in Int /\ Max({R(a), R(b)}) \in Int
      /\ Min({Q(a), Q(b)}) <= Max({Q(a), Q(b)}) /\ Min({R(a), R(b)}) <= Max({R(a), R(b)})
  <2>1. /\ Min({Q(a), Q(b)}) \in Int /\ Min({Q(a), Q(b)}) <= Q(a)
        /\ Max({Q(a), Q(b)}) \in Int /\ Max({Q(a), Q(b)}) >= Q(a)
    BY <1>1, LeastOfTwo, GreatestOfTwo
  <2>2. /\ Min({R(a), R(b)}) \in Int /\ Min({R(a), R(b)}) <= R(a)
        /\ Max({R(a), R(b)}) \in Int /\ Max({R(a), R(b)}) >= R(a)
    BY <1>1, LeastOfTwo, GreatestOfTwo
  <2> QED BY <1>1, <2>1, <2>2
<1>3. x \in Int \X Int /\ y \in Int \X Int /\ Q(x) <= Q(y) /\ R(x) <= R(y)
  BY <1>2 DEF Q, R
<1>4. Box(a, b) = [start |-> x, end |-> y]
  BY DEF Box
<1> HIDE DEF x, y
<1> QED BY <1>3, <1>4 DEF WellBox, WellRhombus, Rhombus

\* A hexagon has a radius of at least one.
LEMMA HexagonsAreWell ==
  ASSUME NEW n \in Int
  PROVE  WellHexagon(Hexagon(n)) /\ (n >= 1 => Hexagon(n).radius = n)
<1>1. Max({n, 1}) \in Int /\ Max({n, 1}) >= 1 /\ (n >= 1 => Max({n, 1}) = n)
  BY GreatestOfTwo
<1> QED BY <1>1 DEF Hexagon, WellHexagon

\* The sides of the box around a shape.
LEMMA BoundsOfShape ==
  ASSUME NEW shape, WellShape(shape)
  PROVE  /\ WellBox(BoundingBox(shape))
         /\ WellHexagon(shape) => /\ Q(BoundingBox(shape).start) = -shape.radius
                                  /\ R(BoundingBox(shape).start) = -shape.radius
                                  /\ Q(BoundingBox(shape).end) = shape.radius
                                  /\ R(BoundingBox(shape).end) = shape.radius
<1>1. CASE WellRhombus(shape)
  BY <1>1 DEF WellRhombus, WellHexagon, Rhombus, BoundingBox
<1>2. CASE WellHexagon(shape)
  <2> DEFINE n == shape.radius
             a == <<-n, -n>>
             b == <<n, n>>
  <2>1. n \in Nat \ {0} /\ a \in Int \X Int /\ b \in Int \X Int
        /\ BoundingBox(shape) = Box(a, b)
    BY <1>2 DEF WellHexagon, BoundingBox
  <2>2. Min({-n, n}) = -n /\ Max({-n, n}) = n
    <3>1. Min({-n, n}) \in {-n, n} /\ Max({-n, n}) \in {-n, n}
          /\ Min({-n, n}) <= -n /\ Max({-n, n}) >= n
      <4>1. -n \in Int /\ n \in Int /\ -n <= n
        BY <2>1
      <4>2. (\E x \in {-n, n} : \A y \in {-n, n} : x <= y)
            /\ (\E x \in {-n, n} : \A y \in {-n, n} : x >= y)
        BY <4>1
      <4>3. Min({-n, n}) \in {-n, n} /\ Max({-n, n}) \in {-n, n}
        BY <4>2 DEF Min, Max
      <4> HIDE DEF n
      <4> QED BY <4>1, <4>3, LeastOfTwo, GreatestOfTwo
    <3> HIDE DEF n
    <3> QED BY <2>1, <3>1
  <2>3. Box(a, b) = [start |-> a, end |-> b]
    BY <2>2 DEF Box, Q, R
  <2> QED BY <2>1, <2>3, BoxesAreWell DEF Q, R
<1> QED BY <1>1, <1>2 DEF WellShape

\* The box around a shape has the rows and columns its sizes say.
LEMMA SizesOfShape ==
  ASSUME NEW shape, WellShape(shape)
  PROVE  /\ Q(BoundingBox(shape).start) \in Int /\ R(BoundingBox(shape).start) \in Int
         /\ QSize(shape) \in Nat \ {0} /\ RSize(shape) \in Nat \ {0}
         /\ Q(BoundingBox(shape).end) = Q(BoundingBox(shape).start) + QSize(shape) - 1
         /\ R(BoundingBox(shape).end) = R(BoundingBox(shape).start) + RSize(shape) - 1
         /\ DataSize(shape) \in Nat
<1> DEFINE box == BoundingBox(shape)
<1>1. WellBox(box)
  BY BoundsOfShape
<1> HIDE DEF box
<1>2. /\ Q(box.start) \in Int /\ R(box.start) \in Int /\ Q(box.end) \in Int /\ R(box.end) \in Int
      /\ Q(box.start) <= Q(box.end) /\ R(box.start) <= R(box.end)
  BY <1>1 DEF WellBox, Q, R
<1>3. /\ Absolute(Q(box.end) - Q(box.start)) = Q(box.end) - Q(box.start)
      /\ Absolute(R(box.end) - R(box.start)) = R(box.end) - R(box.start)
  BY <1>2 DEF Absolute
<1>4. /\ QSize(shape) = Q(box.end) - Q(box.start) + 1
      /\ RSize(shape) = R(box.end) - R(box.start) + 1
  BY <1>3 DEF QSize, RSize, box
<1>5. QSize(shape) \in Nat \ {0} /\ RSize(shape) \in Nat \ {0}
  BY <1>2, <1>4
<1>6. DataSize(shape) \in Nat
  BY <1>5 DEF DataSize
<1>7. /\ Q(box.end) = Q(box.start) + QSize(shape) - 1
      /\ R(box.end) = R(box.start) + RSize(shape) - 1
  BY <1>2, <1>4
<1> QED BY <1>2, <1>5, <1>6, <1>7 DEF box

\* A place of the box around a shape: so the array has an element for it.
InBox(shape, place) ==
    /\ place \in Int \X Int
    /\ Q(place) - Q(BoundingBox(shape).start) \in 0 .. QSize(shape) - 1
    /\ R(place) - R(BoundingBox(shape).start) \in 0 .. RSize(shape) - 1

\* GetCell finds an element of the array for each place of the box.
LEMMA ElementOfPlace ==
  ASSUME NEW shape, WellShape(shape), NEW place, InBox(shape, place)
  PROVE  GetCell(shape, place) \in 1 .. DataSize(shape)
<1> DEFINE a == Q(place) - Q(BoundingBox(shape).start)
           b == R(place) - R(BoundingBox(shape).start)
           n == QSize(shape)
           r == RSize(shape)
<1>1. n \in Nat /\ r \in Nat /\ a \in 0 .. n - 1 /\ b \in 0 .. r - 1
  BY SizesOfShape DEF InBox
<1>2. GetCell(shape, place) = 1 + a * r + b /\ DataSize(shape) = n * r
  BY DEF GetCell, DataSize
<1> HIDE DEF a, b, n, r
<1>3. a * r + b \in 0 .. n * r - 1 /\ a * r \in Int
  BY <1>1, RowsFit
<1>4. 1 + a * r + b = 1 + (a * r + b) /\ n * r \in Int
  BY <1>1, <1>3
<1> QED BY <1>2, <1>3, <1>4

\* No two places of the box have the same element.
LEMMA ElementsApart ==
  ASSUME NEW shape, WellShape(shape), NEW place, InBox(shape, place),
         NEW other, InBox(shape, other), GetCell(shape, place) = GetCell(shape, other)
  PROVE  place = other
<1> DEFINE x == BoundingBox(shape).start
           a == Q(place) - Q(x)
           b == R(place) - R(x)
           c == Q(other) - Q(x)
           d == R(other) - R(x)
           r == RSize(shape)
<1>1. /\ r \in Nat /\ a \in Nat /\ c \in Nat /\ b \in 0 .. r - 1 /\ d \in 0 .. r - 1
      /\ Q(x) \in Int /\ R(x) \in Int
  BY SizesOfShape DEF InBox
<1>2. GetCell(shape, place) = 1 + a * r + b /\ GetCell(shape, other) = 1 + c * r + d
  BY DEF GetCell
<1>3. /\ place = <<Q(place), R(place)>> /\ other = <<Q(other), R(other)>>
      /\ Q(place) \in Int /\ R(place) \in Int /\ Q(other) \in Int /\ R(other) \in Int
  BY DEF InBox, Q, R
<1>4. a = c /\ b = d => Q(place) = Q(other) /\ R(place) = R(other)
  BY <1>1, <1>3
<1> HIDE DEF a, b, c, d, r
<1>5. a * r + b = c * r + d
  <2> DEFINE u == a * r
             v == c * r
  <2>1. u \in Int /\ v \in Int /\ b \in Int /\ d \in Int
    BY <1>1
  <2>2. 1 + u + b = 1 + v + d
    BY <1>2
  <2> HIDE DEF u, v
  <2>3. u + b = v + d
    BY <2>1, <2>2
  <2> QED BY <2>3 DEF u, v
<1>6. a = c /\ b = d
  BY <1>1, <1>5, RowsApart
<1> QED BY <1>3, <1>4, <1>6

\* Every element is that of a place, which is the index-th that a visit comes to for one index.
LEMMA PlaceOfElement ==
  ASSUME NEW shape, WellShape(shape), NEW i \in 1 .. DataSize(shape)
  PROVE  \E place : InBox(shape, place) /\ GetCell(shape, place) = i
<1> DEFINE x == BoundingBox(shape).start
           n == QSize(shape)
           r == RSize(shape)
           a == (i - 1) \div r
           b == (i - 1) % r
           place == <<Q(x) + a, R(x) + b>>
<1>1. n \in Nat /\ r \in Nat /\ r > 0 /\ Q(x) \in Int /\ R(x) \in Int /\ DataSize(shape) = n * r
  BY SizesOfShape DEF DataSize
<1> HIDE DEF n, r, x
<1>2. i - 1 \in 0 .. n * r - 1
  BY <1>1
<1>3. a \in 0 .. n - 1 /\ b \in 0 .. r - 1 /\ i - 1 = a * r + b
  BY <1>1, <1>2, Division
<1> HIDE DEF a, b
<1>4. /\ place \in Int \X Int /\ Q(place) - Q(x) = a /\ R(place) - R(x) = b
  BY <1>1, <1>3 DEF Q, R
<1> HIDE DEF place
<1>5. InBox(shape, place)
  BY <1>3, <1>4 DEF InBox, x, n, r
<1>6. GetCell(shape, place) = 1 + a * r + b
  BY <1>4 DEF GetCell, x, r
<1>7. 1 + a * r + b = i
  <2>1. a * r \in Int
    BY <1>1, <1>3
  <2> QED BY <1>3, <2>1
<1> QED BY <1>5, <1>6, <1>7

\* The indexes of a visit come to each place of the box.
LEMMA RawPlaces ==
  ASSUME NEW shape, WellShape(shape)
  PROVE  /\ \A i \in 0 .. DataSize(shape) - 1 : InBox(shape, FromRawIndex(shape, i))
         /\ \A place : InBox(shape, place) =>
                \E i \in 0 .. DataSize(shape) - 1 : FromRawIndex(shape, i) = place
<1> DEFINE x == BoundingBox(shape).start
           n == QSize(shape)
           r == RSize(shape)
<1>1. /\ n \in Nat /\ r \in Nat /\ n > 0 /\ Q(x) \in Int /\ R(x) \in Int
      /\ DataSize(shape) = n * r /\ n * r = r * n /\ n * r \in Nat
  BY SizesOfShape DEF DataSize
<1>2. \A i : FromRawIndex(shape, i) = <<Q(x) + (i % n), R(x) + (i \div n)>>
  BY DEF FromRawIndex
<1>3. \A place : InBox(shape, place) <=> /\ place \in Int \X Int
                                       /\ Q(place) - Q(x) \in 0 .. n - 1
                                       /\ R(place) - R(x) \in 0 .. r - 1
  BY DEF InBox
<1> HIDE DEF x, n, r
<1>4. ASSUME NEW i \in 0 .. n * r - 1
      PROVE  InBox(shape, FromRawIndex(shape, i))
  <2> DEFINE a == i % n
             b == i \div n
             place == <<Q(x) + a, R(x) + b>>
  <2>1. a \in 0 .. n - 1 /\ b \in 0 .. r - 1
    <3>1. i \in 0 .. r * n - 1
      BY <1>1
    <3> QED BY <1>1, <3>1, Division
  <2>2. place = FromRawIndex(shape, i)
    BY <1>2
  <2> HIDE DEF a, b
  <2>3. /\ place \in Int \X Int /\ Q(place) - Q(x) = a /\ R(place) - R(x) = b
    BY <1>1, <2>1 DEF Q, R
  <2> HIDE DEF place
  <2>4. InBox(shape, place)
    BY <1>3, <2>1, <2>3
  <2> QED BY <2>2, <2>4
<1>5. ASSUME NEW place, InBox(shape, place)
      PROVE  \E i \in 0 .. n * r - 1 : FromRawIndex(shape, i) = place
  <2> DEFINE a == Q(place) - Q(x)
             b == R(place) - R(x)
             i == b * n + a
  <2>1. /\ a \in 0 .. n - 1 /\ b \in 0 .. r - 1 /\ place \in Int \X Int
    BY <1>3, <1>5
  <2>2. place = <<Q(x) + a, R(x) + b>>
    <3>1. place = <<Q(place), R(place)>> /\ Q(place) \in Int /\ R(place) \in Int
      BY <2>1 DEF Q, R
    <3>2. Q(x) + a = Q(place) /\ R(x) + b = R(place)
      BY <1>1, <3>1
    <3> QED BY <3>1, <3>2
  <2> HIDE DEF a, b
  <2>3. i \in 0 .. r * n - 1
    BY <1>1, <2>1, RowsFit
  <2> HIDE DEF i
  <2>4. i % n \in 0 .. n - 1 /\ i \div n \in Nat /\ (i \div n) * n + (i % n) = b * n + a
    <3>1. i % n \in 0 .. n - 1 /\ i \div n \in 0 .. r - 1 /\ i = (i \div n) * n + (i % n)
      BY <1>1, <2>3, Division
    <3> QED BY <1>1, <3>1 DEF i
  <2> DEFINE c == i \div n
             d == i % n
  <2>5. c \in Nat /\ d \in 0 .. n - 1 /\ c * n + d = b * n + a
    BY <2>4
  <2>6. FromRawIndex(shape, i) = <<Q(x) + d, R(x) + c>>
    BY <1>2
  <2> HIDE DEF c, d
  <2>7. b = c /\ a = d
    BY <1>1, <2>1, <2>5, RowsApart
  <2>8. i \in 0 .. n * r - 1
    BY <1>1, <2>3
  <2> QED BY <2>2, <2>6, <2>7, <2>8
<1> QED BY <1>1, <1>4, <1>5

\* The places of a shape are those of the box that the shape contains.
LEMMA PlacesAreInBox ==
  ASSUME NEW shape, WellShape(shape), NEW place
  PROVE  place \in Places(shape) <=> InBox(shape, place) /\ ShapeContains(shape, place)
<1> DEFINE box == BoundingBox(shape)
           n == QSize(shape)
           r == RSize(shape)
<1>1. /\ Q(box.start) \in Int /\ R(box.start) \in Int /\ n \in Nat /\ r \in Nat
      /\ Q(box.end) = Q(box.start) + n - 1 /\ R(box.end) = R(box.start) + r - 1
  BY SizesOfShape
<1>2. place \in Places(shape) <=>
        /\ place \in (Q(box.start)..Q(box.end)) \X (R(box.start)..R(box.end))
        /\ ShapeContains(shape, place)
  BY DEF Places
<1>3. InBox(shape, place) <=> /\ place \in Int \X Int
                              /\ Q(place) - Q(box.start) \in 0 .. n - 1
                              /\ R(place) - R(box.start) \in 0 .. r - 1
  BY DEF InBox
<1> HIDE DEF box, n, r
<1>4. place \in (Q(box.start)..Q(box.end)) \X (R(box.start)..R(box.end)) <=>
        /\ place \in Int \X Int
        /\ Q(place) - Q(box.start) \in 0 .. n - 1
        /\ R(place) - R(box.start) \in 0 .. r - 1
  <2>1. place \in Int \X Int => Q(place) = place[1] /\ R(place) = place[2]
    BY DEF Q, R
  <2>2. place \in (Q(box.start)..Q(box.end)) \X (R(box.start)..R(box.end)) <=>
          /\ place \in Int \X Int
          /\ place[1] \in Q(box.start)..Q(box.end)
          /\ place[2] \in R(box.start)..R(box.end)
    BY <1>1
  <2> QED BY <1>1, <2>1, <2>2
<1> QED BY <1>2, <1>3, <1>4

\* A visit comes to the places of a shape.
LEMMA ForeachIs ==
  ASSUME NEW shape, WellShape(shape)
  PROVE  /\ Foreach(shape) \in Seq(Int \X Int) /\ Len(Foreach(shape)) <= DataSize(shape)
         /\ ToSet(Foreach(shape)) = Places(shape)
<1> DEFINE L == DataSize(shape)
           raw == [n \in 1 .. L |-> FromRawIndex(shape, n - 1)]
           Keeps(t, n) == IF ShapeContains(shape, raw[n]) THEN Append(t, raw[n]) ELSE t
           Solves(g) == g = [n \in 0 .. L |->
                                IF n = 0 THEN <<>>
                                ELSE IF ShapeContains(shape, FromRawIndex(shape, n - 1))
                                     THEN Append(g[n - 1], FromRawIndex(shape, n - 1))
                                     ELSE g[n - 1]]
           visits == CHOOSE g : Solves(g)
           P == Int \X Int
           D == Seq(P)
           step == [x \in (1 .. L) \X D |-> Keeps(x[2], x[1])]
<1>1. /\ L \in Nat
      /\ \A n \in 1 .. L : n \in 0 .. L /\ n - 1 \in 0 .. L /\ n # 0 /\ n - 1 \in 0 .. L - 1
  BY SizesOfShape
<1>2. Foreach(shape) = visits[L]
  BY DEF Foreach
<1>3. \A n \in 1 .. L, t \in D : step[<<n, t>>] = Keeps(t, n)
  OBVIOUS
<1>4. \A n \in 1 .. L : raw[n] = FromRawIndex(shape, n - 1) /\ InBox(shape, raw[n])
  BY <1>1, RawPlaces
<1>5. \A n \in 1 .. L : raw[n] \in Int \X Int
  BY <1>4 DEF InBox
<1>6. \A place : InBox(shape, place) => \E n \in 1 .. L : raw[n] = place
  <2> SUFFICES ASSUME NEW place, InBox(shape, place) PROVE \E n \in 1 .. L : raw[n] = place
    OBVIOUS
  <2>1. PICK i \in 0 .. L - 1 : FromRawIndex(shape, i) = place
    BY RawPlaces
  <2>2. i + 1 \in 1 .. L /\ (i + 1) - 1 = i
    BY <1>1
  <2> QED BY <2>1, <2>2
<1>7. \A g, n : Solves(g) /\ n \in 1 .. L => g[n] = Keeps(g[n - 1], n)
  BY <1>1, <1>4
<1> HIDE DEF L, step, raw
<1>8. Stays(D, <<>>, L, step)
  <2>1. \A n \in 1 .. L, t \in D : Keeps(t, n) \in D
    BY <1>5
  <2>2. <<>> \in D
    OBVIOUS
  <2> HIDE DEF Keeps
  <2> QED BY <1>1, <1>3, <2>1, <2>2 DEF Stays
<1>9. PICK f : Computes(f, D, <<>>, L, step)
  BY <1>8, RecursionExists
<1>10. f \in [0 .. L -> D] /\ f[0] = <<>> /\ \A n \in 1 .. L : f[n] = Keeps(f[n - 1], n)
  <2>1. f \in [0 .. L -> D] /\ f[0] = <<>>
    BY <1>9 DEF Computes
  <2> HIDE DEF Keeps
  <2> QED BY <1>1, <1>3, <1>9, <2>1 DEF Computes
<1>11. Solves(f)
  <2>1. \A n \in 0 .. L : n = 0 \/ n \in 1 .. L
    BY <1>1
  <2> QED BY <1>4, <1>10, <2>1
<1>12. Solves(visits)
  <2> HIDE DEF Solves
  <2> QED BY <1>11
<1> HIDE DEF visits
<1>13. visits[0] = <<>> /\ \A n \in 1 .. L : visits[n] = Keeps(visits[n - 1], n)
  <2>1. 0 \in 0 .. L
    BY <1>1
  <2>2. visits[0] = <<>>
    BY <1>12, <2>1
  <2> QED BY <1>7, <1>12, <2>2
<1> HIDE DEF Solves, P
<1> DEFINE Met(n, y) == \E m \in 1 .. n : y = raw[m] /\ ShapeContains(shape, y)
           Good(n) == /\ visits[n] \in D /\ Len(visits[n]) <= n
                      /\ \A y : y \in Range(visits[n]) <=> Met(n, y)
           G == {n \in 0 .. L : Good(n)}
<1>14. 0 \in G
  <2>1. Range(<<>>) = {} /\ Len(<<>>) = 0 /\ <<>> \in D
    BY DEF Range
  <2>2. \A m \in 1 .. 0 : FALSE
    OBVIOUS
  <2>3. 0 \in 0 .. L
    BY <1>1
  <2>4. /\ visits[0] \in D /\ Len(visits[0]) <= 0 /\ Range(visits[0]) = {}
    BY <1>13, <2>1
  <2>5. \A y : ~Met(0, y)
    BY <2>2
  <2>6. Good(0)
    BY <2>4, <2>5
  <2> QED BY <2>3, <2>6
<1>15. ASSUME NEW n \in 1 .. L, n - 1 \in G PROVE n \in G
  <2>1. /\ visits[n - 1] \in D /\ Len(visits[n - 1]) <= n - 1 /\ Len(visits[n - 1]) \in Nat
        /\ \A y : y \in Range(visits[n - 1]) <=> Met(n - 1, y)
    BY <1>15
  <2>2. visits[n] = Keeps(visits[n - 1], n)
    BY <1>13
  <2>3. \A m : m \in 1 .. n <=> m \in 1 .. n - 1 \/ m = n
    BY <1>1
  <2>4. CASE ShapeContains(shape, raw[n])
    <3>1. visits[n] = Append(visits[n - 1], raw[n])
      BY <2>2, <2>4
    <3> HIDE DEF Keeps
    <3>2. /\ visits[n] \in D /\ Range(visits[n]) = Range(visits[n - 1]) \cup {raw[n]}
          /\ Len(visits[n]) = Len(visits[n - 1]) + 1
      <4> DEFINE t == visits[n - 1]
                 e == raw[n]
      <4>1. t \in Seq(P) /\ e \in P /\ visits[n] = Append(t, e)
        BY <1>5, <2>1, <3>1 DEF P
      <4> HIDE DEF t, e
      <4>2. /\ Append(t, e) \in Seq(P) /\ Range(Append(t, e)) = Range(t) \cup {e}
            /\ Len(Append(t, e)) = Len(t) + 1
        BY <4>1, ElementsOfAppend
      <4> QED BY <4>1, <4>2 DEF t, e
    <3>3. Len(visits[n]) <= n
      BY <1>1, <2>1, <3>2
    <3>4. \A y : y \in Range(visits[n]) <=> Met(n, y)
      BY <2>1, <2>3, <2>4, <3>2
    <3> QED BY <1>1, <3>2, <3>3, <3>4
  <2>5. CASE ~ShapeContains(shape, raw[n])
    <3>1. visits[n] = visits[n - 1]
      BY <2>2, <2>5
    <3>2. \A y : y \in Range(visits[n]) <=> Met(n, y)
      BY <2>1, <2>3, <2>5, <3>1
    <3> QED BY <1>1, <2>1, <3>1, <3>2
  <2> QED BY <2>4, <2>5
<1> HIDE DEF G
<1>16. L \in G
  <2>1. 0 .. L \subseteq G
    BY <1>1, <1>14, <1>15, BoundedInduction
  <2> QED BY <1>1, <2>1
<1>17. /\ visits[L] \in D /\ Len(visits[L]) <= L
       /\ \A y : y \in Range(visits[L]) <=> Met(L, y)
  BY <1>16 DEF G
<1>18. \A y : Met(L, y) <=> y \in Places(shape)
  BY <1>4, <1>6, PlacesAreInBox
<1>19. ToSet(visits[L]) = Range(visits[L])
  BY DEF ToSet, Range
<1> QED BY <1>2, <1>17, <1>18, <1>19 DEF L, P

\* A rhombus fills its box.
LEMMA RhombusIsFull ==
  ASSUME NEW shape, WellRhombus(shape), NEW place, InBox(shape, place)
  PROVE  ShapeContains(shape, place) /\ place \in Places(shape)
<1> DEFINE box == shape.box
           a == Q(place)
           b == R(place)
           q1 == Q(box.start)
           r1 == R(box.start)
           q2 == Q(box.end)
           r2 == R(box.end)
<1>1. WellShape(shape) /\ WellBox(box) /\ BoundingBox(shape) = box /\ shape.kind = "rhombus"
  BY DEF WellShape, WellRhombus, BoundingBox, Rhombus
<1>2. /\ a \in Int /\ b \in Int
      /\ q1 \in Int /\ r1 \in Int /\ q2 \in Int /\ r2 \in Int
      /\ q1 <= a /\ a <= q2 /\ r1 <= b /\ b <= r2
  <2>1. /\ a \in Int /\ b \in Int
    BY DEF InBox, Q, R
  <2>2. /\ a - q1 \in 0 .. QSize(shape) - 1 /\ b - r1 \in 0 .. RSize(shape) - 1
    BY <1>1 DEF InBox
  <2>3. /\ q1 \in Int /\ r1 \in Int /\ QSize(shape) \in Nat /\ RSize(shape) \in Nat
        /\ q2 = q1 + QSize(shape) - 1 /\ r2 = r1 + RSize(shape) - 1
    BY <1>1, SizesOfShape
  <2> HIDE DEF a, b, q1, r1, q2, r2, box
  <2> QED BY <2>1, <2>2, <2>3
<1>3. /\ S(place) = 0 - a - b /\ S(box.start) = 0 - q1 - r1 /\ S(box.end) = 0 - q2 - r2
  BY DEF S, Q, R
<1> HIDE DEF a, b, q1, r1, q2, r2, box
<1>4. (a - q1) * (a - q2) <= 0 /\ (b - r1) * (b - r2) <= 0
  BY <1>2, SignsOfProduct
<1> DEFINE s == 0 - a - b
           s1 == 0 - q1 - r1
           s2 == 0 - q2 - r2
<1>5. s - s1 \in Int /\ s - s2 \in Int /\ s - s1 <= 0 /\ s - s2 >= 0
  BY <1>2
<1> HIDE DEF s, s1, s2
<1>6. (s - s1) * (s - s2) <= 0
  BY <1>5, SignsOfProduct
<1>7. BoxContains(box, place)
  BY <1>3, <1>4, <1>6 DEF BoxContains, InRange, a, b, q1, r1, q2, r2, s, s1, s2
<1>8. ShapeContains(shape, place)
  BY <1>1, <1>7 DEF ShapeContains, box
<1> QED BY <1>1, <1>8, PlacesAreInBox

-----------------------------------------------------------------------------
(* Regions and planes.                                                     *)

\* A cell in memory.
WellCell(cell) ==
    /\ cell = [address |-> cell.address, scope |-> cell.scope, parent |-> cell.parent]
    /\ cell.address \in Int

\* A region with a cell for each element of its array.
WellRegion(region) ==
    /\ region = [id |-> region.id, parent |-> region.parent, cityId |-> region.cityId,
                 shape |-> region.shape, cells |-> region.cells]
    /\ WellHexagon(region.shape)
    /\ region.cells = [k \in 1 .. DataSize(region.shape) |-> region.cells[k]]
    /\ \A k \in 1 .. DataSize(region.shape) : WellCell(region.cells[k])

\* A plane, whatever its index is.
WellLaid(plane) ==
    /\ plane = [id |-> plane.id, parent |-> plane.parent, shape |-> plane.shape,
                externalRadius |-> plane.externalRadius, regions |-> plane.regions,
                index |-> plane.index]
    /\ WellRhombus(plane.shape)
    /\ plane.externalRadius \in Nat \ {0}
    /\ plane.regions = [i \in 1 .. DataSize(plane.shape) |-> plane.regions[i]]
    /\ \A i \in 1 .. DataSize(plane.shape) : WellRegion(plane.regions[i])

\* The index has the regions of the plane, each at the place where it is.
Indexed(plane) ==
    /\ DOMAIN plane.index = {plane.regions[i].id : i \in 1 .. DataSize(plane.shape)}
    /\ \A i \in 1 .. DataSize(plane.shape) : plane.index[plane.regions[i].id] = i

\* The same cells but for their parents.
SameCells(cells, others, n) ==
    \A k \in 1 .. n : /\ cells[k].address = others[k].address
                      /\ cells[k].scope = others[k].scope

\* The cells of the shape are below the region.
Parented(region) ==
    \A place \in Places(region.shape) :
        CellAt(region, place).parent = RegionScope(region.id)

\* A place of a shape has an element.
LEMMA ElementInShape ==
  ASSUME NEW shape, WellShape(shape), NEW place \in Places(shape)
  PROVE  GetCell(shape, place) \in 1 .. DataSize(shape)
  BY PlacesAreInBox, ElementOfPlace

\* A cell that is given a parent.
LEMMA CellBelow ==
  ASSUME NEW cell, WellCell(cell), NEW p
  PROVE  [cell EXCEPT !.parent = p] = [address |-> cell.address, scope |-> cell.scope, parent |-> p]
<1> DEFINE x == cell.address
           y == cell.scope
           z == cell.parent
<1>1. cell = [address |-> x, scope |-> y, parent |-> z]
  BY DEF WellCell
<1> HIDE DEF x, y, z
<1>2. [cell EXCEPT !.parent = p] = [address |-> x, scope |-> y, parent |-> p]
  BY <1>1
<1> QED BY <1>2 DEF x, y

\* InitNonpersistent gives the cells of a region their parent, and changes nothing else.
LEMMA WithParentIs ==
  ASSUME NEW region, WellRegion(region)
  PROVE  LET t == WithParent(region)
         IN  /\ WellRegion(t) /\ Parented(t)
             /\ t.id = region.id /\ t.parent = region.parent
             /\ t.cityId = region.cityId /\ t.shape = region.shape
             /\ SameCells(t.cells, region.cells, DataSize(region.shape))
<1> DEFINE n == DataSize(region.shape)
           inside == {GetCell(region.shape, place) : place \in ToSet(Foreach(region.shape))}
           New(k) == IF k \in inside THEN [region.cells[k] EXCEPT !.parent = RegionScope(region.id)]
                     ELSE region.cells[k]
           cells == [k \in 1 .. n |-> New(k)]
           t == WithParent(region)
<1>1. /\ WellShape(region.shape)
      /\ inside = {GetCell(region.shape, place) : place \in Places(region.shape)}
  BY ForeachIs DEF WellRegion, WellShape
<1>2. DOMAIN region.cells = 1 .. n /\ \A k \in 1 .. n : WellCell(region.cells[k])
  BY DEF WellRegion
<1>3. /\ t = [id |-> region.id, parent |-> region.parent, cityId |-> region.cityId,
              shape |-> region.shape, cells |-> cells]
  <2>1. t = [region EXCEPT !.cells = cells]
    BY <1>2 DEF WithParent
  <2> HIDE DEF t, cells
  <2> QED BY <2>1 DEF WellRegion
<1>4. \A k \in 1 .. n :
        /\ New(k) = [address |-> region.cells[k].address, scope |-> region.cells[k].scope,
                     parent |-> IF k \in inside THEN RegionScope(region.id)
                                ELSE region.cells[k].parent]
        /\ region.cells[k].address \in Int
  <2> HIDE DEF inside
  <2> TAKE k \in 1 .. n
  <2>1. WellCell(region.cells[k])
    BY <1>2
  <2>2. region.cells[k] = [address |-> region.cells[k].address, scope |-> region.cells[k].scope,
                           parent |-> region.cells[k].parent]
        /\ region.cells[k].address \in Int
    BY <2>1 DEF WellCell
  <2>3. CASE k \in inside
    BY <2>1, <2>2, <2>3, CellBelow
  <2>4. CASE k \notin inside
    BY <2>2, <2>4
  <2> QED BY <2>3, <2>4
<1>5. \A k \in 1 .. n : /\ WellCell(New(k))
                        /\ New(k).address = region.cells[k].address
                        /\ New(k).scope = region.cells[k].scope
                        /\ k \in inside => New(k).parent = RegionScope(region.id)
  <2> HIDE DEF New, inside
  <2> QED BY <1>4 DEF WellCell
<1> HIDE DEF New, t
<1>6. cells = [k \in 1 .. n |-> cells[k]] /\ \A k \in 1 .. n : cells[k] = New(k)
  OBVIOUS
<1> HIDE DEF cells
<1>7. /\ t.id = region.id /\ t.parent = region.parent
      /\ t.cityId = region.cityId /\ t.shape = region.shape /\ t.cells = cells
  BY <1>3
<1>8. WellRegion(t)
  BY <1>3, <1>5, <1>6, <1>7 DEF WellRegion
<1>9. Parented(t)
  <2>1. ASSUME NEW place \in Places(region.shape)
        PROVE  cells[GetCell(region.shape, place)].parent = RegionScope(region.id)
    <3>1. GetCell(region.shape, place) \in inside /\ GetCell(region.shape, place) \in 1 .. n
      BY <1>1, ElementInShape
    <3> QED BY <1>5, <1>6, <3>1
  <2> QED BY <1>7, <2>1 DEF Parented, CellAt
<1>10. SameCells(t.cells, region.cells, n)
  BY <1>5, <1>6, <1>7 DEF SameCells
<1> QED BY <1>7, <1>8, <1>9, <1>10 DEF t

\* A region that was made or read: its cells lie one after the other.
LEMMA NewRegionIs ==
  ASSUME NEW id, NEW n \in Int, NEW base \in Int
  PROVE  LET region == NewRegion(id, n, base)
         IN  /\ WellRegion(region) /\ Parented(region)
             /\ region.id = id /\ region.parent = NoScope /\ region.cityId = Null
             /\ region.shape = Hexagon(n)
             /\ \A k \in 1 .. DataSize(Hexagon(n)) :
                   /\ region.cells[k].address = base + k - 1
                   /\ region.cells[k].scope = CellScope(base + k - 1)
<1> DEFINE shape == Hexagon(n)
           L == DataSize(shape)
           cells == [k \in 1 .. L |-> NewCell(base + k - 1)]
           blank == [id |-> id, parent |-> NoScope, cityId |-> Null, shape |-> shape,
                     cells |-> cells]
           region == NewRegion(id, n, base)
<1>1. WellHexagon(shape)
  BY HexagonsAreWell
<1>2. region = WithParent(blank)
  BY DEF NewRegion
<1>3. L \in Nat
  BY <1>1, SizesOfShape DEF WellShape
<1> HIDE DEF shape, region, L
<1>4. \A k \in 1 .. L : /\ WellCell(NewCell(base + k - 1))
                        /\ NewCell(base + k - 1).address = base + k - 1
                        /\ NewCell(base + k - 1).scope = CellScope(base + k - 1)
  BY <1>3 DEF NewCell, WellCell
<1>5. \A k \in 1 .. L : cells[k] = NewCell(base + k - 1)
  OBVIOUS
<1>6. cells = [k \in 1 .. L |-> cells[k]]
  OBVIOUS
<1> HIDE DEF cells
<1>7. /\ blank.id = id /\ blank.parent = NoScope /\ blank.cityId = Null
      /\ blank.shape = shape /\ blank.cells = cells
  OBVIOUS
<1>8. WellRegion(blank)
  BY <1>1, <1>4, <1>5, <1>6 DEF WellRegion, L
<1> HIDE DEF blank
<1>9. /\ WellRegion(region) /\ Parented(region)
      /\ region.id = id /\ region.parent = NoScope /\ region.cityId = Null
      /\ region.shape = shape /\ SameCells(region.cells, cells, L)
  BY <1>2, <1>7, <1>8, WithParentIs DEF L
<1>10. \A k \in 1 .. L : /\ region.cells[k].address = base + k - 1
                         /\ region.cells[k].scope = CellScope(base + k - 1)
  BY <1>4, <1>5, <1>9 DEF SameCells
<1> QED BY <1>9, <1>10 DEF region, shape, L

\* A region but for its parent and its city.
SameRegion(t, region) ==
    /\ WellRegion(t) /\ t.id = region.id /\ t.shape = region.shape /\ t.cells = region.cells

\* A region that is given a parent.
LEMMA RegionBelow ==
  ASSUME NEW region, WellRegion(region), NEW p
  PROVE  LET t == [region EXCEPT !.parent = p]
         IN  SameRegion(t, region) /\ t.parent = p /\ t.cityId = region.cityId
<1> DEFINE a == region.id
           b == region.parent
           c == region.cityId
           d == region.shape
           e == region.cells
           t == [region EXCEPT !.parent = p]
<1>1. region = [id |-> a, parent |-> b, cityId |-> c, shape |-> d, cells |-> e]
  BY DEF WellRegion
<1> HIDE DEF a, b, c, d, e
<1>2. t = [id |-> a, parent |-> p, cityId |-> c, shape |-> d, cells |-> e]
  BY <1>1
<1> HIDE DEF t
<1>3. t.id = a /\ t.parent = p /\ t.cityId = c /\ t.shape = d /\ t.cells = e
  BY <1>2
<1>4. region.id = a /\ region.cityId = c /\ region.shape = d /\ region.cells = e
  BY DEF a, c, d, e
<1>5. WellRegion(t)
  BY <1>2, <1>3, <1>4 DEF WellRegion
<1> QED BY <1>3, <1>4, <1>5 DEF SameRegion, t

\* Cells keep their parents when the region is given one.
LEMMA ParentedBelow ==
  ASSUME NEW t, NEW region, SameRegion(t, region), Parented(region)
  PROVE  Parented(t)
  BY DEF Parented, SameRegion, CellAt

\* The regions of a plane are told apart by their ids.
IdsDiffer(plane) ==
    \A i, j \in 1 .. DataSize(plane.shape) : plane.regions[i].id = plane.regions[j].id => i = j

\* Each element of a plane is that of a place of its shape.
LEMMA ElementsInside ==
  ASSUME NEW shape, WellRhombus(shape)
  PROVE  /\ {GetCell(shape, place) : place \in Places(shape)} = 1 .. DataSize(shape)
         /\ WellShape(shape) /\ ToSet(Foreach(shape)) = Places(shape)
<1>1. WellShape(shape)
  BY DEF WellShape
<1>2. ToSet(Foreach(shape)) = Places(shape)
  BY <1>1, ForeachIs
<1>3. \A place \in Places(shape) : GetCell(shape, place) \in 1 .. DataSize(shape)
  BY <1>1, ElementInShape
<1>4. \A i \in 1 .. DataSize(shape) : \E place \in Places(shape) : GetCell(shape, place) = i
  <2> TAKE i \in 1 .. DataSize(shape)
  <2>1. PICK place : InBox(shape, place) /\ GetCell(shape, place) = i
    BY <1>1, PlaceOfElement
  <2> QED BY <2>1, RhombusIsFull
<1> QED BY <1>1, <1>2, <1>3, <1>4

\* InitNonpersistent gives the regions of a plane their parent, and an index that is exact.
LEMMA WithIndexIs ==
  ASSUME NEW plane, WellLaid(plane), IdsDiffer(plane)
  PROVE  LET t == WithIndex(plane)
         IN  /\ WellLaid(t) /\ Indexed(t)
             /\ t.id = plane.id /\ t.parent = plane.parent /\ t.shape = plane.shape
             /\ t.externalRadius = plane.externalRadius
             /\ \A i \in 1 .. DataSize(plane.shape) :
                   /\ SameRegion(t.regions[i], plane.regions[i])
                   /\ t.regions[i].parent = PlaneScope(plane.id)
                   /\ t.regions[i].cityId = plane.regions[i].cityId
<1> DEFINE n == DataSize(plane.shape)
           inside == {GetCell(plane.shape, place) : place \in PlacesOf(plane)}
           New(i) == [plane.regions[i] EXCEPT !.parent = PlaneScope(plane.id)]
           Id(i) == plane.regions[i].id
           regions == [i \in 1 .. n |-> New(i)]
           index == [id \in {Id(i) : i \in 1 .. n} |-> CHOOSE i \in 1 .. n : Id(i) = id]
           t == WithIndex(plane)
<1>1. inside = 1 .. n
  BY ElementsInside DEF WellLaid, PlacesOf
<1>2. DOMAIN plane.regions = 1 .. n /\ \A i \in 1 .. n : WellRegion(plane.regions[i])
  BY DEF WellLaid
<1>3. t = [plane EXCEPT !.regions = regions, !.index = index]
  <2>1. [i \in DOMAIN plane.regions |->
            IF i \in inside THEN [plane.regions[i] EXCEPT !.parent = PlaneScope(plane.id)]
            ELSE plane.regions[i]] = regions
    <3> HIDE DEF inside
    <3> QED BY <1>1, <1>2
  <2>2. [id \in {plane.regions[i].id : i \in inside} |->
            CHOOSE i \in inside : plane.regions[i].id = id] = index
    <3> HIDE DEF inside
    <3> QED BY <1>1
  <2> HIDE DEF regions, index
  <2> QED BY <2>1, <2>2 DEF WithIndex
<1>4. \A i \in 1 .. n : /\ regions[i] = New(i)
                        /\ SameRegion(New(i), plane.regions[i])
                        /\ New(i).parent = PlaneScope(plane.id)
                        /\ New(i).cityId = plane.regions[i].cityId
  BY <1>2, RegionBelow
<1>5. DOMAIN index = {Id(i) : i \in 1 .. n} /\ \A i \in 1 .. n : index[Id(i)] = i
  <2>1. \A i, j \in 1 .. n : Id(i) = Id(j) => i = j
    BY DEF IdsDiffer
  <2> HIDE DEF Id
  <2>2. ASSUME NEW i \in 1 .. n PROVE index[Id(i)] = i
    <3>1. index[Id(i)] = CHOOSE j \in 1 .. n : Id(j) = Id(i)
      OBVIOUS
    <3> HIDE DEF index
    <3> QED BY <2>1, <3>1
  <2> QED BY <2>2
<1>6. regions = [i \in 1 .. n |-> regions[i]]
  OBVIOUS
<1> HIDE DEF regions, index, inside, t, New
<1>7. t = [id |-> plane.id, parent |-> plane.parent, shape |-> plane.shape,
           externalRadius |-> plane.externalRadius, regions |-> regions, index |-> index]
  BY <1>3 DEF WellLaid
<1>8. /\ t.id = plane.id /\ t.parent = plane.parent /\ t.shape = plane.shape
      /\ t.externalRadius = plane.externalRadius /\ t.regions = regions /\ t.index = index
  BY <1>7
<1>9. WellLaid(t)
  BY <1>4, <1>6, <1>7, <1>8 DEF WellLaid, SameRegion
<1>10. Indexed(t)
  <2>1. \A i \in 1 .. n : regions[i].id = Id(i)
    BY <1>4 DEF SameRegion
  <2> HIDE DEF Id
  <2>2. DOMAIN index = {regions[i].id : i \in 1 .. n}
    BY <1>5, <2>1
  <2> QED BY <1>5, <1>8, <2>1, <2>2 DEF Indexed
<1> QED BY <1>4, <1>8, <1>9, <1>10 DEF t

-----------------------------------------------------------------------------
(* Memory.                                                                 *)

\* The length of a list of n elements.
LEMMA LenOfList ==
  ASSUME NEW n \in Nat, NEW f, f = [i \in 1 .. n |-> f[i]]
  PROVE  Len(f) = n
<1> DEFINE V == {f[i] : i \in 1 .. n}
<1>1. \A i \in 1 .. n : f[i] \in V
  OBVIOUS
<1> HIDE DEF V
<1>2. f \in [1 .. n -> V]
  BY <1>1
<1>3. f \in Seq(V)
  BY <1>2, SeqDef
<1> QED BY <1>2, <1>3, LenProperties

\* Offsets are sums of sizes.
LEMMA OffsetsGrow ==
  ASSUME NEW regions, NEW n \in Nat, regions = [i \in 1 .. n |-> regions[i]],
         \A i \in 1 .. n : DataSize(regions[i].shape) \in Nat
  PROVE  /\ Offsets(regions) \in [0 .. n -> Nat] /\ Offsets(regions)[0] = 0
         /\ \A i \in 1 .. n :
               Offsets(regions)[i] = Offsets(regions)[i - 1] + DataSize(regions[i].shape)
         /\ \A i, j \in 0 .. n : i <= j => Offsets(regions)[i] <= Offsets(regions)[j]
<1> DEFINE size == [i \in 1 .. n |-> DataSize(regions[i].shape)]
           Solves(g) == g = [i \in 0 .. n |->
                                IF i = 0 THEN 0 ELSE g[i - 1] + DataSize(regions[i].shape)]
           offset == CHOOSE g : Solves(g)
           step == [x \in (1 .. n) \X Nat |-> x[2] + size[x[1]]]
<1>1. Len(regions) = n
  BY LenOfList
<1>2. Offsets(regions) = offset
  BY <1>1 DEF Offsets
<1>3. \A i \in 1 .. n : /\ size[i] = DataSize(regions[i].shape) /\ size[i] \in Nat
                        /\ i \in 0 .. n /\ i - 1 \in 0 .. n /\ i # 0
  OBVIOUS
<1>4. \A i \in 1 .. n, t \in Nat : step[<<i, t>>] = t + size[i]
  OBVIOUS
<1>5. ASSUME NEW g, Solves(g)
      PROVE  g[0] = 0 /\ \A i \in 1 .. n : g[i] = g[i - 1] + size[i]
  <2>1. 0 \in 0 .. n
    OBVIOUS
  <2>2. g[0] = 0
    BY <1>5, <2>1
  <2>3. \A i \in 1 .. n : g[i] = g[i - 1] + size[i]
    BY <1>3, <1>5
  <2> QED BY <2>2, <2>3
<1>6. ASSUME NEW g \in [0 .. n -> Nat], g[0] = 0, \A i \in 1 .. n : g[i] = g[i - 1] + size[i]
      PROVE  Solves(g)
  <2>1. \A i \in 0 .. n : i = 0 \/ i \in 1 .. n
    OBVIOUS
  <2> QED BY <1>3, <1>6, <2>1
<1> HIDE DEF size, step
<1>7. Stays(Nat, 0, n, step)
  BY <1>3, <1>4 DEF Stays
<1>8. PICK f : Computes(f, Nat, 0, n, step)
  BY <1>7, RecursionExists
<1>9. f \in [0 .. n -> Nat] /\ f[0] = 0 /\ \A i \in 1 .. n : f[i] = f[i - 1] + size[i]
  <2>1. f \in [0 .. n -> Nat] /\ f[0] = 0
    BY <1>8 DEF Computes
  <2> QED BY <1>3, <1>4, <1>8, <2>1 DEF Computes
<1>10. Solves(offset)
  <2>1. Solves(f)
    BY <1>6, <1>9
  <2> HIDE DEF Solves
  <2> QED BY <2>1
<1> HIDE DEF offset
<1>11. offset[0] = 0 /\ \A i \in 1 .. n : offset[i] = offset[i - 1] + size[i]
  BY <1>5, <1>10
<1>12. \A i \in 0 .. n : offset[i] \in Nat
  <2> DEFINE G == {i \in 0 .. n : offset[i] \in Nat}
  <2>1. 0 \in G
    BY <1>11
  <2>2. \A i \in 1 .. n : i - 1 \in G => i \in G
    BY <1>3, <1>11
  <2> HIDE DEF G
  <2>3. 0 .. n \subseteq G
    BY <2>1, <2>2, BoundedInduction
  <2> QED BY <2>3 DEF G
<1>13. offset \in [0 .. n -> Nat]
  <2>1. DOMAIN offset = 0 .. n /\ offset = [i \in 0 .. n |-> offset[i]]
    BY <1>10
  <2> QED BY <1>12, <2>1
<1> HIDE DEF Solves
<1>14. \A i, j \in 0 .. n : i <= j => offset[i] <= offset[j]
  <2> DEFINE G == {j \in 0 .. n : \A i \in 0 .. n : i <= j => offset[i] <= offset[j]}
  <2>1. 0 \in G
    <3>1. \A i \in 0 .. n : i <= 0 => i = 0
      OBVIOUS
    <3> QED BY <1>12, <3>1
  <2>2. ASSUME NEW j \in 1 .. n, j - 1 \in G PROVE j \in G
    <3>1. \A i \in 0 .. n : i <= j - 1 => offset[i] <= offset[j - 1]
      BY <2>2
    <3>2. offset[j - 1] <= offset[j]
      BY <1>3, <1>11, <1>12
    <3>3. \A i \in 0 .. n : i <= j => i <= j - 1 \/ i = j
      OBVIOUS
    <3> QED BY <1>3, <1>12, <3>1, <3>2, <3>3
  <2> HIDE DEF G
  <2>3. 0 .. n \subseteq G
    BY <2>1, <2>2, BoundedInduction
  <2> QED BY <2>3 DEF G
<1> QED BY <1>2, <1>3, <1>11, <1>13, <1>14

\* Each of n regions begins at an offset where the one before it ends.
Offsetting(o, regions, n) ==
    /\ o[0] = 0
    /\ \A i \in 1 .. n : /\ DataSize(regions[i].shape) \in Nat
                         /\ o[i] = o[i - 1] + DataSize(regions[i].shape)

\* Nothing else is: what begins with zero and adds the sizes is the offsets.
LEMMA OffsetsAre ==
  ASSUME NEW regions, NEW n \in Nat, regions = [i \in 1 .. n |-> regions[i]],
         NEW o, Offsetting(o, regions, n)
  PROVE  \A i \in 0 .. n : Offsets(regions)[i] = o[i]
<1> DEFINE G == {i \in 0 .. n : Offsets(regions)[i] = o[i]}
<1>1. /\ Offsets(regions)[0] = 0
      /\ \A i \in 1 .. n :
            Offsets(regions)[i] = Offsets(regions)[i - 1] + DataSize(regions[i].shape)
  BY OffsetsGrow DEF Offsetting
<1>2. 0 \in G
  BY <1>1 DEF Offsetting
<1>3. \A i \in 1 .. n : i - 1 \in G => i \in G
  BY <1>1 DEF Offsetting
<1> HIDE DEF G
<1>4. 0 .. n \subseteq G
  BY <1>2, <1>3, BoundedInduction
<1> QED BY <1>4 DEF G

\* The sizes of a plane and of its regions.
LEMMA RegionSizes ==
  ASSUME NEW plane, WellLaid(plane)
  PROVE  /\ DataSize(plane.shape) \in Nat
         /\ plane.regions = [i \in 1 .. DataSize(plane.shape) |-> plane.regions[i]]
         /\ Len(plane.regions) = DataSize(plane.shape)
         /\ DOMAIN plane.regions = 1 .. DataSize(plane.shape)
         /\ \A i \in 1 .. DataSize(plane.shape) :
               /\ WellShape(plane.regions[i].shape)
               /\ DataSize(plane.regions[i].shape) \in Nat
               /\ DOMAIN plane.regions[i].cells = 1 .. DataSize(plane.regions[i].shape)
<1>1. DataSize(plane.shape) \in Nat
  BY SizesOfShape DEF WellLaid, WellShape
<1>2. plane.regions = [i \in 1 .. DataSize(plane.shape) |-> plane.regions[i]]
  BY DEF WellLaid
<1>3. Len(plane.regions) = DataSize(plane.shape)
  BY <1>1, <1>2, LenOfList
<1>4. \A i \in 1 .. DataSize(plane.shape) :
               /\ WellShape(plane.regions[i].shape)
               /\ DataSize(plane.regions[i].shape) \in Nat
               /\ DOMAIN plane.regions[i].cells = 1 .. DataSize(plane.regions[i].shape)
  <2> TAKE i \in 1 .. DataSize(plane.shape)
  <2>1. WellRegion(plane.regions[i])
    BY DEF WellLaid
  <2>2. WellShape(plane.regions[i].shape)
    BY <2>1 DEF WellRegion, WellShape
  <2> QED BY <2>1, <2>2, SizesOfShape DEF WellRegion
<1> QED BY <1>1, <1>2, <1>3, <1>4

\* A plane lies in memory from base on, region after region.
LaidFrom(plane, base) ==
    \A i \in 1 .. DataSize(plane.shape) : \A k \in 1 .. DataSize(plane.regions[i].shape) :
        plane.regions[i].cells[k].address = base + Offsets(plane.regions)[i - 1] + k - 1

\* No two cells of a plane have one address.
AddressesDiffer(plane) ==
    \A i, j \in 1 .. DataSize(plane.shape) :
        \A k \in 1 .. DataSize(plane.regions[i].shape),
           l \in 1 .. DataSize(plane.regions[j].shape) :
            plane.regions[i].cells[k].address = plane.regions[j].cells[l].address =>
                i = j /\ k = l

\* All cells of a plane have addresses of D.
AddressesWithin(plane, D) ==
    \A i \in 1 .. DataSize(plane.shape) : \A k \in 1 .. DataSize(plane.regions[i].shape) :
        plane.regions[i].cells[k].address \in D

\* Cells that are laid out one after the other have addresses of their own.
LEMMA LaidApart ==
  ASSUME NEW plane, WellLaid(plane), NEW base \in Int, LaidFrom(plane, base)
  PROVE  /\ PlaneSize(plane) \in Nat
         /\ AddressesDiffer(plane) /\ AddressesWithin(plane, base .. base + PlaneSize(plane) - 1)
<1> DEFINE n == DataSize(plane.shape)
           o == Offsets(plane.regions)
           Size(i) == DataSize(plane.regions[i].shape)
           Address(i, k) == plane.regions[i].cells[k].address
<1>1. /\ n \in Nat /\ plane.regions = [i \in 1 .. n |-> plane.regions[i]]
      /\ Len(plane.regions) = n /\ \A i \in 1 .. n : Size(i) \in Nat
  BY RegionSizes
<1>2. /\ o \in [0 .. n -> Nat] /\ \A i \in 1 .. n : o[i] = o[i - 1] + Size(i)
      /\ \A i, j \in 0 .. n : i <= j => o[i] <= o[j]
  BY <1>1, OffsetsGrow
<1>3. PlaneSize(plane) = o[n]
  BY <1>1 DEF PlaneSize
<1>4. \A i \in 1 .. n : \A k \in 1 .. Size(i) : Address(i, k) = base + o[i - 1] + k - 1
  BY DEF LaidFrom
<1> HIDE DEF o, Size, Address, n
<1>5. \A i \in 1 .. n : i \in 0 .. n /\ i - 1 \in 0 .. n /\ o[i - 1] \in Nat /\ o[i] \in Nat
  BY <1>1, <1>2
<1>6. \A i \in 1 .. n : \A k \in 1 .. Size(i) :
          /\ Address(i, k) \in Int /\ Address(i, k) >= base + o[i - 1]
          /\ Address(i, k) < base + o[i]
  BY SMTT(30), <1>1, <1>2, <1>4, <1>5
<1>7. \A i, j \in 1 .. n : i < j => o[i] <= o[j - 1]
  <2> SUFFICES ASSUME NEW i \in 1 .. n, NEW j \in 1 .. n, i < j PROVE o[i] <= o[j - 1]
    OBVIOUS
  <2>1. i \in 0 .. n /\ j - 1 \in 0 .. n /\ i <= j - 1
    BY <1>1
  <2> QED BY <1>2, <2>1
<1>8. ASSUME NEW i \in 1 .. n, NEW j \in 1 .. n, NEW k \in 1 .. Size(i), NEW l \in 1 .. Size(j),
             Address(i, k) = Address(j, l)
      PROVE  i = j /\ k = l
  <2>0. /\ \A x \in 1 .. n : x \in Int /\ o[x] \in Nat /\ o[x - 1] \in Nat
        /\ Address(i, k) \in Int /\ Address(j, l) \in Int
        /\ Address(i, k) >= base + o[i - 1] /\ Address(i, k) < base + o[i]
        /\ Address(j, l) >= base + o[j - 1] /\ Address(j, l) < base + o[j]
    BY SMTT(30), <1>1, <1>5, <1>6
  <2>1. i = j
    <3>1. ~(i < j)
      <4> SUFFICES ASSUME i < j PROVE FALSE
        OBVIOUS
      <4>1. o[i] <= o[j - 1]
        BY <1>7
      <4> QED BY <1>8, <2>0, <4>1
    <3>2. ~(j < i)
      <4> SUFFICES ASSUME j < i PROVE FALSE
        OBVIOUS
      <4>1. o[j] <= o[i - 1]
        BY <1>7
      <4> QED BY <1>8, <2>0, <4>1
    <3> QED BY <2>0, <3>1, <3>2
  <2>2. base + o[i - 1] + k - 1 = base + o[i - 1] + l - 1
    BY <1>4, <1>8, <2>1
  <2> QED BY SMTT(30), <1>1, <1>5, <2>1, <2>2
<1>9. n \in 0 .. n /\ o[n] \in Nat
  BY <1>1, <1>2
<1>10. \A i \in 1 .. n : \A k \in 1 .. Size(i) : Address(i, k) \in base .. base + o[n] - 1
  <2> SUFFICES ASSUME NEW i \in 1 .. n, NEW k \in 1 .. Size(i)
               PROVE  Address(i, k) \in base .. base + o[n] - 1
    OBVIOUS
  <2>1. o[i] <= o[n] /\ o[i - 1] \in Nat /\ o[i] \in Nat
    BY <1>1, <1>2, <1>5, <1>9
  <2> QED BY <1>6, <1>9, <2>1
<1>11. AddressesDiffer(plane)
  BY <1>8 DEF AddressesDiffer, Address, Size, n
<1>12. AddressesWithin(plane, base .. base + o[n] - 1)
  BY <1>10 DEF AddressesWithin, Address, Size, n
<1> QED BY <1>3, <1>9, <1>11, <1>12

-----------------------------------------------------------------------------
(* Planes that are made.                                                   *)

\* A cell that was made has the scope of its address.
OwnScopes(plane) ==
    \A i \in 1 .. DataSize(plane.shape) : \A k \in 1 .. DataSize(plane.regions[i].shape) :
        plane.regions[i].cells[k].scope = CellScope(plane.regions[i].cells[k].address)

\* The regions of a plane are numbered from n on.
NumberedFrom(plane, n) ==
    \A i \in 1 .. DataSize(plane.shape) :
        \E m \in n .. n + DataSize(plane.shape) - 1 : plane.regions[i].id = <<"rgn", m>>

\* Each element has its turn in a visit.
LEMMA TurnsDiffer ==
  ASSUME NEW shape, WellRhombus(shape)
  PROVE  LET visits == Foreach(shape)
             Turn(i) == CHOOSE n \in DOMAIN visits : GetCell(shape, visits[n]) = i
         IN  /\ \A i \in 1 .. DataSize(shape) : Turn(i) \in 1 .. DataSize(shape)
             /\ \A i, j \in 1 .. DataSize(shape) : Turn(i) = Turn(j) => i = j
<1> DEFINE visits == Foreach(shape)
           L == DataSize(shape)
           Turn(i) == CHOOSE n \in DOMAIN visits : GetCell(shape, visits[n]) = i
<1>1. /\ {GetCell(shape, place) : place \in ToSet(visits)} = 1 .. L
      /\ WellShape(shape)
  BY ElementsInside
<1>2. visits \in Seq(Int \X Int) /\ Len(visits) <= L /\ L \in Nat
  BY <1>1, ForeachIs, SizesOfShape
<1>3. DOMAIN visits = 1 .. Len(visits) /\ Len(visits) \in Nat
  BY <1>2, LenProperties
<1> HIDE DEF visits, L
<1>4. \A i \in 1 .. L : Turn(i) \in DOMAIN visits /\ GetCell(shape, visits[Turn(i)]) = i
  <2> TAKE i \in 1 .. L
  <2>1. \E n \in DOMAIN visits : GetCell(shape, visits[n]) = i
    BY <1>1 DEF ToSet
  <2> QED BY <2>1
<1> HIDE DEF Turn
<1>5. \A i \in 1 .. L : Turn(i) \in 1 .. L
  BY <1>2, <1>3, <1>4
<1>6. \A i, j \in 1 .. L : Turn(i) = Turn(j) => i = j
  BY <1>4
<1> QED BY <1>5, <1>6 DEF Turn, visits, L

\* What AddPlane makes: regions with numbers of their own, laid out one after the other.
LEMMA NewPlaneIs ==
  ASSUME NEW id, NEW corners \in (Int \X Int) \X (Int \X Int), NEW radius \in Nat \ {0},
         NEW external \in Nat \ {0}, NEW nextId \in Nat, NEW base \in Int
  PROVE  LET t == NewPlane(id, corners, radius, external, nextId, base)
         IN  /\ WellLaid(t) /\ Indexed(t) /\ t.id = id
             /\ IdsDiffer(t) /\ NumberedFrom(t, nextId)
             /\ LaidFrom(t, base) /\ OwnScopes(t)
<1> DEFINE shape == Rhombus(Box(corners[1], corners[2]))
           visits == Foreach(shape)
           Turn(i) == CHOOSE n \in DOMAIN visits : GetCell(shape, visits[n]) = i
           hexagon == Hexagon(radius)
           size == DataSize(hexagon)
           L == DataSize(shape)
           From(i) == base + (i - 1) * size
           Id(i) == <<"rgn", nextId + Turn(i) - 1>>
           New(i) == NewRegion(Id(i), radius, From(i))
           regions == [i \in 1 .. L |-> New(i)]
           blank == [id |-> id, parent |-> NoScope, shape |-> shape,
                     externalRadius |-> external, regions |-> regions, index |-> <<>>]
           t == NewPlane(id, corners, radius, external, nextId, base)
<1>1. t = WithIndex(blank)
  BY DEF NewPlane
<1>2. WellRhombus(shape)
  BY BoxesAreWell
<1>3. WellHexagon(hexagon)
  BY HexagonsAreWell
<1>4. size \in Nat /\ L \in Nat
  BY <1>2, <1>3, SizesOfShape DEF WellShape
<1>5. /\ \A i \in 1 .. L : Turn(i) \in 1 .. L
      /\ \A i, j \in 1 .. L : Turn(i) = Turn(j) => i = j
  BY <1>2, TurnsDiffer
<1> HIDE DEF t, Turn, shape, hexagon, size, L
<1>6. \A i \in 1 .. L : From(i) \in Int
  BY <1>4
<1> HIDE DEF From
<1>7. \A i \in 1 .. L : /\ WellRegion(New(i)) /\ New(i).id = Id(i) /\ New(i).shape = hexagon
                        /\ \A k \in 1 .. size :
                              /\ New(i).cells[k].address = From(i) + k - 1
                              /\ New(i).cells[k].scope = CellScope(From(i) + k - 1)
  BY <1>6, NewRegionIs DEF hexagon, size
<1>8. /\ \A i \in 1 .. L : \E m \in nextId .. nextId + L - 1 : Id(i) = <<"rgn", m>>
      /\ \A i, j \in 1 .. L : Id(i) = Id(j) => i = j
  <2>1. \A i \in 1 .. L : nextId + Turn(i) - 1 \in nextId .. nextId + L - 1
    BY <1>4, <1>5
  <2>2. \A i, j \in 1 .. L : Id(i) = Id(j) => Turn(i) = Turn(j)
    BY <1>5
  <2> QED BY <1>5, <2>1, <2>2
<1> HIDE DEF Id, New
<1>9. regions = [i \in 1 .. L |-> regions[i]] /\ \A i \in 1 .. L : regions[i] = New(i)
  OBVIOUS
<1> HIDE DEF regions
<1>10. /\ blank.id = id /\ blank.parent = NoScope /\ blank.shape = shape
       /\ blank.externalRadius = external /\ blank.regions = regions /\ blank.index = <<>>
  OBVIOUS
<1>11. WellLaid(blank)
  BY <1>2, <1>7, <1>9, <1>10 DEF WellLaid, L
<1>12. IdsDiffer(blank)
  BY <1>7, <1>8, <1>9, <1>10 DEF IdsDiffer, L
<1> HIDE DEF blank
<1>13. /\ WellLaid(t) /\ Indexed(t) /\ t.id = id /\ t.shape = shape
       /\ \A i \in 1 .. L : SameRegion(t.regions[i], regions[i])
  BY <1>1, <1>10, <1>11, <1>12, WithIndexIs DEF L
<1>14. \A i \in 1 .. L :
          /\ t.regions[i].id = Id(i) /\ t.regions[i].shape = hexagon
          /\ \A k \in 1 .. size :
                /\ t.regions[i].cells[k].address = From(i) + k - 1
                /\ t.regions[i].cells[k].scope = CellScope(From(i) + k - 1)
  BY <1>7, <1>9, <1>13 DEF SameRegion
<1>15. IdsDiffer(t) /\ NumberedFrom(t, nextId)
  BY <1>8, <1>13, <1>14 DEF IdsDiffer, NumberedFrom, L
<1>16. OwnScopes(t)
  BY <1>13, <1>14 DEF OwnScopes, L, size
<1>17. LaidFrom(t, base)
  <2> DEFINE o == [i \in 0 .. L |-> i * size]
  <2>1. t.regions = [i \in 1 .. L |-> t.regions[i]]
        /\ \A i \in 1 .. L : DataSize(t.regions[i].shape) = size
    BY <1>13, <1>14, RegionSizes DEF L, size
  <2>2. o[0] = 0 /\ \A i \in 1 .. L : o[i] = o[i - 1] + size
    <3>1. \A i \in 1 .. L : i \in 0 .. L /\ i - 1 \in 0 .. L /\ i * size = (i - 1) * size + size
      BY <1>4
    <3> QED BY <1>4, <3>1
  <2>3. \A i \in 1 .. L : i - 1 \in 0 .. L /\ o[i - 1] = (i - 1) * size
    BY <1>4
  <2> HIDE DEF o
  <2>4. \A i \in 0 .. L : Offsets(t.regions)[i] = o[i]
    <3> DEFINE regs == t.regions
    <3>1. regs = [i \in 1 .. L |-> regs[i]] /\ \A i \in 1 .. L : DataSize(regs[i].shape) = size
      BY <2>1
    <3> HIDE DEF regs
    <3>2. Offsetting(o, regs, L)
      BY <1>4, <2>2, <3>1 DEF Offsetting
    <3>3. \A i \in 0 .. L : Offsets(regs)[i] = o[i]
      <4>1. L \in Nat /\ regs = [i \in 1 .. L |-> regs[i]]
        BY <1>4, <3>1
      <4> QED BY SMTT(30), <3>2, <4>1, OffsetsAre
    <3> QED BY <3>3 DEF regs
  <2>5. \A i \in 1 .. L : From(i) = base + Offsets(t.regions)[i - 1]
    BY <2>3, <2>4 DEF From
  <2> QED BY <1>13, <1>14, <2>1, <2>5 DEF LaidFrom, L
<1> QED BY <1>13, <1>15, <1>16, <1>17 DEF t

\* A plane but for its parent.
LEMMA PlaneBelow ==
  ASSUME NEW plane, WellLaid(plane), NEW p
  PROVE  LET t == [plane EXCEPT !.parent = p]
         IN  /\ WellLaid(t) /\ t.id = plane.id /\ t.parent = p /\ t.shape = plane.shape
             /\ t.externalRadius = plane.externalRadius /\ t.regions = plane.regions
             /\ t.index = plane.index
<1> DEFINE a == plane.id
           b == plane.parent
           c == plane.shape
           d == plane.externalRadius
           e == plane.regions
           f == plane.index
           t == [plane EXCEPT !.parent = p]
<1>1. plane = [id |-> a, parent |-> b, shape |-> c, externalRadius |-> d, regions |-> e,
               index |-> f]
  BY DEF WellLaid
<1> HIDE DEF a, b, c, d, e, f
<1>2. t = [id |-> a, parent |-> p, shape |-> c, externalRadius |-> d, regions |-> e,
           index |-> f]
  BY <1>1
<1> HIDE DEF t
<1>3. /\ t.id = a /\ t.parent = p /\ t.shape = c /\ t.externalRadius = d /\ t.regions = e
      /\ t.index = f
  BY <1>2
<1>4. /\ plane.id = a /\ plane.shape = c /\ plane.externalRadius = d /\ plane.regions = e
      /\ plane.index = f
  BY DEF a, c, d, e, f
<1>5. WellLaid(t)
  BY <1>2, <1>3, <1>4 DEF WellLaid
<1> QED BY <1>3, <1>4, <1>5 DEF t

-----------------------------------------------------------------------------
(* What is saved, and what is loaded from it.                              *)

\* A region as it is saved.
WellSavedRegion(proto) ==
    /\ proto = [id |-> proto.id, cityId |-> proto.cityId, shape |-> proto.shape,
                cells |-> proto.cells]
    /\ WellHexagon(proto.shape)
    /\ proto.cells = [k \in 1 .. DataSize(proto.shape) |-> proto.cells[k]]

\* A plane as it is saved.
WellSavedPlane(proto) ==
    /\ proto = [id |-> proto.id, externalRadius |-> proto.externalRadius,
                shape |-> proto.shape, regions |-> proto.regions]
    /\ WellRhombus(proto.shape)
    /\ proto.externalRadius \in Nat \ {0}
    /\ proto.regions = [i \in 1 .. DataSize(proto.shape) |-> proto.regions[i]]
    /\ \A i \in 1 .. DataSize(proto.shape) : WellSavedRegion(proto.regions[i])

\* A region is saved with its id, city, shape and scopes.
LEMMA SavedRegionIs ==
  ASSUME NEW region, WellRegion(region)
  PROVE  LET t == SaveRegion(region)
         IN  /\ WellSavedRegion(t) /\ t.id = region.id /\ t.cityId = region.cityId
             /\ t.shape = region.shape
             /\ \A k \in 1 .. DataSize(region.shape) : t.cells[k] = region.cells[k].scope
<1> DEFINE n == DataSize(region.shape)
           cells == [k \in 1 .. n |-> region.cells[k].scope]
           t == SaveRegion(region)
<1>1. DOMAIN region.cells = 1 .. n /\ WellHexagon(region.shape)
  BY DEF WellRegion
<1>2. t = [id |-> region.id, cityId |-> region.cityId, shape |-> region.shape, cells |-> cells]
  BY <1>1 DEF SaveRegion
<1>3. \A k \in 1 .. n : cells[k] = region.cells[k].scope
  OBVIOUS
<1>4. cells = [k \in 1 .. n |-> cells[k]]
  OBVIOUS
<1> HIDE DEF cells, t
<1>5. t.id = region.id /\ t.cityId = region.cityId /\ t.shape = region.shape /\ t.cells = cells
  BY <1>2
<1>6. WellSavedRegion(t)
  BY <1>1, <1>2, <1>4, <1>5 DEF WellSavedRegion
<1> QED BY <1>3, <1>5, <1>6 DEF t

\* A plane is saved with all its regions.
LEMMA SavedPlaneIs ==
  ASSUME NEW plane, WellLaid(plane)
  PROVE  LET t == SavePlane(plane)
         IN  /\ WellSavedPlane(t) /\ t.id = plane.id /\ t.shape = plane.shape
             /\ t.externalRadius = plane.externalRadius
             /\ \A i \in 1 .. DataSize(plane.shape) : t.regions[i] = SaveRegion(plane.regions[i])
<1> DEFINE n == DataSize(plane.shape)
           regions == [i \in 1 .. n |-> SaveRegion(plane.regions[i])]
           t == SavePlane(plane)
<1>1. /\ DOMAIN plane.regions = 1 .. n /\ WellRhombus(plane.shape)
      /\ plane.externalRadius \in Nat \ {0}
      /\ \A i \in 1 .. n : WellRegion(plane.regions[i])
  BY DEF WellLaid
<1>2. t = [id |-> plane.id, externalRadius |-> plane.externalRadius, shape |-> plane.shape,
           regions |-> regions]
  BY <1>1 DEF SavePlane
<1>3. \A i \in 1 .. n : regions[i] = SaveRegion(plane.regions[i]) /\ WellSavedRegion(regions[i])
  BY <1>1, SavedRegionIs
<1>4. regions = [i \in 1 .. n |-> regions[i]]
  OBVIOUS
<1> HIDE DEF regions, t
<1>5. /\ t.id = plane.id /\ t.externalRadius = plane.externalRadius /\ t.shape = plane.shape
      /\ t.regions = regions
  BY <1>2
<1>6. WellSavedPlane(t)
  BY <1>1, <1>2, <1>3, <1>4, <1>5 DEF WellSavedPlane
<1> QED BY <1>3, <1>5, <1>6 DEF t

\* The scope a cell has when it is loaded at an address.
LoadedScope(scope, scopes, address) == IF scope \in scopes THEN scope ELSE CellScope(address)

\* A region that is loaded has the scopes that were saved, below it.
LEMMA LoadedRegionIs ==
  ASSUME NEW proto, WellSavedRegion(proto), NEW scopes, NEW base \in Int
  PROVE  LET t == LoadRegion(proto, scopes, base)
         IN  /\ WellRegion(t) /\ Parented(t)
             /\ t.id = proto.id /\ t.cityId = proto.cityId /\ t.shape = proto.shape
             /\ \A k \in 1 .. DataSize(proto.shape) :
                   /\ t.cells[k].address = base + k - 1
                   /\ t.cells[k].scope = LoadedScope(proto.cells[k], scopes, base + k - 1)
<1> DEFINE n == DataSize(proto.shape)
           blank == NewRegion(proto.id, proto.shape.radius, base)
           New(k) == LoadCell(proto.cells[k], scopes, base + k - 1)
           cells == [k \in 1 .. n |-> New(k)]
           filled == [id |-> proto.id, parent |-> NoScope, cityId |-> proto.cityId,
                      shape |-> proto.shape, cells |-> cells]
           t == LoadRegion(proto, scopes, base)
<1>1. /\ WellHexagon(proto.shape) /\ Hexagon(proto.shape.radius) = proto.shape
      /\ proto.shape.radius \in Int /\ n \in Nat
  <2>1. WellHexagon(proto.shape)
    BY DEF WellSavedRegion
  <2>2. /\ proto.shape = [kind |-> "hexagon", radius |-> proto.shape.radius]
        /\ proto.shape.radius \in Int /\ proto.shape.radius >= 1
    BY <2>1 DEF WellHexagon
  <2>3. /\ Hexagon(proto.shape.radius) =
              [kind |-> "hexagon", radius |-> Hexagon(proto.shape.radius).radius]
        /\ Hexagon(proto.shape.radius).radius = proto.shape.radius
    BY <2>2, HexagonsAreWell DEF Hexagon
  <2>4. n \in Nat
    BY <2>1, SizesOfShape DEF WellShape
  <2> QED BY <2>1, <2>2, <2>3, <2>4
<1>2. DOMAIN proto.cells = 1 .. n
  BY DEF WellSavedRegion
<1>3. /\ WellRegion(blank) /\ blank.id = proto.id /\ blank.parent = NoScope
      /\ blank.shape = proto.shape
  BY <1>1, NewRegionIs
<1>4. DOMAIN blank.cells = 1 .. n
  BY <1>3 DEF WellRegion
<1>5. t = WithParent(filled)
  <2>1. [blank EXCEPT
            !.cityId = proto.cityId,
            !.cells = [i \in DOMAIN @ |->
                IF i \in DOMAIN proto.cells THEN LoadCell(proto.cells[i], scopes, base + i - 1)
                ELSE @[i]]] = [blank EXCEPT !.cityId = proto.cityId, !.cells = cells]
    <3> HIDE DEF blank
    <3> QED BY <1>2, <1>4
  <2>2. [blank EXCEPT !.cityId = proto.cityId, !.cells = cells] = filled
    <3> DEFINE x == blank.cityId
               y == blank.cells
               changed == [blank EXCEPT !.cityId = proto.cityId, !.cells = cells]
    <3>1. blank = [id |-> proto.id, parent |-> NoScope, cityId |-> x,
                   shape |-> proto.shape, cells |-> y]
      <4> HIDE DEF blank
      <4> QED BY <1>3 DEF WellRegion
    <3>2. changed = [blank EXCEPT !.cityId = proto.cityId, !.cells = cells]
      OBVIOUS
    <3> HIDE DEF x, y, blank, cells, changed
    <3>3. changed = filled
      BY <3>1, <3>2
    <3> QED BY <3>2, <3>3
  <2> HIDE DEF filled, cells
  <2> QED BY <2>1, <2>2 DEF LoadRegion
<1>6. \A k \in 1 .. n : base + k - 1 \in Int
  BY <1>1
<1>7. \A k \in 1 .. n :
        /\ WellCell(New(k)) /\ New(k).address = base + k - 1
        /\ New(k).scope = LoadedScope(proto.cells[k], scopes, base + k - 1)
  BY <1>6 DEF LoadCell, NewCell, WellCell, LoadedScope
<1> HIDE DEF t, New
<1>8. cells = [k \in 1 .. n |-> cells[k]] /\ \A k \in 1 .. n : cells[k] = New(k)
  OBVIOUS
<1> HIDE DEF cells
<1>9. /\ filled.id = proto.id /\ filled.parent = NoScope /\ filled.cityId = proto.cityId
      /\ filled.shape = proto.shape /\ filled.cells = cells
  OBVIOUS
<1>10. WellRegion(filled)
  BY <1>1, <1>7, <1>8, <1>9 DEF WellRegion
<1> HIDE DEF filled
<1>11. /\ WellRegion(t) /\ Parented(t) /\ t.id = proto.id /\ t.cityId = proto.cityId
       /\ t.shape = proto.shape /\ SameCells(t.cells, cells, n)
  BY <1>5, <1>9, <1>10, WithParentIs
<1>12. \A k \in 1 .. n :
          /\ t.cells[k].address = base + k - 1
          /\ t.cells[k].scope = LoadedScope(proto.cells[k], scopes, base + k - 1)
  BY <1>7, <1>8, <1>11 DEF SameCells
<1> QED BY <1>11, <1>12 DEF t

\* A region that was loaded, but for its addresses.
RegionFrom(region, proto, scopes) ==
    /\ region.id = proto.id /\ region.cityId = proto.cityId /\ region.shape = proto.shape
    /\ Parented(region)
    /\ \A k \in 1 .. DataSize(proto.shape) :
          region.cells[k].scope = LoadedScope(proto.cells[k], scopes, region.cells[k].address)

\* A plane that was loaded, but for its addresses.
PlaneFrom(plane, proto, scopes) ==
    /\ plane.id = proto.id /\ plane.shape = proto.shape
    /\ plane.externalRadius = proto.externalRadius /\ plane.parent = WorldScope
    /\ \A i \in 1 .. DataSize(proto.shape) :
          /\ plane.regions[i].parent = PlaneScope(proto.id)
          /\ RegionFrom(plane.regions[i], proto.regions[i], scopes)

\* The sizes of a plane that is saved.
LEMMA SavedSizes ==
  ASSUME NEW proto, WellSavedPlane(proto)
  PROVE  /\ DataSize(proto.shape) \in Nat /\ Len(proto.regions) = DataSize(proto.shape)
         /\ DOMAIN proto.regions = 1 .. DataSize(proto.shape)
         /\ proto.regions = [i \in 1 .. DataSize(proto.shape) |-> proto.regions[i]]
         /\ \A i \in 1 .. DataSize(proto.shape) :
               /\ WellShape(proto.regions[i].shape)
               /\ DataSize(proto.regions[i].shape) \in Nat
<1>1. DataSize(proto.shape) \in Nat
  BY SizesOfShape DEF WellSavedPlane, WellShape
<1>2. proto.regions = [i \in 1 .. DataSize(proto.shape) |-> proto.regions[i]]
  BY DEF WellSavedPlane
<1>3. Len(proto.regions) = DataSize(proto.shape)
  BY <1>1, <1>2, LenOfList
<1>4. \A i \in 1 .. DataSize(proto.shape) :
               /\ WellShape(proto.regions[i].shape)
               /\ DataSize(proto.regions[i].shape) \in Nat
  <2> TAKE i \in 1 .. DataSize(proto.shape)
  <2>1. WellShape(proto.regions[i].shape)
    BY DEF WellSavedPlane, WellSavedRegion, WellShape
  <2> QED BY <2>1, SizesOfShape
<1> QED BY <1>1, <1>2, <1>3, <1>4

\* A plane that is loaded has the regions that were saved, laid out from its base.
LEMMA LoadedPlaneIs ==
  ASSUME NEW proto, WellSavedPlane(proto), IdsDiffer(proto), NEW scopes, NEW base \in Int
  PROVE  LET t == LoadPlane(proto, scopes, base)
         IN  /\ WellLaid(t) /\ Indexed(t) /\ PlaneFrom(t, proto, scopes)
             /\ LaidFrom(t, base) /\ PlaneSize(t) = PlaneSize(proto)
<1> DEFINE n == DataSize(proto.shape)
           o == Offsets(proto.regions)
           From(i) == base + o[i - 1]
           New(i) == LoadRegion(proto.regions[i], scopes, From(i))
           regions == [i \in 1 .. n |-> New(i)]
           blank == [id |-> proto.id, parent |-> NoScope, shape |-> proto.shape,
                     externalRadius |-> proto.externalRadius, regions |-> regions,
                     index |-> <<>>]
           indexed == WithIndex(blank)
           t == LoadPlane(proto, scopes, base)
<1>1. /\ n \in Nat /\ Len(proto.regions) = n /\ DOMAIN proto.regions = 1 .. n
      /\ proto.regions = [i \in 1 .. n |-> proto.regions[i]]
      /\ \A i \in 1 .. n : WellShape(proto.regions[i].shape)
                           /\ DataSize(proto.regions[i].shape) \in Nat
  BY SavedSizes
<1>2. \A i \in 1 .. n : WellSavedRegion(proto.regions[i])
  BY DEF WellSavedPlane
<1>3. /\ o \in [0 .. n -> Nat] /\ o[0] = 0
      /\ \A i \in 1 .. n : o[i] = o[i - 1] + DataSize(proto.regions[i].shape)
  BY <1>1, OffsetsGrow
<1>4. t = [indexed EXCEPT !.parent = WorldScope]
  <2>1. [i \in DOMAIN proto.regions |->
            LoadRegion(proto.regions[i], scopes, base + Offsets(proto.regions)[i - 1])] = regions
    BY <1>1
  <2> HIDE DEF regions, t
  <2>2. blank = [id |-> proto.id, parent |-> NoScope, shape |-> proto.shape,
                 externalRadius |-> proto.externalRadius,
                 regions |-> [i \in DOMAIN proto.regions |->
                     LoadRegion(proto.regions[i], scopes, base + Offsets(proto.regions)[i - 1])],
                 index |-> <<>>]
    BY <2>1
  <2> HIDE DEF blank
  <2> QED BY <2>2 DEF LoadPlane, t
<1> HIDE DEF t
<1>5. \A i \in 1 .. n : From(i) \in Int
  <2>1. \A i \in 1 .. n : i - 1 \in 0 .. n
    BY <1>1
  <2> HIDE DEF o
  <2> QED BY <1>3, <2>1
<1> HIDE DEF From
<1>6. \A i \in 1 .. n :
        /\ WellRegion(New(i)) /\ RegionFrom(New(i), proto.regions[i], scopes)
        /\ \A k \in 1 .. DataSize(proto.regions[i].shape) :
              New(i).cells[k].address = From(i) + k - 1
  <2> TAKE i \in 1 .. n
  <2> DEFINE r == New(i)
             p == proto.regions[i]
             b == From(i)
  <2>1. WellSavedRegion(p) /\ b \in Int
    BY <1>2, <1>5
  <2>2. r = LoadRegion(p, scopes, b)
    OBVIOUS
  <2> HIDE DEF r, p, b
  <2>3. /\ WellRegion(r) /\ Parented(r)
        /\ r.id = p.id /\ r.cityId = p.cityId /\ r.shape = p.shape
        /\ \A k \in 1 .. DataSize(p.shape) :
              /\ r.cells[k].address = b + k - 1
              /\ r.cells[k].scope = LoadedScope(p.cells[k], scopes, b + k - 1)
    BY <2>1, <2>2, LoadedRegionIs
  <2>4. RegionFrom(r, p, scopes)
    BY <2>3 DEF RegionFrom
  <2> QED BY <2>3, <2>4 DEF r, p, b
<1> HIDE DEF New
<1>7. regions = [i \in 1 .. n |-> regions[i]] /\ \A i \in 1 .. n : regions[i] = New(i)
  OBVIOUS
<1> HIDE DEF regions
<1>8. /\ blank.id = proto.id /\ blank.parent = NoScope /\ blank.shape = proto.shape
      /\ blank.externalRadius = proto.externalRadius /\ blank.regions = regions
      /\ blank.index = <<>>
  OBVIOUS
<1>9. WellLaid(blank)
  <2>1. WellRhombus(proto.shape) /\ proto.externalRadius \in Nat \ {0}
    BY DEF WellSavedPlane
  <2> QED BY <1>6, <1>7, <1>8, <2>1 DEF WellLaid
<1>10. IdsDiffer(blank)
  <2>1. \A i, j \in 1 .. n : proto.regions[i].id = proto.regions[j].id => i = j
    BY DEF IdsDiffer
  <2>2. \A i \in 1 .. n : regions[i].id = proto.regions[i].id
    BY <1>6, <1>7 DEF RegionFrom
  <2> QED BY <1>8, <2>1, <2>2 DEF IdsDiffer
<1> HIDE DEF blank
<1>11. /\ WellLaid(indexed) /\ Indexed(indexed) /\ indexed.id = proto.id
       /\ indexed.shape = proto.shape /\ indexed.externalRadius = proto.externalRadius
       /\ \A i \in 1 .. n : /\ SameRegion(indexed.regions[i], regions[i])
                            /\ indexed.regions[i].parent = PlaneScope(proto.id)
                            /\ indexed.regions[i].cityId = regions[i].cityId
  BY <1>8, <1>9, <1>10, WithIndexIs
<1> HIDE DEF indexed
<1>12. /\ WellLaid(t) /\ t.id = proto.id /\ t.shape = proto.shape /\ t.parent = WorldScope
       /\ t.externalRadius = proto.externalRadius /\ t.regions = indexed.regions
       /\ t.index = indexed.index
  BY <1>4, <1>11, PlaneBelow
<1>13. Indexed(t)
  BY <1>11, <1>12 DEF Indexed
<1>14. \A i \in 1 .. n :
          /\ RegionFrom(t.regions[i], proto.regions[i], scopes)
          /\ t.regions[i].parent = PlaneScope(proto.id)
          /\ \A k \in 1 .. DataSize(proto.regions[i].shape) :
                t.regions[i].cells[k].address = From(i) + k - 1
  <2> TAKE i \in 1 .. n
  <2> DEFINE r == t.regions[i]
             q == regions[i]
             p == proto.regions[i]
  <2>1. /\ SameRegion(r, q) /\ r.parent = PlaneScope(proto.id) /\ r.cityId = q.cityId
    BY <1>11, <1>12
  <2>2. /\ RegionFrom(q, p, scopes)
        /\ \A k \in 1 .. DataSize(p.shape) : q.cells[k].address = From(i) + k - 1
    BY <1>6, <1>7
  <2> HIDE DEF r, q, p
  <2>3. RegionFrom(r, p, scopes)
    BY <2>1, <2>2, ParentedBelow DEF RegionFrom, SameRegion
  <2>4. \A k \in 1 .. DataSize(p.shape) : r.cells[k].address = From(i) + k - 1
    BY <2>1, <2>2 DEF SameRegion
  <2> QED BY <2>1, <2>3, <2>4 DEF r, p
<1>15. PlaneFrom(t, proto, scopes)
  BY <1>12, <1>14 DEF PlaneFrom
<1>16. \A i \in 1 .. n : t.regions[i].shape = proto.regions[i].shape
  BY <1>14 DEF RegionFrom
<1>17. \A i \in 0 .. n : Offsets(t.regions)[i] = o[i]
  <2> DEFINE regs == t.regions
  <2>1. regs = [i \in 1 .. n |-> regs[i]] /\ n \in Nat
    <3>1. WellLaid(t) /\ DataSize(t.shape) = n
      BY <1>12
    <3>2. regs = [i \in 1 .. DataSize(t.shape) |-> regs[i]]
      BY <3>1, RegionSizes
    <3> QED BY <1>1, <3>1, <3>2
  <2>2. \A i \in 1 .. n : regs[i].shape = proto.regions[i].shape
    BY <1>16
  <2> HIDE DEF regs, o
  <2>3. Offsetting(o, regs, n)
    BY <1>1, <1>3, <2>2 DEF Offsetting
  <2>4. \A i \in 0 .. n : Offsets(regs)[i] = o[i]
    BY <2>1, <2>3, OffsetsAre
  <2> QED BY <2>4 DEF regs
<1>18. LaidFrom(t, base)
  <2>1. \A i \in 1 .. n : i - 1 \in 0 .. n
    BY <1>1
  <2>2. \A i \in 1 .. n : From(i) = base + Offsets(t.regions)[i - 1]
    BY <1>17, <2>1 DEF From
  <2> QED BY <1>12, <1>14, <1>16, <2>2 DEF LaidFrom
<1>19. PlaneSize(t) = PlaneSize(proto)
  <2>1. Len(t.regions) = n /\ n \in 0 .. n
    <3>1. WellLaid(t) /\ DataSize(t.shape) = n
      BY <1>12
    <3>2. Len(t.regions) = DataSize(t.shape)
      BY <3>1, RegionSizes
    <3> QED BY <1>1, <3>1, <3>2
  <2>2. Offsets(t.regions)[n] = o[n]
    BY <1>17, <2>1
  <2> QED BY <1>1, <2>1, <2>2 DEF PlaneSize
<1> QED BY <1>12, <1>13, <1>15, <1>18, <1>19 DEF t

-----------------------------------------------------------------------------
(* The planes of a world, or of a save.                                    *)

\* Regions are told apart by their ids, in whatever planes they are.
IdsApart(planes) ==
    \A p, q \in DOMAIN planes :
        \A i \in 1 .. DataSize(planes[p].shape), j \in 1 .. DataSize(planes[q].shape) :
            planes[p].regions[i].id = planes[q].regions[j].id => p = q /\ i = j

\* The numbers from n on were given to no region.
IdsBelow(plane, n) ==
    \A i \in 1 .. DataSize(plane.shape) : \A m \in Nat :
        plane.regions[i].id = <<"rgn", m>> => m < n

\* The numbers from n on were given to no region of any plane.
IdsGiven(planes, n) == \A p \in DOMAIN planes : IdsBelow(planes[p], n)

\* No cell of one plane has the address of one of the other.
PlanesApart(plane, other) ==
    \A i \in 1 .. DataSize(plane.shape), j \in 1 .. DataSize(other.shape) :
        \A k \in 1 .. DataSize(plane.regions[i].shape),
           l \in 1 .. DataSize(other.regions[j].shape) :
            plane.regions[i].cells[k].address # other.regions[j].cells[l].address

\* Every cell has an address of its own.
AddressesApart(planes) ==
    \A p \in DOMAIN planes : /\ AddressesDiffer(planes[p])
                             /\ \A q \in DOMAIN planes \ {p} : PlanesApart(planes[p], planes[q])

\* A plane as a world has it under an id.
WellPlane(plane, id) == WellLaid(plane) /\ Indexed(plane) /\ plane.id = id

\* The planes of a world that gives the number n next.
WellPlanes(planes, n) ==
    /\ planes = [id \in DOMAIN planes |-> planes[id]]
    /\ IsFiniteSet(DOMAIN planes)
    /\ \A id \in DOMAIN planes : WellPlane(planes[id], id)
    /\ IdsApart(planes) /\ IdsGiven(planes, n) /\ AddressesApart(planes)

\* No region of one plane has the id of one of the other.
IdsOfPlanesDiffer(plane, other) ==
    \A i \in 1 .. DataSize(plane.shape), j \in 1 .. DataSize(other.shape) :
        plane.regions[i].id # other.regions[j].id

\* A plane is put among others, in place of the one that was there.
PlanePut(planes, id, plane) ==
    [other \in DOMAIN planes \cup {id} |-> IF other = id THEN plane ELSE planes[other]]

\* A plane that is apart from the others may be put among them.
LEMMA PlanesAfterPut ==
  ASSUME NEW planes, NEW n \in Nat, WellPlanes(planes, n),
         NEW id, NEW plane, WellPlane(plane, id), NEW m \in Nat, n <= m,
         IdsDiffer(plane), IdsBelow(plane, m), AddressesDiffer(plane),
         \A q \in DOMAIN planes \ {id} :
            IdsOfPlanesDiffer(plane, planes[q]) /\ PlanesApart(plane, planes[q])
  PROVE  WellPlanes(PlanePut(planes, id, plane), m)
<1> DEFINE put == PlanePut(planes, id, plane)
           D == DOMAIN planes \cup {id}
<1>1. /\ DOMAIN put = D /\ put = [q \in D |-> put[q]]
      /\ put[id] = plane /\ \A q \in D \ {id} : q \in DOMAIN planes /\ put[q] = planes[q]
  BY DEF PlanePut
<1> HIDE DEF put
<1>2. IsFiniteSet(D)
  BY FS_AddElement DEF WellPlanes
<1>3. \A q \in D : WellPlane(put[q], q)
  BY <1>1 DEF WellPlanes
<1>4. IdsApart(put)
  <2> SUFFICES ASSUME NEW p \in D, NEW q \in D, NEW i \in 1 .. DataSize(put[p].shape),
                      NEW j \in 1 .. DataSize(put[q].shape),
                      put[p].regions[i].id = put[q].regions[j].id
               PROVE  p = q /\ i = j
    BY <1>1 DEF IdsApart
  <2>0. put[p].regions[i].id = put[q].regions[j].id
    OBVIOUS
  <2>1. CASE p = id /\ q = id
    BY <1>1, <2>1 DEF IdsDiffer
  <2>2. CASE p = id /\ q # id
    <3>1. IdsOfPlanesDiffer(plane, put[q]) /\ put[p] = plane
      BY <1>1, <2>2
    <3> QED BY <2>0, <3>1 DEF IdsOfPlanesDiffer
  <2>3. CASE p # id /\ q = id
    <3>1. IdsOfPlanesDiffer(plane, put[p]) /\ put[q] = plane
      BY <1>1, <2>3
    <3> QED BY <2>0, <3>1 DEF IdsOfPlanesDiffer
  <2>4. CASE p # id /\ q # id
    <3>1. /\ put[p] = planes[p] /\ put[q] = planes[q]
          /\ p \in DOMAIN planes /\ q \in DOMAIN planes
      BY <1>1, <2>4
    <3>2. IdsApart(planes)
      BY DEF WellPlanes
    <3> QED BY <2>0, <3>1, <3>2 DEF IdsApart
  <2> QED BY <2>1, <2>2, <2>3, <2>4
<1>5. IdsGiven(put, m)
  <2> SUFFICES ASSUME NEW q \in D PROVE IdsBelow(put[q], m)
    BY <1>1 DEF IdsGiven
  <2>1. CASE q = id
    BY <1>1, <2>1
  <2>2. CASE q # id
    <3>1. put[q] = planes[q] /\ IdsBelow(planes[q], n)
      BY <1>1, <2>2 DEF WellPlanes, IdsGiven
    <3>2. IdsBelow(planes[q], m)
      BY <3>1 DEF IdsBelow
    <3> QED BY <3>1, <3>2
  <2> QED BY <2>1, <2>2
<1>6. AddressesApart(put)
  <2>1. ASSUME NEW q \in D PROVE AddressesDiffer(put[q])
    BY <1>1 DEF WellPlanes, AddressesApart
  <2>2. ASSUME NEW p \in D, NEW q \in D \ {p} PROVE PlanesApart(put[p], put[q])
    <3>1. CASE p = id
      BY <1>1, <2>2, <3>1
    <3>2. CASE q = id
      <4>1. PlanesApart(plane, put[p]) /\ put[q] = plane
        BY <1>1, <2>2, <3>2
      <4> QED BY <4>1 DEF PlanesApart
    <3>3. CASE p # id /\ q # id
      BY <1>1, <2>2, <3>3 DEF WellPlanes, AddressesApart
    <3> QED BY <3>1, <3>2, <3>3
  <2> QED BY <1>1, <2>1, <2>2 DEF AddressesApart
<1> QED BY <1>1, <1>2, <1>3, <1>4, <1>5, <1>6 DEF WellPlanes, put

-----------------------------------------------------------------------------
(* What is alive.                                                          *)

\* Each cell of a plane has an address that is in use.
LEMMA AddressesAreLive ==
  ASSUME NEW planes, NEW p \in DOMAIN planes, WellLaid(planes[p]),
         NEW i \in 1 .. DataSize(planes[p].shape),
         NEW k \in 1 .. DataSize(planes[p].regions[i].shape)
  PROVE  planes[p].regions[i].cells[k].address \in LiveAddresses(planes)
<1> DEFINE region == planes[p].regions[i]
           All == UNION {ToSet(planes[id].regions) : id \in DOMAIN planes}
<1>1. /\ DOMAIN planes[p].regions = 1 .. DataSize(planes[p].shape)
      /\ DOMAIN region.cells = 1 .. DataSize(region.shape)
  BY RegionSizes
<1>2. region \in ToSet(planes[p].regions)
  BY <1>1 DEF ToSet
<1>3. region \in All
  BY <1>2
<1>4. region.cells[k] \in ToSet(region.cells)
  BY <1>1 DEF ToSet
<1> HIDE DEF region, All
<1>5. region.cells[k] \in UNION {ToSet(r.cells) : r \in All}
  BY <1>3, <1>4
<1>6. region.cells[k] \in Cells(planes)
  BY <1>5 DEF Cells, All
<1>7. region.cells[k].address \in LiveAddresses(planes)
  BY <1>6 DEF LiveAddresses
<1> QED BY <1>7 DEF region

\* A plane that is allocated is apart from those that are alive.
LEMMA ApartFromNew ==
  ASSUME NEW planes, NEW p \in DOMAIN planes, WellLaid(planes[p]),
         NEW base, NEW n, CanAllocate(base, n, LiveAddresses(planes)),
         NEW plane, AddressesWithin(plane, base .. base + n - 1)
  PROVE  PlanesApart(plane, planes[p])
<1> SUFFICES ASSUME NEW i \in 1 .. DataSize(plane.shape),
                    NEW j \in 1 .. DataSize(planes[p].shape),
                    NEW k \in 1 .. DataSize(plane.regions[i].shape),
                    NEW l \in 1 .. DataSize(planes[p].regions[j].shape)
             PROVE  plane.regions[i].cells[k].address # planes[p].regions[j].cells[l].address
  BY DEF PlanesApart
<1>1. plane.regions[i].cells[k].address \in base .. base + n - 1
  BY DEF AddressesWithin
<1>2. planes[p].regions[j].cells[l].address \in LiveAddresses(planes)
  BY AddressesAreLive
<1> QED BY <1>1, <1>2 DEF CanAllocate

-----------------------------------------------------------------------------
(* Scopes of cells.                                                        *)

\* The elements that are visited: those of the places of the shape.
Inside(shape) == {GetCell(shape, place) : place \in Places(shape)}

\* Planes whose arrays have the sizes of their shapes.
AllLaid(planes) == \A p \in DOMAIN planes : WellLaid(planes[p])

\* Visited cells have scopes of their own.
ScopesDiffer(planes) ==
    \A p, q \in DOMAIN planes :
        \A i \in 1 .. DataSize(planes[p].shape), j \in 1 .. DataSize(planes[q].shape) :
            \A k \in Inside(planes[p].regions[i].shape), l \in Inside(planes[q].regions[j].shape) :
                planes[p].regions[i].cells[k].scope = planes[q].regions[j].cells[l].scope =>
                    p = q /\ i = j /\ k = l

\* A visit comes to elements of the array.
LEMMA InsideFits ==
  ASSUME NEW shape, WellShape(shape)
  PROVE  Inside(shape) \subseteq 1 .. DataSize(shape)
  BY ElementInShape DEF Inside

\* A visit of the planes comes to all regions.
LEMMA VisitedRegionsAre ==
  ASSUME NEW planes, AllLaid(planes), NEW r
  PROVE  r \in VisitedRegions(planes) <=>
            \E p \in DOMAIN planes : \E i \in 1 .. DataSize(planes[p].shape) :
                r = planes[p].regions[i]
<1>1. ASSUME NEW p \in DOMAIN planes
      PROVE  {RegionAt(planes[p], place) : place \in PlacesOf(planes[p])}
                = {planes[p].regions[i] : i \in 1 .. DataSize(planes[p].shape)}
  <2> DEFINE shape == planes[p].shape
  <2>1. /\ {GetCell(shape, place) : place \in Places(shape)} = 1 .. DataSize(shape)
        /\ PlacesOf(planes[p]) = Places(shape)
    BY ElementsInside DEF AllLaid, WellLaid, PlacesOf
  <2>2. \A place : RegionAt(planes[p], place) = planes[p].regions[GetCell(shape, place)]
    BY DEF RegionAt
  <2> HIDE DEF shape
  <2>3. {RegionAt(planes[p], place) : place \in Places(shape)}
            = {planes[p].regions[i] : i \in 1 .. DataSize(shape)}
    BY <2>1, <2>2
  <2> QED BY <2>1, <2>3 DEF shape
<1> DEFINE At(p) == {RegionAt(planes[p], place) : place \in PlacesOf(planes[p])}
<1>2. r \in VisitedRegions(planes) <=> \E p \in DOMAIN planes : r \in At(p)
  BY DEF VisitedRegions
<1>3. \A p \in DOMAIN planes :
          At(p) = {planes[p].regions[i] : i \in 1 .. DataSize(planes[p].shape)}
  BY <1>1
<1> HIDE DEF At
<1> QED BY <1>2, <1>3

\* A visit of the planes comes to the cells inside the shapes.
LEMMA VisitedCellsAre ==
  ASSUME NEW planes, AllLaid(planes), NEW c
  PROVE  c \in VisitedCells(planes) <=>
            \E p \in DOMAIN planes : \E i \in 1 .. DataSize(planes[p].shape) :
                \E k \in Inside(planes[p].regions[i].shape) : c = planes[p].regions[i].cells[k]
<1> DEFINE CellsIn(r) == {CellAt(r, place) : place \in ToSet(Foreach(r.shape))}
<1>1. ASSUME NEW r, WellShape(r.shape)
      PROVE  c \in CellsIn(r) <=> \E k \in Inside(r.shape) : c = r.cells[k]
  <2>1. ToSet(Foreach(r.shape)) = Places(r.shape)
    BY <1>1, ForeachIs
  <2> QED BY <2>1 DEF CellAt, Inside
<1>2. c \in VisitedCells(planes) <=> \E r \in VisitedRegions(planes) : c \in CellsIn(r)
  BY DEF VisitedCells
<1>3. \A p \in DOMAIN planes : \A i \in 1 .. DataSize(planes[p].shape) :
          /\ WellShape(planes[p].regions[i].shape)
          /\ planes[p].regions[i] \in VisitedRegions(planes)
  BY RegionSizes, VisitedRegionsAre DEF AllLaid
<1>4. \A r \in VisitedRegions(planes) :
          \E p \in DOMAIN planes : \E i \in 1 .. DataSize(planes[p].shape) :
              r = planes[p].regions[i]
  BY VisitedRegionsAre
<1> HIDE DEF CellsIn
<1> QED BY <1>1, <1>2, <1>3, <1>4

\* A function on a finite set has finitely many values.
LEMMA FiniteImage ==
  ASSUME NEW f, IsFiniteSet(DOMAIN f)
  PROVE  IsFiniteSet({f[x] : x \in DOMAIN f})
<1> DEFINE T == {f[x] : x \in DOMAIN f}
           g == [x \in DOMAIN f |-> f[x]]
<1>1. g \in Surjection(DOMAIN f, T)
  BY DEF Surjection
<1> HIDE DEF g, T
<1> QED BY <1>1, FS_Surjection DEF T

\* A world has finitely many cells.
LEMMA FiniteCells ==
  ASSUME NEW planes, AllLaid(planes), IsFiniteSet(DOMAIN planes)
  PROVE  IsFiniteSet({cell.address : cell \in VisitedCells(planes)})
<1> DEFINE OfRegion(r) == [k \in 1 .. DataSize(r.shape) |-> r.cells[k].address]
           InRegion(r) == {OfRegion(r)[k] : k \in 1 .. DataSize(r.shape)}
           OfPlane(p) == [i \in 1 .. DataSize(p.shape) |-> InRegion(p.regions[i])]
           InPlane(p) == UNION {OfPlane(p)[i] : i \in 1 .. DataSize(p.shape)}
           ofAll == [id \in DOMAIN planes |-> InPlane(planes[id])]
           All == UNION {ofAll[id] : id \in DOMAIN planes}
<1>1. ASSUME NEW r, DataSize(r.shape) \in Nat PROVE IsFiniteSet(InRegion(r))
  <2> DEFINE f == OfRegion(r)
  <2>1. DOMAIN f = 1 .. DataSize(r.shape) /\ IsFiniteSet(1 .. DataSize(r.shape))
    BY <1>1, FS_Interval
  <2>2. InRegion(r) = {f[k] : k \in DOMAIN f}
    BY <2>1
  <2> HIDE DEF f, InRegion
  <2> QED BY <2>1, <2>2, FiniteImage
<1> HIDE DEF InRegion
<1>2. ASSUME NEW p, WellLaid(p) PROVE IsFiniteSet(InPlane(p))
  <2> DEFINE f == OfPlane(p)
  <2>1. DOMAIN f = 1 .. DataSize(p.shape) /\ IsFiniteSet(1 .. DataSize(p.shape))
    <3>1. DataSize(p.shape) \in Nat
      BY <1>2, RegionSizes
    <3> QED BY <3>1, FS_Interval
  <2>2. \A i \in 1 .. DataSize(p.shape) : IsFiniteSet(f[i])
    BY <1>1, <1>2, RegionSizes
  <2>3. InPlane(p) = UNION {f[i] : i \in DOMAIN f}
    BY <2>1
  <2> HIDE DEF f, InPlane
  <2>4. IsFiniteSet({f[i] : i \in DOMAIN f})
    BY <2>1, FiniteImage
  <2> QED BY <2>1, <2>2, <2>3, <2>4, FS_UNION
<1> HIDE DEF InPlane
<1>3. IsFiniteSet(All)
  <2>1. DOMAIN ofAll = DOMAIN planes /\ \A id \in DOMAIN planes : IsFiniteSet(ofAll[id])
    BY <1>2 DEF AllLaid
  <2> HIDE DEF ofAll
  <2>2. IsFiniteSet({ofAll[id] : id \in DOMAIN ofAll})
    BY <2>1, FiniteImage
  <2>3. IsFiniteSet({ofAll[id] : id \in DOMAIN planes})
    BY <2>1, <2>2
  <2> QED BY <2>1, <2>3, FS_UNION
<1>4. {cell.address : cell \in VisitedCells(planes)} \subseteq All
  <2> SUFFICES ASSUME NEW c \in VisitedCells(planes) PROVE c.address \in All
    OBVIOUS
  <2>1. PICK p, i, k :
          /\ p \in DOMAIN planes /\ i \in 1 .. DataSize(planes[p].shape)
          /\ k \in Inside(planes[p].regions[i].shape) /\ c = planes[p].regions[i].cells[k]
    BY VisitedCellsAre
  <2>2. k \in 1 .. DataSize(planes[p].regions[i].shape)
    <3>1. WellShape(planes[p].regions[i].shape)
      BY <2>1, RegionSizes DEF AllLaid
    <3> QED BY <2>1, <3>1, InsideFits
  <2>3. c.address \in InRegion(planes[p].regions[i])
    BY <2>1, <2>2 DEF InRegion
  <2>4. c.address \in InPlane(planes[p])
    <3>1. OfPlane(planes[p])[i] = InRegion(planes[p].regions[i])
      BY <2>1
    <3>2. InPlane(planes[p]) = UNION {OfPlane(planes[p])[j] : j \in 1 .. DataSize(planes[p].shape)}
      BY DEF InPlane
    <3> HIDE DEF OfPlane
    <3> QED BY <2>1, <2>3, <3>1, <3>2
  <2>5. c.address \in ofAll[p]
    BY <2>1, <2>4
  <2> QED BY <2>1, <2>5
<1> HIDE DEF All
<1> QED BY <1>3, <1>4, FS_Subset

\* The sort of scopes refuses exactly the worlds where two cells have one id.
LEMMA DuplicatesAre ==
  ASSUME NEW planes, NEW n, WellPlanes(planes, n)
  PROVE  NoDuplicates(planes) <=> ScopesDiffer(planes)
<1> DEFINE V == VisitedCells(planes)
           A == {c.address : c \in V}
           T == {c.scope : c \in V}
           CellOf(a) == CHOOSE c \in V : c.address = a
           f == [a \in A |-> CellOf(a).scope]
<1>1. AllLaid(planes) /\ AddressesApart(planes) /\ IsFiniteSet(DOMAIN planes)
  BY DEF WellPlanes, WellPlane, AllLaid
<1>2. IsFiniteSet(A)
  BY <1>1, FiniteCells
<1>3. \A c : c \in V <=> \E p \in DOMAIN planes : \E i \in 1 .. DataSize(planes[p].shape) :
                \E k \in Inside(planes[p].regions[i].shape) : c = planes[p].regions[i].cells[k]
  BY <1>1, VisitedCellsAre
<1> HIDE DEF V
<1>4. \A p, q \in DOMAIN planes :
        \A i \in 1 .. DataSize(planes[p].shape), j \in 1 .. DataSize(planes[q].shape) :
          \A k \in Inside(planes[p].regions[i].shape), l \in Inside(planes[q].regions[j].shape) :
            planes[p].regions[i].cells[k].address = planes[q].regions[j].cells[l].address =>
                p = q /\ i = j /\ k = l
  <2> SUFFICES ASSUME NEW p \in DOMAIN planes, NEW q \in DOMAIN planes,
                      NEW i \in 1 .. DataSize(planes[p].shape),
                      NEW j \in 1 .. DataSize(planes[q].shape),
                      NEW k \in Inside(planes[p].regions[i].shape),
                      NEW l \in Inside(planes[q].regions[j].shape),
                      planes[p].regions[i].cells[k].address
                          = planes[q].regions[j].cells[l].address
               PROVE  p = q /\ i = j /\ k = l
    OBVIOUS
  <2>1. /\ k \in 1 .. DataSize(planes[p].regions[i].shape)
        /\ l \in 1 .. DataSize(planes[q].regions[j].shape)
    BY <1>1, InsideFits, RegionSizes DEF AllLaid
  <2>2. AddressesDiffer(planes[p]) /\ (p # q => PlanesApart(planes[p], planes[q]))
    BY <1>1 DEF AddressesApart
  <2>3. p = q
    BY <2>1, <2>2 DEF PlanesApart
  <2> QED BY <2>1, <2>2, <2>3 DEF AddressesDiffer
<1>5. \A c, d \in V : c.address = d.address => c = d
  <2> SUFFICES ASSUME NEW c \in V, NEW d \in V, c.address = d.address PROVE c = d
    OBVIOUS
  <2>1. PICK p, i, k :
          /\ p \in DOMAIN planes /\ i \in 1 .. DataSize(planes[p].shape)
          /\ k \in Inside(planes[p].regions[i].shape) /\ c = planes[p].regions[i].cells[k]
    BY <1>3
  <2>2. PICK q, j, l :
          /\ q \in DOMAIN planes /\ j \in 1 .. DataSize(planes[q].shape)
          /\ l \in Inside(planes[q].regions[j].shape) /\ d = planes[q].regions[j].cells[l]
    BY <1>3
  <2>3. p = q /\ i = j /\ k = l
    BY <1>4, <2>1, <2>2
  <2> QED BY <2>1, <2>2, <2>3
<1>6. \A c \in V : c.address \in A /\ f[c.address] = c.scope
  <2> TAKE c \in V
  <2>1. CellOf(c.address) = c
    BY <1>5
  <2> QED BY <2>1
<1>7. f \in Surjection(A, T)
  <2>1. \A a \in A : f[a] \in T
    BY <1>6
  <2>2. f \in [A -> T]
    <3>1. f = [a \in A |-> f[a]]
      OBVIOUS
    <3> HIDE DEF f, A, T
    <3> QED BY <2>1, <3>1
  <2>3. \A t \in T : \E a \in A : f[a] = t
    BY ZenonT(30), <1>6
  <2> HIDE DEF f, A, T
  <2> QED BY <2>2, <2>3 DEF Surjection
<1>8. NoDuplicates(planes) <=> Cardinality(T) = Cardinality(A)
  BY DEF NoDuplicates, V
<1>9. f \in Injection(A, T) <=> \A c, d \in V : c.scope = d.scope => c.address = d.address
  <2>1. f \in Injection(A, T) <=> \A a, b \in A : f[a] = f[b] => a = b
    <3> HIDE DEF f, A, T
    <3>1. f \in [A -> T]
      BY <1>7 DEF Surjection
    <3> QED BY <3>1 DEF Injection, IsInjective
  <2>2. (\A a, b \in A : f[a] = f[b] => a = b)
            <=> \A c, d \in V : c.scope = d.scope => c.address = d.address
    <3> HIDE DEF f
    <3> QED BY <1>6
  <2> QED BY <2>1, <2>2
<1>10. NoDuplicates(planes) <=> f \in Injection(A, T)
  <2> HIDE DEF f, A, T
  <2> QED BY <1>2, <1>7, <1>8, FS_Surjection
<1>11. (\A c, d \in V : c.scope = d.scope => c.address = d.address) => ScopesDiffer(planes)
  <2> SUFFICES ASSUME \A c, d \in V : c.scope = d.scope => c.address = d.address,
                      NEW p \in DOMAIN planes, NEW q \in DOMAIN planes,
                      NEW i \in 1 .. DataSize(planes[p].shape),
                      NEW j \in 1 .. DataSize(planes[q].shape),
                      NEW k \in Inside(planes[p].regions[i].shape),
                      NEW l \in Inside(planes[q].regions[j].shape),
                      planes[p].regions[i].cells[k].scope = planes[q].regions[j].cells[l].scope
               PROVE  p = q /\ i = j /\ k = l
    BY DEF ScopesDiffer
  <2>1. planes[p].regions[i].cells[k] \in V /\ planes[q].regions[j].cells[l] \in V
    BY <1>3
  <2>2. planes[p].regions[i].cells[k].address = planes[q].regions[j].cells[l].address
    BY <2>1
  <2> QED BY <1>4, <2>2
<1>12. ScopesDiffer(planes) => \A c, d \in V : c.scope = d.scope => c.address = d.address
  <2> SUFFICES ASSUME ScopesDiffer(planes), NEW c \in V, NEW d \in V, c.scope = d.scope
               PROVE  c.address = d.address
    OBVIOUS
  <2>1. PICK p, i, k :
          /\ p \in DOMAIN planes /\ i \in 1 .. DataSize(planes[p].shape)
          /\ k \in Inside(planes[p].regions[i].shape) /\ c = planes[p].regions[i].cells[k]
    BY <1>3
  <2>2. PICK q, j, l :
          /\ q \in DOMAIN planes /\ j \in 1 .. DataSize(planes[q].shape)
          /\ l \in Inside(planes[q].regions[j].shape) /\ d = planes[q].regions[j].cells[l]
    BY <1>3
  <2>3. p = q /\ i = j /\ k = l
    BY <2>1, <2>2 DEF ScopesDiffer
  <2> QED BY <2>1, <2>2, <2>3
<1> QED BY <1>9, <1>10, <1>11, <1>12

-----------------------------------------------------------------------------
(* Saves.                                                                  *)

\* What is saved of a region is what is visited of it.
RegionResembles(region, proto) ==
    /\ region.id = proto.id /\ region.cityId = proto.cityId /\ region.shape = proto.shape
    /\ \A k \in Inside(proto.shape) : region.cells[k].scope = proto.cells[k]

\* A plane with the regions that were saved.
PlaneResembles(plane, proto) ==
    /\ plane.shape = proto.shape /\ plane.externalRadius = proto.externalRadius
    /\ \A i \in 1 .. DataSize(proto.shape) : RegionResembles(plane.regions[i], proto.regions[i])

\* Planes that were saved, or that are loaded.
Resemble(planes, protos) ==
    /\ DOMAIN planes = DOMAIN protos
    /\ \A id \in DOMAIN protos : PlaneResembles(planes[id], protos[id])

\* Saved cells have scopes of their own.
SavedScopesDiffer(protos) ==
    \A p, q \in DOMAIN protos :
        \A i \in 1 .. DataSize(protos[p].shape), j \in 1 .. DataSize(protos[q].shape) :
            \A k \in Inside(protos[p].regions[i].shape), l \in Inside(protos[q].regions[j].shape) :
                protos[p].regions[i].cells[k] = protos[q].regions[j].cells[l] =>
                    p = q /\ i = j /\ k = l

\* The scopes of saved cells are among those that were saved.
ScopesAmong(protos, scopes) ==
    \A p \in DOMAIN protos : \A i \in 1 .. DataSize(protos[p].shape) :
        \A k \in Inside(protos[p].regions[i].shape) : protos[p].regions[i].cells[k] \in scopes

\* Scopes differ in the save exactly if they differ in the planes.
LEMMA SavedScopesAre ==
  ASSUME NEW planes, NEW protos, Resemble(planes, protos)
  PROVE  ScopesDiffer(planes) <=> SavedScopesDiffer(protos)
<1>1. /\ DOMAIN planes = DOMAIN protos
      /\ \A p \in DOMAIN protos : planes[p].shape = protos[p].shape
      /\ \A p \in DOMAIN protos : \A i \in 1 .. DataSize(protos[p].shape) :
            /\ planes[p].regions[i].shape = protos[p].regions[i].shape
            /\ \A k \in Inside(protos[p].regions[i].shape) :
                  planes[p].regions[i].cells[k].scope = protos[p].regions[i].cells[k]
  BY DEF Resemble, PlaneResembles, RegionResembles
<1>2. ASSUME ScopesDiffer(planes) PROVE SavedScopesDiffer(protos)
  <2> SUFFICES ASSUME NEW p \in DOMAIN protos, NEW q \in DOMAIN protos,
                      NEW i \in 1 .. DataSize(protos[p].shape),
                      NEW j \in 1 .. DataSize(protos[q].shape),
                      NEW k \in Inside(protos[p].regions[i].shape),
                      NEW l \in Inside(protos[q].regions[j].shape),
                      protos[p].regions[i].cells[k] = protos[q].regions[j].cells[l]
               PROVE  p = q /\ i = j /\ k = l
    BY DEF SavedScopesDiffer
  <2>1. planes[p].regions[i].cells[k].scope = planes[q].regions[j].cells[l].scope
    BY <1>1
  <2> QED BY <1>1, <1>2, <2>1 DEF ScopesDiffer
<1>3. ASSUME SavedScopesDiffer(protos) PROVE ScopesDiffer(planes)
  <2> SUFFICES ASSUME NEW p \in DOMAIN planes, NEW q \in DOMAIN planes,
                      NEW i \in 1 .. DataSize(planes[p].shape),
                      NEW j \in 1 .. DataSize(planes[q].shape),
                      NEW k \in Inside(planes[p].regions[i].shape),
                      NEW l \in Inside(planes[q].regions[j].shape),
                      planes[p].regions[i].cells[k].scope = planes[q].regions[j].cells[l].scope
               PROVE  p = q /\ i = j /\ k = l
    BY DEF ScopesDiffer
  <2>1. /\ p \in DOMAIN protos /\ q \in DOMAIN protos
        /\ i \in 1 .. DataSize(protos[p].shape) /\ j \in 1 .. DataSize(protos[q].shape)
    BY <1>1
  <2>2. /\ k \in Inside(protos[p].regions[i].shape) /\ l \in Inside(protos[q].regions[j].shape)
    BY <1>1, <2>1
  <2>3. protos[p].regions[i].cells[k] = protos[q].regions[j].cells[l]
    BY <1>1, <2>1, <2>2
  <2> QED BY <1>3, <2>1, <2>2, <2>3 DEF SavedScopesDiffer
<1> QED BY <1>2, <1>3

-----------------------------------------------------------------------------
(* Views.                                                                  *)

\* What View shows of a region.
ViewOfRegion(region) ==
    [id |-> region.id, cityId |-> region.cityId,
     cells |-> [c \in ToSet(Foreach(region.shape)) |-> CellAt(region, c).scope]]

\* What View shows of a plane.
ViewOfPlane(plane) ==
    [externalRadius |-> plane.externalRadius,
     regions |-> [place \in PlacesOf(plane) |-> ViewOfRegion(RegionAt(plane, place))]]

\* The same of a region that was saved.
ViewOfSavedRegion(proto) ==
    [id |-> proto.id, cityId |-> proto.cityId,
     cells |-> [c \in Places(proto.shape) |-> proto.cells[GetCell(proto.shape, c)]]]

\* The same of a plane that was saved.
ViewOfSavedPlane(proto) ==
    [externalRadius |-> proto.externalRadius,
     regions |-> [place \in Places(proto.shape) |->
         ViewOfSavedRegion(proto.regions[GetCell(proto.shape, place)])]]

\* The same of a save.
ViewOfSave(nextId, protos) ==
    [nextId |-> nextId, planes |-> [id \in DOMAIN protos |-> ViewOfSavedPlane(protos[id])]]

\* A region shows what was saved of it.
LEMMA RegionViews ==
  ASSUME NEW region, WellRegion(region), NEW proto, RegionResembles(region, proto)
  PROVE  ViewOfRegion(region) = ViewOfSavedRegion(proto)
<1>1. /\ region.id = proto.id /\ region.cityId = proto.cityId /\ region.shape = proto.shape
      /\ \A k \in Inside(proto.shape) : region.cells[k].scope = proto.cells[k]
  BY DEF RegionResembles
<1>2. ToSet(Foreach(region.shape)) = Places(proto.shape)
  BY <1>1, ForeachIs DEF WellRegion, WellShape
<1>3. \A c \in Places(proto.shape) :
          CellAt(region, c).scope = proto.cells[GetCell(proto.shape, c)]
  BY <1>1 DEF CellAt, Inside
<1>4. [c \in ToSet(Foreach(region.shape)) |-> CellAt(region, c).scope]
         = [c \in Places(proto.shape) |-> proto.cells[GetCell(proto.shape, c)]]
  BY <1>2, <1>3
<1> QED BY <1>1, <1>4 DEF ViewOfRegion, ViewOfSavedRegion

\* A plane shows what was saved of it.
LEMMA PlaneViews ==
  ASSUME NEW plane, WellLaid(plane), NEW proto, PlaneResembles(plane, proto)
  PROVE  ViewOfPlane(plane) = ViewOfSavedPlane(proto)
<1>1. /\ plane.shape = proto.shape /\ plane.externalRadius = proto.externalRadius
      /\ WellRhombus(proto.shape)
  BY DEF PlaneResembles, WellLaid
<1>2. /\ PlacesOf(plane) = Places(proto.shape)
      /\ {GetCell(proto.shape, place) : place \in Places(proto.shape)} = 1 .. DataSize(proto.shape)
  BY <1>1, ElementsInside DEF PlacesOf
<1>3. \A i \in 1 .. DataSize(proto.shape) :
          ViewOfRegion(plane.regions[i]) = ViewOfSavedRegion(proto.regions[i])
  <2> TAKE i \in 1 .. DataSize(proto.shape)
  <2>1. WellRegion(plane.regions[i]) /\ RegionResembles(plane.regions[i], proto.regions[i])
    BY <1>1 DEF PlaneResembles, WellLaid
  <2> QED BY <2>1, RegionViews
<1>4. \A place \in Places(proto.shape) :
          ViewOfRegion(RegionAt(plane, place))
              = ViewOfSavedRegion(proto.regions[GetCell(proto.shape, place)])
  BY <1>1, <1>2, <1>3 DEF RegionAt
<1>5. [place \in PlacesOf(plane) |-> ViewOfRegion(RegionAt(plane, place))]
         = [place \in Places(proto.shape) |->
                ViewOfSavedRegion(proto.regions[GetCell(proto.shape, place)])]
  BY <1>2, <1>4
<1> QED BY <1>1, <1>5 DEF ViewOfPlane, ViewOfSavedPlane

\* A world shows what was saved of it.
LEMMA Views ==
  ASSUME NEW w, AllLaid(w.planes), NEW protos, Resemble(w.planes, protos)
  PROVE  View(w) = ViewOfSave(w.nextId, protos)
<1>1. View(w) = [nextId |-> w.nextId,
                 planes |-> [id \in DOMAIN w.planes |-> ViewOfPlane(w.planes[id])]]
  BY DEF View, ViewOfPlane, ViewOfRegion
<1>2. DOMAIN w.planes = DOMAIN protos
      /\ \A id \in DOMAIN protos : ViewOfPlane(w.planes[id]) = ViewOfSavedPlane(protos[id])
  BY PlaneViews DEF Resemble, AllLaid
<1> QED BY <1>1, <1>2 DEF ViewOfSave

-----------------------------------------------------------------------------
(* What a save is.                                                         *)

\* A save that can be loaded, and has what its view shows.
WellSave(s) ==
    /\ s.nextId \in Nat
    /\ IsFiniteSet(DOMAIN s.planes)
    /\ \A id \in DOMAIN s.planes : WellSavedPlane(s.planes[id]) /\ s.planes[id].id = id
    /\ IdsApart(s.planes) /\ IdsGiven(s.planes, s.nextId)
    /\ SavedScopesDiffer(s.planes) /\ ScopesAmong(s.planes, s.scopes)
    /\ s.view = ViewOfSave(s.nextId, s.planes)

\* What Save writes of the planes.
Protos(planes) == [id \in DOMAIN planes |-> SavePlane(planes[id])]

\* What Save writes of the planes is what they have.
LEMMA ProtosResemble ==
  ASSUME NEW planes, AllLaid(planes)
  PROVE  /\ Resemble(planes, Protos(planes))
         /\ \A p \in DOMAIN planes : WellSavedPlane(Protos(planes)[p])
                                     /\ Protos(planes)[p].id = planes[p].id
<1> DEFINE protos == Protos(planes)
<1>1. DOMAIN protos = DOMAIN planes /\ \A p \in DOMAIN planes : protos[p] = SavePlane(planes[p])
  BY DEF Protos
<1> HIDE DEF protos
<1>2. ASSUME NEW plane, WellLaid(plane)
      PROVE  /\ PlaneResembles(plane, SavePlane(plane)) /\ WellSavedPlane(SavePlane(plane))
             /\ SavePlane(plane).id = plane.id
  <2> DEFINE t == SavePlane(plane)
  <2>1. /\ WellSavedPlane(t) /\ t.id = plane.id /\ t.shape = plane.shape
        /\ t.externalRadius = plane.externalRadius
        /\ \A i \in 1 .. DataSize(plane.shape) : t.regions[i] = SaveRegion(plane.regions[i])
    BY <1>2, SavedPlaneIs
  <2> HIDE DEF t
  <2>2. ASSUME NEW region, WellRegion(region)
        PROVE  RegionResembles(region, SaveRegion(region))
    <3> DEFINE r == SaveRegion(region)
    <3>1. /\ r.id = region.id /\ r.cityId = region.cityId /\ r.shape = region.shape
          /\ \A k \in 1 .. DataSize(region.shape) : r.cells[k] = region.cells[k].scope
      BY <2>2, SavedRegionIs
    <3>2. Inside(region.shape) \subseteq 1 .. DataSize(region.shape)
      BY <2>2, InsideFits DEF WellRegion, WellShape
    <3> HIDE DEF r
    <3>3. RegionResembles(region, r)
      BY <3>1, <3>2 DEF RegionResembles
    <3> QED BY <3>3 DEF r
  <2>3. \A i \in 1 .. DataSize(plane.shape) : WellRegion(plane.regions[i])
    BY <1>2 DEF WellLaid
  <2>4. PlaneResembles(plane, t)
    BY <2>1, <2>2, <2>3 DEF PlaneResembles
  <2> QED BY <2>1, <2>4 DEF t
<1>3. \A p \in DOMAIN planes : WellLaid(planes[p])
  BY DEF AllLaid
<1>4. Resemble(planes, protos)
  BY <1>1, <1>2, <1>3 DEF Resemble
<1> QED BY <1>1, <1>2, <1>3, <1>4 DEF protos

-----------------------------------------------------------------------------
(* Changes of a plane.                                                     *)

\* A step that replaces a plane.
LEMMA WorldPut ==
  ASSUME NEW w, w = [nextId |-> w.nextId, planes |-> w.planes],
         w.planes = [id \in DOMAIN w.planes |-> w.planes[id]],
         NEW p \in DOMAIN w.planes, NEW plane
  PROVE  [w EXCEPT !.planes[p] = plane]
            = [nextId |-> w.nextId, planes |-> PlanePut(w.planes, p, plane)]
<1>1. [w EXCEPT !.planes[p] = plane]
         = [nextId |-> w.nextId, planes |-> [w.planes EXCEPT ![p] = plane]]
  OBVIOUS
<1> DEFINE f == w.planes
<1>2. f = [id \in DOMAIN f |-> f[id]] /\ p \in DOMAIN f
  OBVIOUS
<1> HIDE DEF f
<1>3. [f EXCEPT ![p] = plane] = PlanePut(f, p, plane)
  BY <1>2 DEF PlanePut
<1> QED BY <1>1, <1>3 DEF f

\* A step that replaces the city of a region.
LEMMA WorldDeepPut ==
  ASSUME NEW w, w = [nextId |-> w.nextId, planes |-> w.planes], NEW p, NEW i, NEW c
  PROVE  [w EXCEPT !.planes[p].regions[i].cityId = c] =
            [w EXCEPT !.planes[p] = [w.planes[p] EXCEPT
                !.regions = [w.planes[p].regions EXCEPT
                    ![i] = [w.planes[p].regions[i] EXCEPT !.cityId = c]]]]
  OBVIOUS

\* A plane with the same regions but for their parents and cities.
SamePlane(t, plane) ==
    /\ WellLaid(t) /\ t.id = plane.id /\ t.shape = plane.shape /\ t.index = plane.index
    /\ \A i \in 1 .. DataSize(plane.shape) : SameRegion(t.regions[i], plane.regions[i])

\* A plane is the same but for the city.
LEMMA CityGiven ==
  ASSUME NEW plane, WellLaid(plane), NEW i, NEW c
  PROVE  SamePlane([plane EXCEPT !.regions = [plane.regions EXCEPT
                        ![i] = [plane.regions[i] EXCEPT !.cityId = c]]], plane)
<1> DEFINE n == DataSize(plane.shape)
           region == [plane.regions[i] EXCEPT !.cityId = c]
           regions == [plane.regions EXCEPT ![i] = region]
           t == [plane EXCEPT !.regions = regions]
           old == plane.regions
<1>1. /\ old = [j \in 1 .. n |-> old[j]] /\ WellRhombus(plane.shape)
      /\ plane.externalRadius \in Nat \ {0} /\ \A j \in 1 .. n : WellRegion(old[j])
  BY DEF WellLaid
<1>2. ASSUME i \in 1 .. n PROVE SameRegion(region, old[i])
  <2> DEFINE a == old[i].id
             b == old[i].parent
             d == old[i].shape
             e == old[i].cells
             x == old[i].cityId
  <2>1. old[i] = [id |-> a, parent |-> b, cityId |-> x, shape |-> d, cells |-> e]
        /\ WellRegion(old[i])
    BY <1>1, <1>2 DEF WellRegion
  <2>2. region = [old[i] EXCEPT !.cityId = c]
    OBVIOUS
  <2> HIDE DEF region, old, a, b, d, e, x
  <2>3. region = [id |-> a, parent |-> b, cityId |-> c, shape |-> d, cells |-> e]
    BY <2>1, <2>2
  <2>4. region.id = a /\ region.parent = b /\ region.cityId = c /\ region.shape = d
        /\ region.cells = e
    BY <2>3
  <2>5. old[i].id = a /\ old[i].shape = d /\ old[i].cells = e
    BY DEF a, d, e
  <2>6. WellRegion(region)
    BY <2>1, <2>3, <2>4, <2>5 DEF WellRegion
  <2> QED BY <2>4, <2>5, <2>6 DEF SameRegion
<1> HIDE DEF region
<1>3. /\ regions = [j \in 1 .. n |-> regions[j]]
      /\ \A j \in 1 .. n : regions[j] = IF j = i THEN region ELSE old[j]
  <2>1. regions = [old EXCEPT ![i] = region]
    OBVIOUS
  <2> HIDE DEF regions, old, n
  <2> QED BY <1>1, <2>1
<1>4. \A j \in 1 .. n : SameRegion(regions[j], old[j])
  <2> TAKE j \in 1 .. n
  <2>1. CASE j = i
    BY <1>2, <1>3, <2>1
  <2>2. CASE j # i
    BY <1>1, <1>3, <2>2 DEF SameRegion
  <2> QED BY <2>1, <2>2
<1> HIDE DEF regions, t
<1>5. t = [id |-> plane.id, parent |-> plane.parent, shape |-> plane.shape,
           externalRadius |-> plane.externalRadius, regions |-> regions,
           index |-> plane.index]
  BY DEF WellLaid, t
<1>6. /\ t.id = plane.id /\ t.shape = plane.shape /\ t.index = plane.index
      /\ t.externalRadius = plane.externalRadius /\ t.regions = regions
      /\ t.parent = plane.parent
  BY <1>5
<1>7. WellLaid(t)
  BY <1>1, <1>3, <1>4, <1>5, <1>6 DEF WellLaid, SameRegion
<1>8. SamePlane(t, plane)
  BY <1>4, <1>6, <1>7 DEF SamePlane
<1> QED BY <1>8 DEF t, regions, region

\* All that is said of a plane holds of the same one with other cities.
LEMMA SamePlaneKeeps ==
  ASSUME NEW plane, NEW id, WellPlane(plane, id), NEW t, SamePlane(t, plane)
  PROVE  /\ WellPlane(t, id)
         /\ IdsDiffer(plane) => IdsDiffer(t)
         /\ \A m : IdsBelow(plane, m) => IdsBelow(t, m)
         /\ AddressesDiffer(plane) => AddressesDiffer(t)
         /\ \A other : PlanesApart(plane, other) => PlanesApart(t, other)
         /\ \A other : IdsOfPlanesDiffer(plane, other) => IdsOfPlanesDiffer(t, other)
         /\ OwnScopes(plane) => OwnScopes(t)
<1>1. /\ t.shape = plane.shape /\ t.index = plane.index /\ t.id = plane.id /\ WellLaid(t)
      /\ \A i \in 1 .. DataSize(plane.shape) :
            /\ t.regions[i].id = plane.regions[i].id
            /\ t.regions[i].shape = plane.regions[i].shape
            /\ t.regions[i].cells = plane.regions[i].cells
  BY DEF SamePlane, SameRegion
<1>2. WellPlane(t, id)
  <2>1. Indexed(t)
    <3>1. /\ DOMAIN plane.index = {plane.regions[i].id : i \in 1 .. DataSize(plane.shape)}
          /\ \A i \in 1 .. DataSize(plane.shape) : plane.index[plane.regions[i].id] = i
      BY DEF WellPlane, Indexed
    <3> QED BY <1>1, <3>1 DEF Indexed
  <2> QED BY <1>1, <2>1 DEF WellPlane
<1>3. IdsDiffer(plane) => IdsDiffer(t)
  BY <1>1 DEF IdsDiffer
<1>4. \A m : IdsBelow(plane, m) => IdsBelow(t, m)
  BY <1>1 DEF IdsBelow
<1>5. AddressesDiffer(plane) => AddressesDiffer(t)
  <2> SUFFICES ASSUME AddressesDiffer(plane),
                      NEW i \in 1 .. DataSize(t.shape), NEW j \in 1 .. DataSize(t.shape),
                      NEW k \in 1 .. DataSize(t.regions[i].shape),
                      NEW l \in 1 .. DataSize(t.regions[j].shape),
                      t.regions[i].cells[k].address = t.regions[j].cells[l].address
               PROVE  i = j /\ k = l
    BY DEF AddressesDiffer
  <2>1. i \in 1 .. DataSize(plane.shape) /\ j \in 1 .. DataSize(plane.shape)
    BY <1>1
  <2>2. /\ t.regions[i].shape = plane.regions[i].shape
        /\ t.regions[i].cells = plane.regions[i].cells
        /\ t.regions[j].shape = plane.regions[j].shape
        /\ t.regions[j].cells = plane.regions[j].cells
    BY <1>1, <2>1
  <2>3. plane.regions[i].cells[k].address = plane.regions[j].cells[l].address
    BY <2>2
  <2> QED BY <2>1, <2>2, <2>3 DEF AddressesDiffer
<1>6. \A other : PlanesApart(plane, other) => PlanesApart(t, other)
  BY <1>1 DEF PlanesApart
<1>7. \A other : IdsOfPlanesDiffer(plane, other) => IdsOfPlanesDiffer(t, other)
  BY <1>1 DEF IdsOfPlanesDiffer
<1>8. OwnScopes(plane) => OwnScopes(t)
  BY <1>1 DEF OwnScopes
<1> QED BY <1>2, <1>3, <1>4, <1>5, <1>6, <1>7, <1>8

\* A plane with another region at i.
Replaced(t, plane, i, region) ==
    /\ t.shape = plane.shape
    /\ \A j \in 1 .. DataSize(plane.shape) :
          t.regions[j] = IF j = i THEN region ELSE plane.regions[j]

\* The index is still exact when a region was replaced.
LEMMA RegionReplaced ==
  ASSUME NEW plane, NEW p, WellPlane(plane, p), IdsDiffer(plane),
         NEW i \in 1 .. DataSize(plane.shape), NEW region, WellRegion(region),
         region.id \notin DOMAIN plane.index
  PROVE  LET t == [plane EXCEPT !.regions[i] = region,
                                !.index = IndexWithout(plane, i, region.id)]
         IN  WellPlane(t, p) /\ IdsDiffer(t) /\ Replaced(t, plane, i, region)
<1> DEFINE n == DataSize(plane.shape)
           id == region.id
           old == plane.regions
           was == plane.index
           regions == [old EXCEPT ![i] = region]
           index == IndexWithout(plane, i, id)
           t == [plane EXCEPT !.regions[i] = region, !.index = index]
<1>1. /\ old = [j \in 1 .. n |-> old[j]] /\ WellRhombus(plane.shape)
      /\ plane.externalRadius \in Nat \ {0} /\ \A j \in 1 .. n : WellRegion(old[j])
      /\ plane.id = p
  BY DEF WellLaid, WellPlane
<1>2. /\ DOMAIN was = {old[j].id : j \in 1 .. n} /\ \A j \in 1 .. n : was[old[j].id] = j
      /\ id \notin DOMAIN was
  BY DEF WellPlane, Indexed
<1>3. \A j, k \in 1 .. n : old[j].id = old[k].id => j = k
  BY DEF IdsDiffer
<1>4. index = [other \in (DOMAIN was \ {old[i].id}) \cup {id} |->
                  IF other \in DOMAIN was \ {old[i].id} THEN was[other] ELSE i]
  BY DEF IndexWithout
<1>5. t = [id |-> plane.id, parent |-> plane.parent, shape |-> plane.shape,
           externalRadius |-> plane.externalRadius, regions |-> regions, index |-> index]
  <2>1. t = [plane EXCEPT !.regions = regions, !.index = index]
    OBVIOUS
  <2> HIDE DEF t, regions, index
  <2> QED BY <2>1 DEF WellPlane, WellLaid
<1>6. i \in 1 .. n
  OBVIOUS
<1> HIDE DEF t, index, old, was, id, n
<1>7. /\ regions = [j \in 1 .. n |-> regions[j]]
      /\ \A j \in 1 .. n : regions[j] = IF j = i THEN region ELSE old[j]
  BY <1>1, <1>6
<1> HIDE DEF regions
<1>8. /\ t.id = plane.id /\ t.shape = plane.shape /\ t.index = index
      /\ t.externalRadius = plane.externalRadius /\ t.regions = regions
  BY <1>5
<1>9. WellLaid(t)
  BY <1>1, <1>5, <1>7, <1>8 DEF WellLaid, n
<1>10. \A j \in 1 .. n : /\ j = i => regions[j].id = id
                         /\ j # i => regions[j].id = old[j].id /\ old[j].id # old[i].id
                                     /\ old[j].id \in DOMAIN was /\ old[j].id # id
  BY <1>2, <1>3, <1>6, <1>7 DEF id
<1>11. /\ DOMAIN index = {regions[j].id : j \in 1 .. n}
       /\ \A j \in 1 .. n : index[regions[j].id] = j
  <2>1. DOMAIN index = (DOMAIN was \ {old[i].id}) \cup {id}
    BY <1>4
  <2>2. {regions[j].id : j \in 1 .. n} \subseteq DOMAIN index
    BY <1>10, <2>1
  <2>3. ASSUME NEW x \in DOMAIN index PROVE x \in {regions[j].id : j \in 1 .. n}
    <3>1. CASE x = id
      BY <1>6, <1>10, <3>1
    <3>2. CASE x # id
      <4>1. x \in DOMAIN was /\ x # old[i].id
        BY <2>1, <3>2
      <4>2. PICK j \in 1 .. n : x = old[j].id
        BY <1>2, <4>1
      <4>3. x = regions[j].id
        BY <1>10, <4>1, <4>2
      <4> QED BY <4>3
    <3> QED BY <3>1, <3>2
  <2>4. ASSUME NEW j \in 1 .. n PROVE index[regions[j].id] = j
    <3>1. CASE j = i
      <4>1. regions[j].id = id /\ id \notin DOMAIN was
        BY <1>2, <1>10, <3>1
      <4> QED BY <1>4, <3>1, <4>1
    <3>2. CASE j # i
      <4>1. regions[j].id = old[j].id /\ old[j].id \in DOMAIN was \ {old[i].id}
            /\ was[old[j].id] = j
        BY <1>2, <1>10, <3>2
      <4> QED BY <1>4, <4>1
    <3> QED BY <3>1, <3>2
  <2> QED BY <2>2, <2>3, <2>4
<1>12. WellPlane(t, p)
  BY <1>1, <1>8, <1>9, <1>11 DEF WellPlane, Indexed, n
<1>13. IdsDiffer(t)
  BY <1>8, <1>3, <1>10 DEF IdsDiffer, n
<1> QED BY <1>7, <1>8, <1>12, <1>13 DEF Replaced, t, n, id, index, old

\* A region that is made lies where it was allocated.
RegionWithin(region, base, n) ==
    \A k \in 1 .. DataSize(region.shape) :
        /\ region.cells[k].address = base + k - 1
        /\ region.cells[k].address \in base .. base + n - 1

\* A region that is allocated is apart from the cells that are alive.
LEMMA ReplacedApart ==
  ASSUME NEW planes, NEW p \in DOMAIN planes, WellLaid(planes[p]), AddressesDiffer(planes[p]),
         NEW base \in Int, NEW n, CanAllocate(base, n, LiveAddresses(planes)),
         NEW region, RegionWithin(region, base, n), DataSize(region.shape) \in Nat,
         NEW i, NEW t, Replaced(t, planes[p], i, region)
  PROVE  /\ AddressesDiffer(t)
         /\ \A q \in DOMAIN planes : 
              WellLaid(planes[q]) /\ PlanesApart(planes[p], planes[q]) => PlanesApart(t, planes[q])
<1> DEFINE plane == planes[p]
           L == DataSize(plane.shape)
<1>0. /\ \A j \in 1 .. L : t.regions[j] = IF j = i THEN region ELSE plane.regions[j]
      /\ t.shape = plane.shape
  BY DEF Replaced
<1>1. \A q \in DOMAIN planes : WellLaid(planes[q]) =>
        \A j \in 1 .. DataSize(planes[q].shape) :
          \A k \in 1 .. DataSize(region.shape), l \in 1 .. DataSize(planes[q].regions[j].shape) :
            region.cells[k].address # planes[q].regions[j].cells[l].address
  <2> SUFFICES ASSUME NEW q \in DOMAIN planes, WellLaid(planes[q]),
                      NEW j \in 1 .. DataSize(planes[q].shape),
                      NEW k \in 1 .. DataSize(region.shape),
                      NEW l \in 1 .. DataSize(planes[q].regions[j].shape)
               PROVE  region.cells[k].address # planes[q].regions[j].cells[l].address
    OBVIOUS
  <2>1. planes[q].regions[j].cells[l].address \in LiveAddresses(planes)
    BY AddressesAreLive
  <2>2. region.cells[k].address \in base .. base + n - 1
    BY DEF RegionWithin
  <2> QED BY <2>1, <2>2 DEF CanAllocate
<1>2. \A j \in 1 .. L :
        \A k \in 1 .. DataSize(region.shape), l \in 1 .. DataSize(plane.regions[j].shape) :
          region.cells[k].address # plane.regions[j].cells[l].address
  BY <1>1
<1>3. \A k, l \in 1 .. DataSize(region.shape) :
        region.cells[k].address = region.cells[l].address => k = l
  <2> DEFINE size == DataSize(region.shape)
             At(k) == region.cells[k].address
  <2>1. \A k \in 1 .. size : At(k) = base + k - 1
    BY DEF RegionWithin
  <2> HIDE DEF At, size
  <2>2. ASSUME NEW k \in 1 .. size, NEW l \in 1 .. size, At(k) = At(l) PROVE k = l
    <3>1. base + k - 1 = base + l - 1 /\ k \in Int /\ l \in Int
      BY <2>1, <2>2
    <3> QED BY <3>1
  <2>3. \A k, l \in 1 .. size : At(k) = At(l) => k = l
    BY <2>2
  <2> QED BY <2>3 DEF At, size
<1>4. \A j, m \in 1 .. L :
        \A k \in 1 .. DataSize(plane.regions[j].shape),
           l \in 1 .. DataSize(plane.regions[m].shape) :
            plane.regions[j].cells[k].address = plane.regions[m].cells[l].address =>
                j = m /\ k = l
  BY DEF AddressesDiffer
<1> HIDE DEF plane, L
<1>5. ASSUME NEW j \in 1 .. L, NEW m \in 1 .. L,
             NEW k \in 1 .. DataSize(t.regions[j].shape),
             NEW l \in 1 .. DataSize(t.regions[m].shape),
             t.regions[j].cells[k].address = t.regions[m].cells[l].address
      PROVE  j = m /\ k = l
  <2>1. CASE j = i /\ m = i
    <3>1. t.regions[j] = region /\ t.regions[m] = region
      BY <1>0, <2>1
    <3> QED BY <1>3, <1>5, <2>1, <3>1
  <2>2. CASE j = i /\ m # i
    <3>1. t.regions[j] = region /\ t.regions[m] = plane.regions[m]
      BY <1>0, <2>2
    <3> QED BY <1>2, <1>5, <3>1
  <2>3. CASE j # i /\ m = i
    <3>1. t.regions[m] = region /\ t.regions[j] = plane.regions[j]
      BY <1>0, <2>3
    <3> QED BY <1>2, <1>5, <3>1
  <2>4. CASE j # i /\ m # i
    <3>1. t.regions[j] = plane.regions[j] /\ t.regions[m] = plane.regions[m]
      BY <1>0, <2>4
    <3> QED BY <1>4, <1>5, <3>1
  <2> QED BY <2>1, <2>2, <2>3, <2>4
<1>6. AddressesDiffer(t)
  BY <1>0, <1>5 DEF AddressesDiffer, L
<1>7. ASSUME NEW q \in DOMAIN planes, WellLaid(planes[q]), PlanesApart(plane, planes[q])
      PROVE  PlanesApart(t, planes[q])
  <2> SUFFICES ASSUME NEW j \in 1 .. L, NEW m \in 1 .. DataSize(planes[q].shape),
                      NEW k \in 1 .. DataSize(t.regions[j].shape),
                      NEW l \in 1 .. DataSize(planes[q].regions[m].shape)
               PROVE  t.regions[j].cells[k].address # planes[q].regions[m].cells[l].address
    BY <1>0 DEF PlanesApart, L
  <2>1. CASE j = i
    <3>1. t.regions[j] = region
      BY <1>0, <2>1
    <3> QED BY <1>1, <1>7, <3>1
  <2>2. CASE j # i
    <3>1. t.regions[j] = plane.regions[j]
      BY <1>0, <2>2
    <3> QED BY <1>7, <3>1 DEF PlanesApart, L
  <2> QED BY <2>1, <2>2
<1> QED BY <1>6, <1>7 DEF plane

-----------------------------------------------------------------------------
(* What is done to the planes of a world.                                  *)

\* AddPlane keeps ids and addresses apart.
LEMMA PlaneAdded ==
  ASSUME NEW planes, NEW n \in Nat, WellPlanes(planes, n), NEW id,
         NEW corners \in (Int \X Int) \X (Int \X Int), NEW radius \in Nat \ {0},
         NEW external \in Nat \ {0}, NEW nextId \in Nat, n <= nextId, NEW base \in Int,
         NEW plane, plane = NewPlane(id, corners, radius, external, nextId, base),
         CanAllocate(base, PlaneSize(plane), LiveAddresses(planes))
  PROVE  LET t == [plane EXCEPT !.parent = WorldScope]
             m == nextId + Len(plane.regions)
         IN  /\ m \in Nat /\ OwnScopes(t)
             /\ WellPlanes(PlanePut(planes, id, t), m)
<1> DEFINE t == [plane EXCEPT !.parent = WorldScope]
           L == DataSize(plane.shape)
           m == nextId + L
<1>1. /\ WellLaid(plane) /\ Indexed(plane) /\ plane.id = id
      /\ IdsDiffer(plane) /\ NumberedFrom(plane, nextId)
      /\ LaidFrom(plane, base) /\ OwnScopes(plane)
  BY NewPlaneIs
<1>2. L \in Nat /\ Len(plane.regions) = L
  BY <1>1, RegionSizes
<1>3. /\ AddressesDiffer(plane)
      /\ AddressesWithin(plane, base .. base + PlaneSize(plane) - 1)
  BY <1>1, LaidApart
<1>4. \A q \in DOMAIN planes : PlanesApart(plane, planes[q])
  BY <1>3, ApartFromNew DEF WellPlanes, WellPlane
<1>5. /\ WellLaid(t) /\ t.id = plane.id /\ t.shape = plane.shape /\ t.regions = plane.regions
      /\ t.index = plane.index
  BY <1>1, PlaneBelow
<1> HIDE DEF t
<1>6. SamePlane(t, plane)
  <2>1. \A i \in 1 .. L : WellRegion(plane.regions[i])
    BY <1>1 DEF WellLaid
  <2> QED BY <1>5, <2>1 DEF SamePlane, SameRegion
<1>7. WellPlane(plane, id)
  BY <1>1 DEF WellPlane
<1>8. /\ WellPlane(t, id) /\ IdsDiffer(t) /\ AddressesDiffer(t) /\ OwnScopes(t)
      /\ \A q \in DOMAIN planes : PlanesApart(t, planes[q])
  BY <1>1, <1>3, <1>4, <1>6, <1>7, SamePlaneKeeps
<1>9. \A i \in 1 .. DataSize(t.shape) :
          \E x \in nextId .. m - 1 : t.regions[i].id = <<"rgn", x>>
  <2>1. \A i \in 1 .. L : \E x \in nextId .. m - 1 : plane.regions[i].id = <<"rgn", x>>
    <3>1. \A i \in 1 .. L :
              \E x \in nextId .. nextId + L - 1 : plane.regions[i].id = <<"rgn", x>>
      BY <1>1 DEF NumberedFrom
    <3> TAKE i \in 1 .. L
    <3>2. PICK x \in nextId .. nextId + L - 1 : plane.regions[i].id = <<"rgn", x>>
      BY <3>1
    <3>3. x \in nextId .. m - 1
      BY <1>2, <3>2
    <3> QED BY <3>2, <3>3
  <2>2. DataSize(t.shape) = L
    BY <1>5
  <2> HIDE DEF L, m
  <2> QED BY <1>5, <2>1, <2>2
<1>10. m \in Nat /\ n <= m
  BY <1>2
<1>11. IdsBelow(t, m)
  <2> SUFFICES ASSUME NEW i \in 1 .. DataSize(t.shape), NEW y \in Nat,
                      t.regions[i].id = <<"rgn", y>>
               PROVE  y < m
    BY DEF IdsBelow
  <2>1. PICK x \in nextId .. m - 1 : t.regions[i].id = <<"rgn", x>>
    BY <1>9
  <2>2. x = y
    BY <2>1
  <2> QED BY <1>10, <2>1, <2>2
<1>12. ASSUME NEW q \in DOMAIN planes PROVE IdsOfPlanesDiffer(t, planes[q])
  <2> SUFFICES ASSUME NEW i \in 1 .. DataSize(t.shape), NEW j \in 1 .. DataSize(planes[q].shape),
                      t.regions[i].id = planes[q].regions[j].id
               PROVE  FALSE
    BY DEF IdsOfPlanesDiffer
  <2>1. PICK x \in nextId .. m - 1 : t.regions[i].id = <<"rgn", x>>
    BY <1>9
  <2>2. x \in Nat
    BY <1>10, <2>1
  <2>3. IdsBelow(planes[q], n)
    BY DEF WellPlanes, IdsGiven
  <2>4. x < n
    BY <2>1, <2>2, <2>3 DEF IdsBelow
  <2> QED BY <1>10, <2>1, <2>4
<1>13. WellPlanes(PlanePut(planes, id, t), m)
  BY <1>8, <1>10, <1>11, <1>12, PlanesAfterPut
<1> QED BY <1>2, <1>8, <1>10, <1>13 DEF t

\* A region that is not found is on no plane.
LEMMA IndexesAgree ==
  ASSUME NEW planes, NEW n, WellPlanes(planes, n), NEW id, RegionsFound(planes, id) = {},
         NEW p \in DOMAIN planes
  PROVE  /\ id \notin DOMAIN planes[p].index
         /\ \A i \in 1 .. DataSize(planes[p].shape) : planes[p].regions[i].id # id
<1>1. GetRegionById(planes[p], id) = {}
  BY DEF RegionsFound
<1>2. id \notin DOMAIN planes[p].index
  BY <1>1 DEF GetRegionById
<1>3. Indexed(planes[p])
  BY DEF WellPlanes, WellPlane
<1> QED BY <1>2, <1>3 DEF Indexed

\* SetRegion keeps ids and addresses apart.
LEMMA RegionSet ==
  ASSUME NEW planes, NEW n \in Nat, WellPlanes(planes, n), NEW p \in DOMAIN planes,
         NEW i \in 1 .. DataSize(planes[p].shape),
         NEW id, \A m \in Nat : id # <<"rgn", m>>, RegionsFound(planes, id) = {},
         NEW radius \in Int, NEW base \in Int,
         NEW region, region = NewRegion(id, radius, base),
         CanAllocate(base, Len(region.cells), LiveAddresses(planes))
  PROVE  LET t == [planes[p] EXCEPT !.regions[i] = region,
                                    !.index = IndexWithout(planes[p], i, id)]
         IN  /\ WellPlanes(PlanePut(planes, p, t), n)
             /\ OwnScopes(planes[p]) => OwnScopes(t)
<1> DEFINE plane == planes[p]
           t == [plane EXCEPT !.regions[i] = region, !.index = IndexWithout(plane, i, id)]
           L == DataSize(plane.shape)
<1>1. /\ WellPlane(plane, p) /\ WellLaid(plane) /\ AddressesDiffer(plane) /\ IdsBelow(plane, n)
      /\ \A q \in DOMAIN planes \ {p} : PlanesApart(plane, planes[q])
      /\ \A q \in DOMAIN planes : WellLaid(planes[q])
  BY DEF WellPlanes, WellPlane, IdsGiven, AddressesApart
<1>2. IdsDiffer(plane)
  BY DEF WellPlanes, IdsApart, IdsDiffer
<1>3. /\ WellRegion(region) /\ region.id = id /\ region.shape = Hexagon(radius)
      /\ \A k \in 1 .. DataSize(region.shape) :
            /\ region.cells[k].address = base + k - 1
            /\ region.cells[k].scope = CellScope(base + k - 1)
  BY SMTT(30), NewRegionIs
<1>4. DataSize(region.shape) \in Nat /\ Len(region.cells) = DataSize(region.shape)
  <2>1. DataSize(region.shape) \in Nat
    BY <1>3, SizesOfShape DEF WellRegion, WellShape
  <2>2. region.cells = [k \in 1 .. DataSize(region.shape) |-> region.cells[k]]
    BY <1>3 DEF WellRegion
  <2> QED BY <2>1, <2>2, LenOfList
<1>5. RegionWithin(region, base, DataSize(region.shape))
  BY <1>3, <1>4 DEF RegionWithin
<1>6. /\ id \notin DOMAIN plane.index
      /\ \A q \in DOMAIN planes : \A j \in 1 .. DataSize(planes[q].shape) :
            planes[q].regions[j].id # id
  BY IndexesAgree
<1>7. WellPlane(t, p) /\ IdsDiffer(t) /\ Replaced(t, plane, i, region)
  <2> DEFINE u == [plane EXCEPT !.regions[i] = region,
                                !.index = IndexWithout(plane, i, region.id)]
  <2>1. WellPlane(plane, p) /\ IdsDiffer(plane) /\ WellRegion(region)
        /\ region.id \notin DOMAIN plane.index /\ i \in 1 .. DataSize(plane.shape)
    BY <1>1, <1>2, <1>3, <1>6
  <2> HIDE DEF plane
  <2>2. WellPlane(u, p) /\ IdsDiffer(u) /\ Replaced(u, plane, i, region)
    BY <2>1, RegionReplaced
  <2>3. t = u
    BY <1>3
  <2> HIDE DEF t, u
  <2> QED BY <2>2, <2>3
<1> HIDE DEF t
<1>8. /\ t.shape = plane.shape
       /\ \A j \in 1 .. L : t.regions[j] = IF j = i THEN region ELSE plane.regions[j]
  BY <1>7 DEF Replaced
<1>9. /\ AddressesDiffer(t)
      /\ \A q \in DOMAIN planes :
            WellLaid(planes[q]) /\ PlanesApart(plane, planes[q]) => PlanesApart(t, planes[q])
  BY <1>1, <1>4, <1>5, <1>7, ReplacedApart
<1>10. \A j \in 1 .. L : t.regions[j].id = IF j = i THEN id ELSE plane.regions[j].id
  BY <1>3, <1>8
<1>11. IdsBelow(t, n)
  BY <1>1, <1>8, <1>10 DEF IdsBelow
<1>12. ASSUME NEW q \in DOMAIN planes \ {p} PROVE IdsOfPlanesDiffer(t, planes[q])
  <2>1. \A j \in 1 .. L, k \in 1 .. DataSize(planes[q].shape) :
            plane.regions[j].id # planes[q].regions[k].id
    BY DEF WellPlanes, IdsApart
  <2> QED BY <1>6, <1>10, <1>8, <2>1 DEF IdsOfPlanesDiffer
<1>13. WellPlanes(PlanePut(planes, p, t), n)
  <2>1. \A q \in DOMAIN planes \ {p} :
            IdsOfPlanesDiffer(t, planes[q]) /\ PlanesApart(t, planes[q])
    BY <1>1, <1>9, <1>12
  <2> QED BY <1>7, <1>9, <1>11, <2>1, PlanesAfterPut
<1>14. OwnScopes(plane) => OwnScopes(t)
  <2> SUFFICES ASSUME OwnScopes(plane), NEW j \in 1 .. L,
                      NEW k \in 1 .. DataSize(t.regions[j].shape)
               PROVE  t.regions[j].cells[k].scope = CellScope(t.regions[j].cells[k].address)
    BY <1>8 DEF OwnScopes
  <2>1. CASE j = i
    <3>1. t.regions[j] = region
      BY <1>8, <2>1
    <3> QED BY <1>3, <3>1
  <2>2. CASE j # i
    <3>1. t.regions[j] = plane.regions[j]
      BY <1>8, <2>2
    <3> QED BY <3>1 DEF OwnScopes
  <2> QED BY <2>1, <2>2
<1> QED BY <1>13, <1>14 DEF t

\* SetCityId changes nothing but the city.
LEMMA CitySet ==
  ASSUME NEW planes, NEW n \in Nat, WellPlanes(planes, n), NEW p \in DOMAIN planes, NEW t,
         SamePlane(t, planes[p])
  PROVE  /\ WellPlanes(PlanePut(planes, p, t), n)
         /\ OwnScopes(planes[p]) => OwnScopes(t)
         /\ ScopesDiffer(planes) => ScopesDiffer(PlanePut(planes, p, t))
<1> DEFINE plane == planes[p]
           put == PlanePut(planes, p, t)
<1>1. /\ WellPlane(plane, p) /\ AddressesDiffer(plane) /\ IdsBelow(plane, n)
      /\ \A q \in DOMAIN planes \ {p} : PlanesApart(plane, planes[q])
  BY DEF WellPlanes, IdsGiven, AddressesApart
<1>2. IdsDiffer(plane) /\ \A q \in DOMAIN planes \ {p} : IdsOfPlanesDiffer(plane, planes[q])
  BY DEF WellPlanes, IdsApart, IdsDiffer, IdsOfPlanesDiffer
<1>3. /\ WellPlane(t, p) /\ IdsDiffer(t) /\ IdsBelow(t, n) /\ AddressesDiffer(t)
      /\ \A q \in DOMAIN planes \ {p} :
            IdsOfPlanesDiffer(t, planes[q]) /\ PlanesApart(t, planes[q])
      /\ OwnScopes(plane) => OwnScopes(t)
  BY <1>1, <1>2, SamePlaneKeeps
<1>4. WellPlanes(put, n)
  BY <1>3, PlanesAfterPut
<1>5. /\ DOMAIN put = DOMAIN planes
      /\ \A q \in DOMAIN planes : put[q] = IF q = p THEN t ELSE planes[q]
  BY DEF PlanePut
<1> HIDE DEF put
<1>6. /\ t.shape = plane.shape
      /\ \A i \in 1 .. DataSize(plane.shape) : /\ t.regions[i].shape = plane.regions[i].shape
                                               /\ t.regions[i].cells = plane.regions[i].cells
  BY DEF SamePlane, SameRegion
<1>7. \A q \in DOMAIN planes :
          /\ put[q].shape = planes[q].shape
          /\ \A i \in 1 .. DataSize(planes[q].shape) :
                /\ put[q].regions[i].shape = planes[q].regions[i].shape
                /\ put[q].regions[i].cells = planes[q].regions[i].cells
  <2> TAKE q \in DOMAIN planes
  <2>1. CASE q = p
    BY <1>5, <1>6, <2>1
  <2>2. CASE q # p
    BY <1>5, <2>2
  <2> QED BY <2>1, <2>2
<1>8. ScopesDiffer(planes) => ScopesDiffer(put)
  <2> SUFFICES ASSUME ScopesDiffer(planes),
                      NEW a \in DOMAIN put, NEW b \in DOMAIN put,
                      NEW i \in 1 .. DataSize(put[a].shape),
                      NEW j \in 1 .. DataSize(put[b].shape),
                      NEW k \in Inside(put[a].regions[i].shape),
                      NEW l \in Inside(put[b].regions[j].shape),
                      put[a].regions[i].cells[k].scope = put[b].regions[j].cells[l].scope
               PROVE  a = b /\ i = j /\ k = l
    BY DEF ScopesDiffer
  <2>1. /\ a \in DOMAIN planes /\ i \in 1 .. DataSize(planes[a].shape)
        /\ k \in Inside(planes[a].regions[i].shape)
        /\ put[a].regions[i].cells = planes[a].regions[i].cells
    BY <1>5, <1>7
  <2>2. /\ b \in DOMAIN planes /\ j \in 1 .. DataSize(planes[b].shape)
        /\ l \in Inside(planes[b].regions[j].shape)
        /\ put[b].regions[j].cells = planes[b].regions[j].cells
    BY <1>5, <1>7
  <2> QED BY <2>1, <2>2 DEF ScopesDiffer
<1> QED BY <1>3, <1>4, <1>8 DEF put

\* Cells that have the scopes of their addresses have scopes of their own.
LEMMA OwnScopesDiffer ==
  ASSUME NEW planes, NEW n, WellPlanes(planes, n), \A p \in DOMAIN planes : OwnScopes(planes[p])
  PROVE  ScopesDiffer(planes)
<1> SUFFICES ASSUME NEW p \in DOMAIN planes, NEW q \in DOMAIN planes,
                    NEW i \in 1 .. DataSize(planes[p].shape),
                    NEW j \in 1 .. DataSize(planes[q].shape),
                    NEW k \in Inside(planes[p].regions[i].shape),
                    NEW l \in Inside(planes[q].regions[j].shape),
                    planes[p].regions[i].cells[k].scope = planes[q].regions[j].cells[l].scope
             PROVE  p = q /\ i = j /\ k = l
  BY DEF ScopesDiffer
<1>1. WellLaid(planes[p]) /\ WellLaid(planes[q])
  BY DEF WellPlanes, WellPlane
<1>2. WellShape(planes[p].regions[i].shape) /\ WellShape(planes[q].regions[j].shape)
  BY <1>1, RegionSizes
<1>3. /\ k \in 1 .. DataSize(planes[p].regions[i].shape)
      /\ l \in 1 .. DataSize(planes[q].regions[j].shape)
  BY <1>2, InsideFits
<1>4. CellScope(planes[p].regions[i].cells[k].address)
         = CellScope(planes[q].regions[j].cells[l].address)
  BY <1>3 DEF OwnScopes
<1>5. planes[p].regions[i].cells[k].address = planes[q].regions[j].cells[l].address
  BY <1>4 DEF CellScope
<1>6. AddressesDiffer(planes[p]) /\ (p # q => PlanesApart(planes[p], planes[q]))
  BY DEF WellPlanes, AddressesApart
<1>7. p = q
  BY <1>3, <1>5, <1>6 DEF PlanesApart
<1> QED BY <1>3, <1>5, <1>6, <1>7 DEF AddressesDiffer

-----------------------------------------------------------------------------
(* A map is saved, and loaded.                                             *)

\* Ids are apart in the save exactly if they are in the planes.
LEMMA ResemblingIds ==
  ASSUME NEW planes, NEW protos, Resemble(planes, protos), NEW n
  PROVE  /\ IdsApart(planes) <=> IdsApart(protos)
         /\ IdsGiven(planes, n) <=> IdsGiven(protos, n)
<1>1. /\ DOMAIN planes = DOMAIN protos
      /\ \A p \in DOMAIN protos : planes[p].shape = protos[p].shape
      /\ \A p \in DOMAIN protos : \A i \in 1 .. DataSize(protos[p].shape) :
            planes[p].regions[i].id = protos[p].regions[i].id
  BY DEF Resemble, PlaneResembles, RegionResembles
<1>2. IdsApart(planes) <=> IdsApart(protos)
  BY <1>1 DEF IdsApart
<1>3. \A p \in DOMAIN protos : IdsBelow(planes[p], n) <=> IdsBelow(protos[p], n)
  BY <1>1 DEF IdsBelow
<1> QED BY <1>1, <1>2, <1>3 DEF IdsGiven

\* What Save writes of a world without duplicates can be loaded.
LEMMA SaveIsWell ==
  ASSUME NEW w, w.nextId \in Nat, WellPlanes(w.planes, w.nextId), ScopesDiffer(w.planes)
  PROVE  WellSave([scopes |-> VisitedScopes(w.planes), nextId |-> w.nextId,
                   planes |-> Protos(w.planes), view |-> View(w)])
<1> DEFINE planes == w.planes
           protos == Protos(planes)
           scopes == VisitedScopes(planes)
           s == [scopes |-> scopes, nextId |-> w.nextId, planes |-> protos, view |-> View(w)]
<1>1. /\ AllLaid(planes) /\ IsFiniteSet(DOMAIN planes) /\ IdsApart(planes)
      /\ IdsGiven(planes, w.nextId) /\ \A p \in DOMAIN planes : planes[p].id = p
  BY DEF WellPlanes, WellPlane, AllLaid
<1>2. /\ Resemble(planes, protos) /\ DOMAIN protos = DOMAIN planes
      /\ \A p \in DOMAIN planes : WellSavedPlane(protos[p]) /\ protos[p].id = p
  BY <1>1, ProtosResemble DEF Resemble
<1> HIDE DEF protos
<1>3. IdsApart(protos) /\ IdsGiven(protos, w.nextId)
  BY <1>1, <1>2, ResemblingIds
<1>4. SavedScopesDiffer(protos)
  BY <1>2, SavedScopesAre
<1>5. ScopesAmong(protos, scopes)
  <2> SUFFICES ASSUME NEW p \in DOMAIN protos, NEW i \in 1 .. DataSize(protos[p].shape),
                      NEW k \in Inside(protos[p].regions[i].shape)
               PROVE  protos[p].regions[i].cells[k] \in scopes
    BY DEF ScopesAmong
  <2>1. PlaneResembles(planes[p], protos[p]) /\ p \in DOMAIN planes
    BY <1>2 DEF Resemble
  <2>2. /\ planes[p].shape = protos[p].shape
        /\ RegionResembles(planes[p].regions[i], protos[p].regions[i])
    BY <2>1 DEF PlaneResembles
  <2>3. /\ planes[p].regions[i].shape = protos[p].regions[i].shape
        /\ planes[p].regions[i].cells[k].scope = protos[p].regions[i].cells[k]
    BY <2>2 DEF RegionResembles
  <2>4. planes[p].regions[i].cells[k] \in VisitedCells(planes)
    BY <1>1, <2>1, <2>2, <2>3, VisitedCellsAre
  <2>5. planes[p].regions[i].cells[k].scope \in scopes
    BY <2>4 DEF VisitedScopes
  <2> QED BY <2>3, <2>5
<1>6. View(w) = ViewOfSave(w.nextId, protos)
  BY <1>1, <1>2, Views
<1> HIDE DEF scopes
<1>7. s.scopes = scopes /\ s.nextId = w.nextId /\ s.planes = protos /\ s.view = View(w)
  OBVIOUS
<1> HIDE DEF s
<1>8. WellSave(s)
  BY <1>1, <1>2, <1>3, <1>4, <1>5, <1>6, <1>7 DEF WellSave
<1> QED BY <1>8 DEF s, scopes, protos

\* A plane that is loaded has what was saved.
LEMMA FromResembles ==
  ASSUME NEW plane, NEW proto, NEW scopes, PlaneFrom(plane, proto, scopes),
         WellSavedPlane(proto),
         \A i \in 1 .. DataSize(proto.shape) : \A k \in Inside(proto.regions[i].shape) :
            proto.regions[i].cells[k] \in scopes
  PROVE  PlaneResembles(plane, proto)
<1>1. plane.shape = proto.shape /\ plane.externalRadius = proto.externalRadius
  BY DEF PlaneFrom
<1>2. ASSUME NEW i \in 1 .. DataSize(proto.shape)
      PROVE  RegionResembles(plane.regions[i], proto.regions[i])
  <2> DEFINE region == plane.regions[i]
             was == proto.regions[i]
  <2>1. /\ region.id = was.id /\ region.cityId = was.cityId /\ region.shape = was.shape
        /\ \A k \in 1 .. DataSize(was.shape) :
              region.cells[k].scope = LoadedScope(was.cells[k], scopes, region.cells[k].address)
    BY DEF PlaneFrom, RegionFrom
  <2>2. \A k \in Inside(was.shape) : k \in 1 .. DataSize(was.shape) /\ was.cells[k] \in scopes
    <3>1. WellShape(was.shape)
      BY SavedSizes
    <3> QED BY <3>1, InsideFits
  <2> QED BY <2>1, <2>2 DEF RegionResembles, LoadedScope
<1> QED BY <1>1, <1>2 DEF PlaneResembles

\* Two blocks of memory are apart if neither begins in the other.
LEMMA IntervalsApart ==
  ASSUME NEW a \in Int, NEW b \in Int, NEW m \in Nat, NEW n \in Nat,
         a \notin b .. b + n - 1, b \notin a .. a + m - 1
  PROVE  (a .. a + m - 1) \cap (b .. b + n - 1) = {}
  OBVIOUS

\* Planes in blocks that are apart are apart.
LEMMA WithinApart ==
  ASSUME NEW plane, NEW other, NEW A, NEW B, AddressesWithin(plane, A), AddressesWithin(other, B),
         A \cap B = {}
  PROVE  PlanesApart(plane, other)
  BY DEF PlanesApart, AddressesWithin

\* Each plane begins where no other has its memory.
BasesApart(protos, bases) ==
    \A p \in DOMAIN protos :
        /\ bases[p] \in Int
        /\ \A q \in DOMAIN protos \ {p} :
              bases[q] \notin (bases[p])..(bases[p] + PlaneSize(protos[p]) - 1)

\* What is loaded is a world again, with the scopes of the save.
LEMMA LoadIsWell ==
  ASSUME NEW s, WellSave(s), NEW bases, BasesApart(s.planes, bases),
         NEW planes, planes = [id \in DOMAIN s.planes |->
                                  LoadPlane(s.planes[id], s.scopes, bases[id])]
  PROVE  /\ WellPlanes(planes, s.nextId) /\ ScopesDiffer(planes)
         /\ Resemble(planes, s.planes)
         /\ \A p \in DOMAIN s.planes : PlaneFrom(planes[p], s.planes[p], s.scopes)
<1> DEFINE protos == s.planes
           From(p) == bases[p] .. bases[p] + PlaneSize(protos[p]) - 1
<1>1. /\ IsFiniteSet(DOMAIN protos)
      /\ \A p \in DOMAIN protos : WellSavedPlane(protos[p]) /\ protos[p].id = p
      /\ IdsApart(protos) /\ IdsGiven(protos, s.nextId)
      /\ SavedScopesDiffer(protos) /\ ScopesAmong(protos, s.scopes)
  BY DEF WellSave
<1>2. /\ DOMAIN planes = DOMAIN protos /\ planes = [p \in DOMAIN planes |-> planes[p]]
      /\ \A p \in DOMAIN protos : planes[p] = LoadPlane(protos[p], s.scopes, bases[p])
  OBVIOUS
<1>3. ASSUME NEW p \in DOMAIN protos
      PROVE  /\ WellLaid(planes[p]) /\ Indexed(planes[p])
             /\ PlaneFrom(planes[p], protos[p], s.scopes)
             /\ bases[p] \in Int /\ PlaneSize(protos[p]) \in Nat
             /\ AddressesDiffer(planes[p]) /\ AddressesWithin(planes[p], From(p))
             /\ PlaneResembles(planes[p], protos[p])
  <2> DEFINE t == LoadPlane(protos[p], s.scopes, bases[p])
  <2>1. IdsDiffer(protos[p])
    BY <1>1 DEF IdsApart, IdsDiffer
  <2>2. bases[p] \in Int
    BY DEF BasesApart
  <2>3. /\ WellLaid(t) /\ Indexed(t) /\ PlaneFrom(t, protos[p], s.scopes)
        /\ LaidFrom(t, bases[p]) /\ PlaneSize(t) = PlaneSize(protos[p])
    BY <1>1, <2>1, <2>2, LoadedPlaneIs
  <2>4. t = planes[p]
    BY <1>2
  <2> HIDE DEF t
  <2>5. /\ PlaneSize(t) \in Nat /\ AddressesDiffer(t)
        /\ AddressesWithin(t, bases[p] .. bases[p] + PlaneSize(t) - 1)
    BY <2>2, <2>3, LaidApart
  <2>6. PlaneResembles(t, protos[p])
    <3>1. \A i \in 1 .. DataSize(protos[p].shape) :
              \A k \in Inside(protos[p].regions[i].shape) :
                  protos[p].regions[i].cells[k] \in s.scopes
      BY <1>1 DEF ScopesAmong
    <3> QED BY <1>1, <2>3, <3>1, FromResembles
  <2> QED BY <2>2, <2>3, <2>4, <2>5, <2>6
<1>4. Resemble(planes, protos)
  BY <1>2, <1>3 DEF Resemble
<1>5. IdsApart(planes) /\ IdsGiven(planes, s.nextId)
  BY <1>1, <1>4, ResemblingIds
<1>6. ScopesDiffer(planes)
  BY <1>1, <1>4, SavedScopesAre
<1>7. AddressesApart(planes)
  <2>1. ASSUME NEW p \in DOMAIN protos, NEW q \in DOMAIN protos \ {p}
        PROVE  PlanesApart(planes[p], planes[q])
    <3>1. From(p) \cap From(q) = {}
      <4>1. bases[q] \notin From(p) /\ bases[p] \notin From(q)
        BY DEF BasesApart
      <4>2. /\ bases[p] \in Int /\ bases[q] \in Int
            /\ PlaneSize(protos[p]) \in Nat /\ PlaneSize(protos[q]) \in Nat
        BY <1>3
      <4> DEFINE a == bases[p]
                 b == bases[q]
                 m == PlaneSize(protos[p])
                 k == PlaneSize(protos[q])
      <4>3. /\ a \in Int /\ b \in Int /\ m \in Nat /\ k \in Nat
            /\ a \notin b .. b + k - 1 /\ b \notin a .. a + m - 1
        BY <4>1, <4>2
      <4> HIDE DEF a, b, m, k
      <4>4. (a .. a + m - 1) \cap (b .. b + k - 1) = {}
        BY <4>3, IntervalsApart
      <4> QED BY <4>4 DEF a, b, m, k
    <3>2. AddressesWithin(planes[p], From(p)) /\ AddressesWithin(planes[q], From(q))
      BY <1>3
    <3> HIDE DEF From
    <3> QED BY <3>1, <3>2, WithinApart
  <2> QED BY <1>2, <1>3, <2>1 DEF AddressesApart
<1>8. \A p \in DOMAIN planes : WellPlane(planes[p], p)
  BY <1>1, <1>2, <1>3 DEF WellPlane, PlaneFrom
<1> QED BY <1>1, <1>2, <1>3, <1>4, <1>5, <1>6, <1>7, <1>8 DEF WellPlanes

-----------------------------------------------------------------------------
(* The invariant.                                                          *)

\* No region is given an id of the form the world gives ids of its own.
ForeignRegionIds == \A id \in RegionIds, n \in Nat : id # <<"rgn", n>>

\* The invariant: a world of planes that are apart, where cells have scopes of their own
\* unless it grew after a load, and a save that can be loaded.
MapInv ==
    /\ world = [nextId |-> world.nextId, planes |-> world.planes]
    /\ world.nextId \in Nat
    /\ WellPlanes(world.planes, world.nextId)
    /\ loaded \in BOOLEAN /\ extended \in BOOLEAN /\ restored \in BOOLEAN
    /\ ~loaded => \A p \in DOMAIN world.planes : OwnScopes(world.planes[p])
    /\ ~extended => ScopesDiffer(world.planes)
    /\ saved # NotSaved => WellSave(saved)
    /\ MapRestored

\* A world without planes satisfies the invariant.
LEMMA MapInitially ==
  ASSUME Init
  PROVE  MapInv
<1>1. /\ world = [nextId |-> 0, planes |-> NoPlanes] /\ saved = NotSaved
      /\ loaded = FALSE /\ extended = FALSE /\ restored = FALSE
  BY DEF Init
<1>2. DOMAIN NoPlanes = {} /\ NoPlanes = [id \in DOMAIN NoPlanes |-> NoPlanes[id]]
  BY DEF NoPlanes
<1>3. WellPlanes(NoPlanes, 0)
  BY <1>2, FS_EmptySet DEF WellPlanes, IdsApart, IdsGiven, AddressesApart
<1>4. ScopesDiffer(NoPlanes)
  BY <1>2 DEF ScopesDiffer
<1>5. world.nextId = 0 /\ world.planes = NoPlanes
  BY <1>1
<1> QED BY <1>1, <1>2, <1>3, <1>4, <1>5 DEF MapInv, MapRestored

\* AddPlane keeps the invariant: new regions have new numbers and new addresses.
LEMMA AddPlaneKeeps ==
  ASSUME MapInv, NEW plan \in Plans, NEW base \in Bases, AddPlane(plan, base)
  PROVE  MapInv'
<1> DEFINE planes == world.planes
           id == IF plan.id = Null THEN <<"plane", world.nextId>> ELSE plan.id
           nextId == IF plan.id = Null THEN world.nextId + 1 ELSE world.nextId
           radius == EffectiveRadius(plan.radius)
           external == EffectiveExternal(plan.external, radius)
           plane == NewPlane(id, plan.corners, radius, external, nextId, base)
           t == [plane EXCEPT !.parent = WorldScope]
           m == nextId + Len(plane.regions)
           put == PlanePut(planes, id, t)
<1>1. /\ world.nextId \in Nat /\ WellPlanes(planes, world.nextId)
      /\ loaded \in BOOLEAN /\ extended \in BOOLEAN
      /\ ~loaded => \A p \in DOMAIN planes : OwnScopes(planes[p])
      /\ saved # NotSaved => WellSave(saved)
  BY DEF MapInv
<1>2. /\ CanAllocate(base, PlaneSize(plane), LiveAddresses(planes))
      /\ world' = [nextId |-> m, planes |-> put]
      /\ extended' = (extended \/ loaded) /\ restored' = FALSE
      /\ saved' = saved /\ loaded' = loaded
  BY DEF AddPlane, PlanePut
<1>3. /\ plan.corners \in (Int \X Int) \X (Int \X Int) /\ base \in Int
      /\ radius \in Nat \ {0} /\ external \in Nat \ {0}
      /\ nextId \in Nat /\ world.nextId <= nextId
  <2>1. plan.radius \in Int /\ plan.external \in Int
        /\ plan.corners \in (Int \X Int) \X (Int \X Int) /\ base \in Int
    BY PlansAssumption, BasesAssumption
  <2>2. radius \in Nat \ {0}
    BY <2>1 DEF EffectiveRadius
  <2> HIDE DEF radius
  <2>3. external \in Nat \ {0}
    BY <2>1, <2>2 DEF EffectiveExternal
  <2>4. nextId \in Nat /\ world.nextId <= nextId
    BY <1>1
  <2> QED BY <2>1, <2>2, <2>3, <2>4
<1> HIDE DEF id, nextId, radius, external
<1>4. /\ m \in Nat /\ OwnScopes(t) /\ WellPlanes(put, m)
  <2> DEFINE corners == plan.corners
  <2>1. /\ WellPlanes(planes, world.nextId) /\ corners \in (Int \X Int) \X (Int \X Int)
        /\ plane = NewPlane(id, corners, radius, external, nextId, base)
        /\ CanAllocate(base, PlaneSize(plane), LiveAddresses(planes))
    BY <1>1, <1>2, <1>3
  <2> HIDE DEF plane, corners, planes
  <2> QED BY <1>1, <1>3, <2>1, PlaneAdded
<1>5. /\ world'.nextId = m /\ world'.planes = put
      /\ world' = [nextId |-> world'.nextId, planes |-> world'.planes]
  BY <1>2
<1> HIDE DEF t, m, plane
<1>6. ~loaded => \A p \in DOMAIN put : OwnScopes(put[p])
  <2>1. /\ DOMAIN put = DOMAIN planes \cup {id}
        /\ \A p \in DOMAIN put : put[p] = IF p = id THEN t ELSE planes[p]
    BY DEF PlanePut
  <2> HIDE DEF put
  <2> SUFFICES ASSUME ~loaded, NEW p \in DOMAIN put PROVE OwnScopes(put[p])
    OBVIOUS
  <2>2. CASE p = id
    BY <1>4, <2>1, <2>2
  <2>3. CASE p # id
    BY <1>1, <2>1, <2>3
  <2> QED BY <2>2, <2>3
<1> HIDE DEF put, planes
<1>7. ~extended' => ScopesDiffer(put)
  BY <1>1, <1>2, <1>4, <1>6, OwnScopesDiffer
<1> QED BY <1>1, <1>2, <1>4, <1>5, <1>6, <1>7 DEF MapInv, MapRestored

\* The element a place of a plane has.
LEMMA PlaceInPlane ==
  ASSUME NEW plane, WellLaid(plane), NEW place \in PlacesOf(plane)
  PROVE  GetCell(plane.shape, place) \in 1 .. DataSize(plane.shape)
<1>1. WellRhombus(plane.shape) /\ WellShape(plane.shape)
  BY DEF WellLaid, WellShape
<1>2. place \in Places(plane.shape)
  BY <1>1, ElementsInside DEF PlacesOf
<1> QED BY <1>1, <1>2, ElementInShape

\* SetRegion keeps the invariant: the id is new, and so are the addresses.
LEMMA SetRegionKeeps ==
  ASSUME MapInv, ForeignRegionIds, NEW p \in DOMAIN world.planes,
         NEW place \in PlacesOf(world.planes[p]), NEW id \in RegionIds, NEW base \in Bases,
         SetRegion(p, place, id, 1, base)
  PROVE  MapInv'
<1> DEFINE planes == world.planes
           n == world.nextId
           i == GetCell(planes[p].shape, place)
           region == NewRegion(id, 1, base)
           t == [planes[p] EXCEPT !.regions[i] = region,
                                  !.index = IndexWithout(planes[p], i, id)]
           put == PlanePut(planes, p, t)
<1>1. /\ world = [nextId |-> n, planes |-> planes]
      /\ n \in Nat /\ WellPlanes(planes, n)
      /\ loaded \in BOOLEAN /\ extended \in BOOLEAN
      /\ ~loaded => \A q \in DOMAIN planes : OwnScopes(planes[q])
      /\ saved # NotSaved => WellSave(saved)
      /\ planes = [q \in DOMAIN planes |-> planes[q]] /\ WellLaid(planes[p])
  BY DEF MapInv, WellPlanes, WellPlane
<1>2. /\ RegionsFound(planes, id) = {}
      /\ CanAllocate(base, Len(region.cells), LiveAddresses(planes))
      /\ world' = [world EXCEPT !.planes[p] = t]
      /\ extended' = (extended \/ loaded) /\ restored' = FALSE
      /\ saved' = saved /\ loaded' = loaded
  BY DEF SetRegion
<1>3. /\ i \in 1 .. DataSize(planes[p].shape) /\ \A k \in Nat : id # <<"rgn", k>>
      /\ base \in Int
  BY <1>1, PlaceInPlane, BasesAssumption DEF ForeignRegionIds
<1>4. WellPlanes(put, n) /\ (OwnScopes(planes[p]) => OwnScopes(t))
  <2>1. /\ WellPlanes(planes, n) /\ p \in DOMAIN planes /\ 1 \in Int
        /\ RegionsFound(planes, id) = {}
        /\ CanAllocate(base, Len(region.cells), LiveAddresses(planes))
        /\ region = NewRegion(id, 1, base)
    BY <1>1, <1>2
  <2> HIDE DEF region, planes, i, n
  <2> QED BY <1>1, <1>3, <2>1, RegionSet
<1> HIDE DEF t, i
<1>5. world' = [nextId |-> n, planes |-> put]
  <2>1. /\ world' = [world EXCEPT !.planes[p] = t]
        /\ world = [nextId |-> world.nextId, planes |-> world.planes]
        /\ world.planes = [q \in DOMAIN world.planes |-> world.planes[q]]
    BY <1>1, <1>2
  <2> QED BY <2>1, WorldPut
<1>6. /\ world'.nextId = n /\ world'.planes = put
      /\ world' = [nextId |-> world'.nextId, planes |-> world'.planes]
  BY <1>5
<1>7. ~loaded => \A q \in DOMAIN put : OwnScopes(put[q])
  <2>1. /\ DOMAIN put = DOMAIN planes
        /\ \A q \in DOMAIN put : put[q] = IF q = p THEN t ELSE planes[q]
    BY DEF PlanePut
  <2> HIDE DEF put
  <2> SUFFICES ASSUME ~loaded, NEW q \in DOMAIN put PROVE OwnScopes(put[q])
    OBVIOUS
  <2>2. CASE q = p
    BY <1>1, <1>4, <2>1, <2>2
  <2>3. CASE q # p
    BY <1>1, <2>1, <2>3
  <2> QED BY <2>2, <2>3
<1> HIDE DEF put, planes, n
<1>8. ~extended' => ScopesDiffer(put)
  BY <1>1, <1>2, <1>4, <1>7, OwnScopesDiffer
<1> QED BY <1>1, <1>2, <1>4, <1>6, <1>7, <1>8 DEF MapInv, MapRestored

\* SetCityId keeps the invariant: ids, addresses and scopes stay.
LEMMA SetCityIdKeeps ==
  ASSUME MapInv, NEW p \in DOMAIN world.planes,
         NEW place \in PlacesOf(world.planes[p]), NEW city, SetCityId(p, place, city)
  PROVE  MapInv'
<1> DEFINE planes == world.planes
           n == world.nextId
           i == GetCell(planes[p].shape, place)
           t == [planes[p] EXCEPT !.regions = [planes[p].regions EXCEPT
                    ![i] = [planes[p].regions[i] EXCEPT !.cityId = city]]]
           put == PlanePut(planes, p, t)
<1>1. /\ world = [nextId |-> n, planes |-> planes]
      /\ n \in Nat /\ WellPlanes(planes, n)
      /\ loaded \in BOOLEAN /\ extended \in BOOLEAN
      /\ ~loaded => \A q \in DOMAIN planes : OwnScopes(planes[q])
      /\ ~extended => ScopesDiffer(planes)
      /\ saved # NotSaved => WellSave(saved)
      /\ planes = [q \in DOMAIN planes |-> planes[q]] /\ WellLaid(planes[p])
  BY DEF MapInv, WellPlanes, WellPlane
<1>2. /\ world' = [world EXCEPT !.planes[p].regions[i].cityId = city]
      /\ restored' = FALSE /\ extended' = extended /\ saved' = saved /\ loaded' = loaded
  BY DEF SetCityId
<1>3. world' = [world EXCEPT !.planes[p] = t]
  BY <1>1, <1>2, WorldDeepPut
<1>4. SamePlane(t, planes[p])
  BY <1>1, CityGiven
<1> HIDE DEF t
<1>5. world' = [nextId |-> n, planes |-> put]
  BY <1>1, <1>3, WorldPut
<1>6. /\ world'.nextId = n /\ world'.planes = put
      /\ world' = [nextId |-> world'.nextId, planes |-> world'.planes]
  BY <1>5
<1>7. /\ WellPlanes(put, n) /\ (OwnScopes(planes[p]) => OwnScopes(t))
      /\ ScopesDiffer(planes) => ScopesDiffer(put)
  BY <1>1, <1>4, CitySet
<1>8. ~loaded => \A q \in DOMAIN put : OwnScopes(put[q])
  <2>1. /\ DOMAIN put = DOMAIN planes
        /\ \A q \in DOMAIN put : put[q] = IF q = p THEN t ELSE planes[q]
    BY DEF PlanePut
  <2> HIDE DEF put
  <2> SUFFICES ASSUME ~loaded, NEW q \in DOMAIN put PROVE OwnScopes(put[q])
    OBVIOUS
  <2>2. CASE q = p
    BY <1>1, <1>7, <2>1, <2>2
  <2>3. CASE q # p
    BY <1>1, <2>1, <2>3
  <2> QED BY <2>2, <2>3
<1> HIDE DEF put, planes, n
<1> QED BY <1>1, <1>2, <1>6, <1>7, <1>8 DEF MapInv, MapRestored

\* Save keeps the invariant: the save is one that can be loaded.
LEMMA SaveKeeps ==
  ASSUME MapInv, Save
  PROVE  MapInv'
<1>1. /\ world' = world /\ loaded' = loaded /\ extended' = extended /\ restored' = FALSE
      /\ NoDuplicates(world.planes)
      /\ saved' = [scopes |-> VisitedScopes(world.planes), nextId |-> world.nextId,
                   planes |-> Protos(world.planes), view |-> View(world)]
  BY DEF Save, Protos
<1>2. ScopesDiffer(world.planes)
  BY <1>1, DuplicatesAre DEF MapInv
<1>3. WellSave(saved')
  BY <1>1, <1>2, SaveIsWell DEF MapInv
<1> QED BY <1>1, <1>3 DEF MapInv, MapRestored

\* What is loaded is below what it was loaded into.
LEMMA LoadedParents ==
  ASSUME NEW plane, WellLaid(plane), NEW proto, NEW scopes, PlaneFrom(plane, proto, scopes)
  PROVE  /\ plane.parent = WorldScope
         /\ \A place \in PlacesOf(plane) :
               LET region == RegionAt(plane, place)
               IN  /\ region.parent = PlaneScope(proto.id)
                   /\ \A cell \in Places(region.shape) :
                         CellAt(region, cell).parent = RegionScope(region.id)
<1>1. plane.parent = WorldScope /\ plane.shape = proto.shape
  BY DEF PlaneFrom
<1>2. ASSUME NEW i \in 1 .. DataSize(plane.shape)
      PROVE  plane.regions[i].parent = PlaneScope(proto.id) /\ Parented(plane.regions[i])
  BY <1>1 DEF PlaneFrom, RegionFrom
<1>3. \A place \in PlacesOf(plane) : GetCell(plane.shape, place) \in 1 .. DataSize(plane.shape)
  BY PlaceInPlane
<1> QED BY <1>1, <1>2, <1>3 DEF RegionAt, Parented

\* Load establishes the invariant again from the save.
LEMMA LoadKeeps ==
  ASSUME MapInv, NEW bases \in [DOMAIN saved.planes -> Bases], Load(bases)
  PROVE  MapInv'
<1> DEFINE protos == saved.planes
           planes == [p \in DOMAIN protos |-> LoadPlane(protos[p], saved.scopes, bases[p])]
<1>1. /\ saved # NotSaved /\ WellSave(saved)
      /\ world' = [nextId |-> saved.nextId, planes |-> planes]
      /\ loaded' = TRUE /\ extended' = FALSE /\ restored' = TRUE /\ saved' = saved
  BY DEF MapInv, Load
<1>2. BasesApart(protos, bases)
  <2>1. ASSUME NEW p \in DOMAIN protos PROVE bases[p] \in Int
    <3>1. bases[p] \in Bases
      OBVIOUS
    <3>2. \A base \in Bases : base \in Int
      BY BasesAssumption
    <3> QED BY <3>1, <3>2
  <2>2. PICK live \in {{}, LiveAddresses(world.planes)} :
            \A p \in DOMAIN protos :
                LET used == (bases[p])..(bases[p] + PlaneSize(protos[p]) - 1)
                IN  /\ used \cap live = {}
                    /\ \A q \in DOMAIN protos \ {p} : bases[q] \notin used
    BY DEF Load
  <2> QED BY <2>1, <2>2 DEF BasesApart
<1>3. /\ WellPlanes(planes, saved.nextId) /\ ScopesDiffer(planes) /\ Resemble(planes, protos)
      /\ \A p \in DOMAIN protos : PlaneFrom(planes[p], protos[p], saved.scopes)
  BY <1>1, <1>2, LoadIsWell
<1> HIDE DEF planes
<1>4. /\ world'.nextId = saved.nextId /\ world'.planes = planes
      /\ world' = [nextId |-> world'.nextId, planes |-> world'.planes]
  BY <1>1
<1>5. /\ saved.nextId \in Nat /\ saved.view = ViewOfSave(saved.nextId, protos)
      /\ \A p \in DOMAIN protos : protos[p].id = p
  BY <1>1 DEF WellSave
<1>6. View(world') = saved.view
  <2> DEFINE w == world'
  <2>1. AllLaid(w.planes) /\ Resemble(w.planes, protos) /\ w.nextId = saved.nextId
    BY <1>3, <1>4 DEF AllLaid, WellPlanes, WellPlane
  <2> HIDE DEF w
  <2>2. View(w) = ViewOfSave(w.nextId, protos)
    BY <2>1, Views
  <2> QED BY <1>5, <2>1, <2>2 DEF w
<1>7. ASSUME NEW p \in DOMAIN planes
      PROVE  /\ planes[p].parent = WorldScope
             /\ \A place \in PlacesOf(planes[p]) :
                   LET region == RegionAt(planes[p], place)
                   IN  /\ region.parent = PlaneScope(p)
                       /\ \A cell \in Places(region.shape) :
                             CellAt(region, cell).parent = RegionScope(region.id)
  <2>1. p \in DOMAIN protos
    BY <1>3 DEF Resemble
  <2>2. WellLaid(planes[p]) /\ PlaneFrom(planes[p], protos[p], saved.scopes) /\ protos[p].id = p
    BY <1>3, <1>5, <2>1 DEF WellPlanes, WellPlane
  <2> HIDE DEF protos
  <2> QED BY <2>2, LoadedParents
<1>8. MapRestored'
  BY <1>1, <1>4, <1>6, <1>7 DEF MapRestored
<1> QED BY <1>1, <1>3, <1>4, <1>5, <1>8 DEF MapInv

\* Every step keeps the invariant.
LEMMA MapKeeps ==
  ASSUME MapInv, ForeignRegionIds, [Next]_vars
  PROVE  MapInv'
<1>1. CASE \E plan \in Plans, base \in Bases : AddPlane(plan, base)
  BY <1>1, AddPlaneKeeps
<1>2. CASE \E planeId \in DOMAIN world.planes : \E place \in PlacesOf(world.planes[planeId]) :
              \E id \in RegionIds, base \in Bases : SetRegion(planeId, place, id, 1, base)
  BY <1>2, SetRegionKeeps
<1>3. CASE \E planeId \in DOMAIN world.planes : \E place \in PlacesOf(world.planes[planeId]) :
              \E cityId \in CityIds \cup {Null} : SetCityId(planeId, place, cityId)
  BY <1>3, SetCityIdKeeps
<1>4. CASE Save
  BY <1>4, SaveKeeps
<1>5. CASE \E bases \in [DOMAIN saved.planes -> Bases] : Load(bases)
  BY <1>5, LoadKeeps
<1>6. CASE UNCHANGED vars
  BY <1>6 DEF vars, MapInv, MapRestored
<1> QED BY <1>1, <1>2, <1>3, <1>4, <1>5, <1>6 DEF Next

\* The invariant always holds.
LEMMA MapAlways ==
  ASSUME ForeignRegionIds
  PROVE  Spec => []MapInv
<1>1. Init => MapInv
  BY MapInitially
<1>2. MapInv /\ [Next]_vars => MapInv'
  BY MapKeeps
<1> QED BY <1>1, <1>2, PTL DEF Spec

-----------------------------------------------------------------------------
(* What follows.                                                           *)

\* The invariant says the types.
LEMMA InvTypes ==
  ASSUME MapInv
  PROVE  MapTypeOK
<1>1. ASSUME NEW id \in DOMAIN world.planes
      PROVE  LET plane == world.planes[id]
             IN  /\ plane.id = id
                 /\ Len(plane.regions) = DataSize(plane.shape)
                 /\ \A i \in DOMAIN plane.regions :
                       Len(plane.regions[i].cells) = DataSize(plane.regions[i].shape)
  <2> DEFINE plane == world.planes[id]
  <2>1. WellLaid(plane) /\ plane.id = id
    BY DEF MapInv, WellPlanes, WellPlane
  <2> HIDE DEF plane
  <2>2. /\ Len(plane.regions) = DataSize(plane.shape)
        /\ DOMAIN plane.regions = 1 .. DataSize(plane.shape)
        /\ \A i \in 1 .. DataSize(plane.shape) : DataSize(plane.regions[i].shape) \in Nat
    BY <2>1, RegionSizes
  <2>3. ASSUME NEW i \in 1 .. DataSize(plane.shape)
        PROVE  Len(plane.regions[i].cells) = DataSize(plane.regions[i].shape)
    <3> DEFINE cells == plane.regions[i].cells
               n == DataSize(plane.regions[i].shape)
    <3>1. n \in Nat /\ cells = [k \in 1 .. n |-> cells[k]]
      BY <2>1, <2>2 DEF WellLaid, WellRegion
    <3> HIDE DEF cells, n
    <3>2. Len(cells) = n
      BY <3>1, LenOfList
    <3> QED BY <3>2 DEF cells, n
  <2> QED BY <2>1, <2>2, <2>3 DEF plane
<1> QED BY <1>1 DEF MapInv, MapTypeOK

\* Exact indexes and ids that are apart find a region where it is.
LEMMA InvIndexes ==
  ASSUME MapInv
  PROVE  RegionIndexExact
<1> DEFINE planes == world.planes
<1>1. /\ \A p \in DOMAIN planes : WellLaid(planes[p]) /\ Indexed(planes[p])
      /\ IdsApart(planes)
  BY DEF MapInv, WellPlanes, WellPlane
<1> SUFFICES ASSUME NEW id \in DOMAIN planes
             PROVE  /\ ToSet(Foreach(planes[id].shape)) = Places(planes[id].shape)
                    /\ \A place \in Places(planes[id].shape) :
                          RegionsFound(planes, RegionAt(planes[id], place).id)
                              = {RegionAt(planes[id], place)}
                    /\ \A other \in DOMAIN planes[id].index :
                          \E place \in Places(planes[id].shape) :
                              RegionAt(planes[id], place).id = other
  BY DEF RegionIndexExact
<1> HIDE DEF planes
<1> DEFINE plane == planes[id]
<1>2. /\ ToSet(Foreach(plane.shape)) = Places(plane.shape)
      /\ {GetCell(plane.shape, place) : place \in Places(plane.shape)} = 1 .. DataSize(plane.shape)
  <2>1. WellRhombus(plane.shape)
    BY <1>1 DEF WellLaid
  <2> QED BY <2>1, ElementsInside
<1>3. ASSUME NEW place \in Places(plane.shape)
      PROVE  RegionsFound(planes, RegionAt(plane, place).id) = {RegionAt(plane, place)}
  <2> DEFINE i == GetCell(plane.shape, place)
             region == plane.regions[i]
  <2>1. i \in 1 .. DataSize(plane.shape) /\ RegionAt(plane, place) = region
    BY <1>2 DEF RegionAt
  <2>2. GetRegionById(plane, region.id) = {region}
    <3>1. region.id \in DOMAIN plane.index /\ plane.index[region.id] = i
      BY <1>1, <2>1 DEF Indexed
    <3> QED BY <3>1 DEF GetRegionById
  <2> HIDE DEF i
  <2>3. ASSUME NEW q \in DOMAIN planes, q # id PROVE GetRegionById(planes[q], region.id) = {}
    <3>1. region.id \notin DOMAIN planes[q].index
      <4> SUFFICES ASSUME region.id \in DOMAIN planes[q].index PROVE FALSE
        OBVIOUS
      <4>1. PICK j \in 1 .. DataSize(planes[q].shape) : region.id = planes[q].regions[j].id
        BY <1>1 DEF Indexed
      <4> QED BY <1>1, <2>1, <2>3, <4>1 DEF IdsApart
    <3> QED BY <3>1 DEF GetRegionById
  <2> DEFINE x == region.id
             Found(q) == GetRegionById(planes[q], x)
  <2>4. /\ RegionsFound(planes, x) = UNION {Found(q) : q \in DOMAIN planes}
        /\ Found(id) = {region} /\ \A q \in DOMAIN planes : q # id => Found(q) = {}
    BY <2>2, <2>3 DEF RegionsFound
  <2> HIDE DEF Found, x
  <2>5. RegionsFound(planes, x) = {region}
    BY <2>4
  <2> QED BY <2>1, <2>5 DEF x
<1>4. ASSUME NEW other \in DOMAIN plane.index
      PROVE  \E place \in Places(plane.shape) : RegionAt(plane, place).id = other
  <2>1. PICK i \in 1 .. DataSize(plane.shape) : other = plane.regions[i].id
    BY <1>1 DEF Indexed
  <2>2. PICK place \in Places(plane.shape) : GetCell(plane.shape, place) = i
    BY <1>2
  <2> QED BY <2>1, <2>2 DEF RegionAt
<1> QED BY <1>2, <1>3, <1>4

\* Scopes that differ are no duplicates.
LEMMA InvDuplicates ==
  ASSUME MapInv
  PROVE  DuplicatesOnlyAfterLoad
BY DuplicatesAre DEF MapInv, DuplicatesOnlyAfterLoad

-----------------------------------------------------------------------------
(* Distances.                                                              *)

\* A number is at most r from zero.
Within(n, r) == -r <= n /\ n <= r

\* The places of a hexagon, by their distance from its centre.
LEMMA PlacesOfHexagon ==
  ASSUME NEW shape, WellHexagon(shape), NEW place
  PROVE  place \in Places(shape) <=>
            /\ place \in Int \X Int
            /\ Within(Q(place), shape.radius) /\ Within(R(place), shape.radius)
            /\ Within(S(place), shape.radius)
<1> DEFINE r == shape.radius
           start == BoundingBox(shape).start
           end == BoundingBox(shape).end
<1>1. r \in Nat \ {0} /\ shape.kind = "hexagon" /\ WellShape(shape)
  BY DEF WellHexagon, WellShape
<1>2. /\ Q(start) = -r /\ R(start) = -r /\ Q(end) = r /\ R(end) = r
      /\ Q(end) = Q(start) + QSize(shape) - 1 /\ R(end) = R(start) + RSize(shape) - 1
      /\ QSize(shape) \in Nat /\ RSize(shape) \in Nat
  BY <1>1, BoundsOfShape, SizesOfShape
<1>3. QSize(shape) = 2 * r + 1 /\ RSize(shape) = 2 * r + 1
  BY <1>1, <1>2
<1>4. ShapeContains(shape, place) <=>
          Absolute(Q(place)) <= r /\ Absolute(R(place)) <= r /\ Absolute(S(place)) <= r
  BY <1>1 DEF ShapeContains
<1>5. InBox(shape, place) <=> /\ place \in Int \X Int
                              /\ Q(place) - Q(start) \in 0 .. QSize(shape) - 1
                              /\ R(place) - R(start) \in 0 .. RSize(shape) - 1
  BY DEF InBox
<1> HIDE DEF r, start, end
<1>6. ASSUME NEW n \in Int
      PROVE  /\ Absolute(n) <= r <=> Within(n, r)
             /\ n - Q(start) \in 0 .. QSize(shape) - 1 <=> Within(n, r)
             /\ n - R(start) \in 0 .. RSize(shape) - 1 <=> Within(n, r)
  BY <1>1, <1>2, <1>3 DEF Absolute, Within
<1>7. ASSUME place \in Int \X Int
      PROVE  Q(place) \in Int /\ R(place) \in Int /\ S(place) \in Int
  BY <1>7 DEF Q, R, S
<1>8. place \in Places(shape) <=> InBox(shape, place) /\ ShapeContains(shape, place)
  BY <1>1, PlacesAreInBox
<1>9. CASE place \notin Int \X Int
  BY <1>5, <1>8, <1>9
<1>10. CASE place \in Int \X Int
  <2>1. Q(place) \in Int /\ R(place) \in Int /\ S(place) \in Int
    BY <1>7, <1>10
  <2>2. /\ ShapeContains(shape, place) <=>
              Within(Q(place), r) /\ Within(R(place), r) /\ Within(S(place), r)
        /\ InBox(shape, place) <=> Within(Q(place), r) /\ Within(R(place), r)
    BY <1>4, <1>5, <1>6, <1>10, <2>1
  <2> QED BY <1>8, <1>10, <2>2 DEF r
<1> QED BY <1>9, <1>10

\* The sum of squares is zero where both differences are.
LEMMA SquareIsZero ==
  ASSUME NEW a \in Int, NEW b \in Int
  PROVE  LET c == 0 - a - b IN a * a + b * b + c * c = 0 <=> a = 0 /\ b = 0
<1> DEFINE c == 0 - a - b
           aa == a * a
           bb == b * b
           cc == c * c
<1>1. ASSUME NEW x \in Int PROVE x * x \in Int /\ x * x >= 0 /\ (x * x = 0 <=> x = 0)
  <2>1. x * x \in Int /\ x * x >= 0
    OBVIOUS
  <2>2. x * x = 0 => x = 0
    OBVIOUS
  <2>3. x = 0 => x * x = 0
    OBVIOUS
  <2> QED BY <2>1, <2>2, <2>3
<1>2. c \in Int /\ (a = 0 /\ b = 0 => c = 0)
  OBVIOUS
<1> HIDE DEF c
<1>3. /\ aa \in Int /\ bb \in Int /\ cc \in Int /\ aa >= 0 /\ bb >= 0 /\ cc >= 0
      /\ aa = 0 <=> a = 0
      /\ bb = 0 <=> b = 0
      /\ cc = 0 <=> c = 0
  BY <1>1, <1>2
<1> HIDE DEF aa, bb, cc
<1>4. aa + bb + cc = 0 <=> a = 0 /\ b = 0
  BY <1>2, <1>3
<1> QED BY <1>4 DEF aa, bb, cc, c

\* A multiple of n is no closer to zero than n.
LEMMA MultiplesApart ==
  ASSUME NEW n \in Nat \ {0}, NEW x \in Int, NEW y \in Int, x * n + y = 0, -n < y, y < n
  PROVE  x = 0 /\ y = 0
<1>1. CASE x = 0
  BY <1>1
<1>2. CASE x > 0
  <2>1. 1 * n <= x * n
    BY <1>2, ProductGrows
  <2> DEFINE p == x * n
  <2>2. p \in Int
    OBVIOUS
  <2> HIDE DEF p
  <2> QED BY <2>1, <2>2 DEF p
<1>3. CASE x < 0
  <2> DEFINE z == -x
             p == x * n
             k == z * n
  <2>1. z \in Nat /\ 1 <= z
    BY <1>3
  <2>2. 1 * n <= k
    BY <2>1, ProductGrows
  <2>3. k = -p /\ p \in Int
    OBVIOUS
  <2>4. p + y = 0
    OBVIOUS
  <2> HIDE DEF p, k
  <2> QED BY <2>2, <2>3, <2>4
<1> QED BY <1>1, <1>2, <1>3

\* A place is known by its coordinates.
LEMMA PairsAreEqual ==
  ASSUME NEW a \in Int \X Int, NEW b \in Int \X Int, Q(a) = Q(b), R(a) = R(b)
  PROVE  a = b
BY DEF Q, R

\* The distance of two cells is zero where the places of both are the same.
LEMMA ZeroDistance ==
  ASSUME NEW plane, WellLaid(plane),
         NEW p1 \in Places(plane.shape), NEW p2 \in Places(plane.shape),
         NEW c1 \in Places(RegionAt(plane, p1).shape),
         NEW c2 \in Places(RegionAt(plane, p2).shape)
  PROVE  GetDistanceBetweenCells(plane, p1, c1, p2, c2) = 0 <=>
            /\ (Q(p1) - Q(p2)) * plane.externalRadius + (Q(c1) - Q(c2)) = 0
            /\ (R(p1) - R(p2)) * plane.externalRadius + (R(c1) - R(c2)) = 0
<1> DEFINE e == plane.externalRadius
           a == TotalPlace(plane, p1, c1)
           b == TotalPlace(plane, p2, c2)
           delta == <<Q(a) - Q(b), R(a) - R(b)>>
<1>1. /\ WellShape(plane.shape) /\ WellRhombus(plane.shape) /\ e \in Nat
      /\ \A i \in 1 .. DataSize(plane.shape) : WellShape(plane.regions[i].shape)
  BY RegionSizes DEF WellLaid, WellShape
<1>2. \A p \in Places(plane.shape) : WellShape(RegionAt(plane, p).shape)
  BY <1>1, ElementInShape DEF RegionAt
<1>3. \A shape : WellShape(shape) => \A p \in Places(shape) :
          ShapeContains(shape, p) /\ p \in Int \X Int
  BY PlacesAreInBox DEF InBox
<1>4. \A p \in Int \X Int : Q(p) \in Int /\ R(p) \in Int
  BY DEF Q, R
<1>5. /\ ShapeContains(plane.shape, p1) /\ ShapeContains(plane.shape, p2)
      /\ ShapeContains(RegionAt(plane, p1).shape, c1)
      /\ ShapeContains(RegionAt(plane, p2).shape, c2)
      /\ Q(p1) \in Int /\ R(p1) \in Int /\ Q(p2) \in Int /\ R(p2) \in Int
      /\ Q(c1) \in Int /\ R(c1) \in Int /\ Q(c2) \in Int /\ R(c2) \in Int
  BY <1>1, <1>2, <1>3, <1>4
<1>6. GetDistanceBetweenCells(plane, p1, c1, p2, c2)
         = Q(delta) * Q(delta) + R(delta) * R(delta) + S(delta) * S(delta)
  BY <1>5 DEF GetDistanceBetweenCells
<1>7. /\ Q(a) = Q(p1) * e + Q(c1) /\ R(a) = R(p1) * e + R(c1)
      /\ Q(b) = Q(p2) * e + Q(c2) /\ R(b) = R(p2) * e + R(c2)
  BY DEF TotalPlace, Q, R
<1>8. /\ Q(delta) = Q(a) - Q(b) /\ R(delta) = R(a) - R(b)
      /\ S(delta) = 0 - Q(delta) - R(delta)
  BY DEF Q, R, S
<1> HIDE DEF a, b, delta, e
<1>9. \A x1, x2, y1, y2 \in Int :
          x1 * e + y1 - (x2 * e + y2) = (x1 - x2) * e + (y1 - y2)
          /\ x1 * e + y1 - (x2 * e + y2) \in Int
  BY <1>1
<1>10. /\ Q(delta) \in Int /\ R(delta) \in Int
       /\ Q(delta) = (Q(p1) - Q(p2)) * e + (Q(c1) - Q(c2))
       /\ R(delta) = (R(p1) - R(p2)) * e + (R(c1) - R(c2))
  <2>1. /\ Q(p1) * e + Q(c1) - (Q(p2) * e + Q(c2)) = (Q(p1) - Q(p2)) * e + (Q(c1) - Q(c2))
        /\ Q(p1) * e + Q(c1) - (Q(p2) * e + Q(c2)) \in Int
    BY <1>5, <1>9
  <2>2. /\ R(p1) * e + R(c1) - (R(p2) * e + R(c2)) = (R(p1) - R(p2)) * e + (R(c1) - R(c2))
        /\ R(p1) * e + R(c1) - (R(p2) * e + R(c2)) \in Int
    BY <1>5, <1>9
  <2> QED BY <1>1, <1>5, <1>7, <1>8, <2>1, <2>2
<1>11. GetDistanceBetweenCells(plane, p1, c1, p2, c2) = 0 <=> Q(delta) = 0 /\ R(delta) = 0
  BY <1>6, <1>8, <1>10, SquareIsZero
<1> QED BY <1>10, <1>11 DEF e

\* Regions that are close to each other share a place, in either direction.
LEMMA CloseRegions ==
  ASSUME NEW e \in Nat \ {0}, NEW one, WellHexagon(one), NEW other, WellHexagon(other),
         e <= one.radius + other.radius
  PROVE  \E x, y \in Int :
            /\ x - y = e
            /\ <<0, x>> \in Places(one) /\ <<0, y>> \in Places(other)
            /\ <<x, 0>> \in Places(one) /\ <<y, 0>> \in Places(other)
<1> DEFINE x == IF one.radius <= e THEN one.radius ELSE e
           y == x - e
<1>1. one.radius \in Nat \ {0} /\ other.radius \in Nat \ {0}
  BY DEF WellHexagon
<1>2. /\ x \in Int /\ y \in Int /\ x - y = e
      /\ Within(x, one.radius) /\ Within(y, other.radius)
      /\ Within(0, one.radius) /\ Within(0, other.radius)
      /\ Within(0 - x, one.radius) /\ Within(0 - y, other.radius)
  BY <1>1 DEF Within
<1>3. \A z \in Int : /\ Q(<<0, z>>) = 0 /\ R(<<0, z>>) = z /\ S(<<0, z>>) = 0 - z
                     /\ Q(<<z, 0>>) = z /\ R(<<z, 0>>) = 0 /\ S(<<z, 0>>) = 0 - z
                     /\ <<0, z>> \in Int \X Int /\ <<z, 0>> \in Int \X Int
  BY DEF Q, R, S
<1> HIDE DEF x, y
<1>4. /\ <<0, x>> \in Places(one) /\ <<x, 0>> \in Places(one)
      /\ <<0, y>> \in Places(other) /\ <<y, 0>> \in Places(other)
  BY <1>2, <1>3, PlacesOfHexagon
<1> QED BY <1>2, <1>4

\* Multiples of the external radius keep regions apart that are smaller than it.
LEMMA InvDistances ==
  ASSUME MapInv
  PROVE  PlacesOverlapOnlyIfClose
<1> SUFFICES ASSUME NEW id \in DOMAIN world.planes,
                    NEW p1 \in Places(world.planes[id].shape),
                    NEW p2 \in Places(world.planes[id].shape)
             PROVE  LET plane == world.planes[id]
                        one == RegionAt(plane, p1).shape
                        other == RegionAt(plane, p2).shape
                        Zeros == {c \in Places(one) \X Places(other) :
                            GetDistanceBetweenCells(plane, p1, c[1], p2, c[2]) = 0}
                        neighbours == <<Q(p2) - Q(p1), R(p2) - R(p1)>> \in {<<0, 1>>, <<1, 0>>}
                        roomy == plane.externalRadius > one.radius + other.radius
                    IN  /\ p1 = p2 => \A c \in Zeros : c[1] = c[2]
                        /\ p1 # p2 /\ roomy => Zeros = {}
                        /\ neighbours /\ ~roomy => Zeros # {}
  BY DEF PlacesOverlapOnlyIfClose
<1> DEFINE plane == world.planes[id]
           e == plane.externalRadius
           one == RegionAt(plane, p1).shape
           other == RegionAt(plane, p2).shape
           Zero(c1, c2) == /\ (Q(p1) - Q(p2)) * e + (Q(c1) - Q(c2)) = 0
                           /\ (R(p1) - R(p2)) * e + (R(c1) - R(c2)) = 0
           Zeros == {c \in Places(one) \X Places(other) :
                        GetDistanceBetweenCells(plane, p1, c[1], p2, c[2]) = 0}
<1>1. WellLaid(plane)
  BY DEF MapInv, WellPlanes, WellPlane
<1>2. e \in Nat \ {0} /\ WellHexagon(one) /\ WellHexagon(other) /\ WellShape(plane.shape)
  <2>1. \A p \in Places(plane.shape) : GetCell(plane.shape, p) \in 1 .. DataSize(plane.shape)
    BY <1>1, ElementInShape DEF WellLaid, WellShape
  <2> QED BY <1>1, <2>1 DEF WellLaid, WellRegion, RegionAt, WellShape
<1>3. \A c1 \in Places(one), c2 \in Places(other) :
          GetDistanceBetweenCells(plane, p1, c1, p2, c2) = 0 <=> Zero(c1, c2)
  BY <1>1, ZeroDistance
<1>4. /\ p1 \in Int \X Int /\ p2 \in Int \X Int
      /\ Q(p1) \in Int /\ R(p1) \in Int /\ Q(p2) \in Int /\ R(p2) \in Int
  <2>1. p1 \in Int \X Int /\ p2 \in Int \X Int
    BY <1>2, PlacesAreInBox DEF InBox
  <2> QED BY <2>1 DEF Q, R
<1> HIDE DEF e, one, other, plane
<1>5. \A c1, c2 : <<c1, c2>> \in Zeros <=>
          c1 \in Places(one) /\ c2 \in Places(other) /\ Zero(c1, c2)
  BY <1>3
<1>6. \A c \in Zeros : c = <<c[1], c[2]>>
  OBVIOUS
<1> HIDE DEF Zeros
<1>7. one.radius \in Nat /\ other.radius \in Nat
  BY <1>2 DEF WellHexagon
<1>8. ASSUME NEW c1 \in Places(one), NEW c2 \in Places(other)
      PROVE  /\ c1 \in Int \X Int /\ c2 \in Int \X Int
             /\ Q(c1) \in Int /\ R(c1) \in Int /\ Q(c2) \in Int /\ R(c2) \in Int
             /\ Within(Q(c1), one.radius) /\ Within(R(c1), one.radius)
             /\ Within(Q(c2), other.radius) /\ Within(R(c2), other.radius)
  <2>1. /\ c1 \in Int \X Int /\ c2 \in Int \X Int
        /\ Within(Q(c1), one.radius) /\ Within(R(c1), one.radius)
        /\ Within(Q(c2), other.radius) /\ Within(R(c2), other.radius)
    BY <1>2, PlacesOfHexagon
  <2> QED BY <2>1 DEF Q, R
<1>9. ASSUME p1 = p2, NEW c \in Zeros PROVE c[1] = c[2]
  <2> DEFINE c1 == c[1]
             c2 == c[2]
  <2>1. c1 \in Places(one) /\ c2 \in Places(other) /\ Zero(c1, c2)
    BY <1>5, <1>6
  <2> HIDE DEF c1, c2
  <2>2. (Q(p1) - Q(p2)) * e = 0 /\ (R(p1) - R(p2)) * e = 0
    <3>1. Q(p1) - Q(p2) = 0 /\ R(p1) - R(p2) = 0
      BY <1>4, <1>9
    <3> QED BY <1>2, <3>1
  <2>3. Q(c1) = Q(c2) /\ R(c1) = R(c2)
    <3>1. 0 + (Q(c1) - Q(c2)) = 0 /\ 0 + (R(c1) - R(c2)) = 0
      BY <2>1, <2>2
    <3>2. Q(c1) \in Int /\ R(c1) \in Int /\ Q(c2) \in Int /\ R(c2) \in Int
      BY <1>8, <2>1
    <3>3. \A a, b \in Int : 0 + (a - b) = 0 => a = b
      OBVIOUS
    <3> QED BY <3>1, <3>2, <3>3
  <2> QED BY <1>8, <2>1, <2>3, PairsAreEqual DEF c1, c2
<1>10. ASSUME p1 # p2, e > one.radius + other.radius PROVE Zeros = {}
  <2> SUFFICES ASSUME NEW c \in Zeros PROVE FALSE
    OBVIOUS
  <2> DEFINE c1 == c[1]
             c2 == c[2]
  <2>1. c1 \in Places(one) /\ c2 \in Places(other) /\ Zero(c1, c2)
    BY <1>5, <1>6
  <2> HIDE DEF c1, c2
  <2>2. /\ Q(c1) - Q(c2) \in Int /\ R(c1) - R(c2) \in Int
        /\ -e < Q(c1) - Q(c2) /\ Q(c1) - Q(c2) < e
        /\ -e < R(c1) - R(c2) /\ R(c1) - R(c2) < e
    BY <1>2, <1>7, <1>8, <1>10, <2>1 DEF Within
  <2>3. Q(p1) - Q(p2) \in Int /\ R(p1) - R(p2) \in Int
    BY <1>4
  <2>4. Q(p1) - Q(p2) = 0 /\ R(p1) - R(p2) = 0
    BY <1>2, <2>1, <2>2, <2>3, MultiplesApart
  <2>5. p1 = p2
    BY <1>4, <2>4, PairsAreEqual
  <2> QED BY <1>10, <2>5
<1>11. ASSUME <<Q(p2) - Q(p1), R(p2) - R(p1)>> \in {<<0, 1>>, <<1, 0>>},
              ~(e > one.radius + other.radius)
       PROVE  Zeros # {}
  <2>1. PICK x, y \in Int :
            /\ x - y = e
            /\ <<0, x>> \in Places(one) /\ <<0, y>> \in Places(other)
            /\ <<x, 0>> \in Places(one) /\ <<y, 0>> \in Places(other)
    <3>1. e <= one.radius + other.radius
      BY <1>2, <1>7, <1>11
    <3> QED BY <1>2, <3>1, CloseRegions
  <2>2. /\ Q(<<0, x>>) = 0 /\ R(<<0, x>>) = x /\ Q(<<x, 0>>) = x /\ R(<<x, 0>>) = 0
        /\ Q(<<0, y>>) = 0 /\ R(<<0, y>>) = y /\ Q(<<y, 0>>) = y /\ R(<<y, 0>>) = 0
    BY DEF Q, R
  <2>3. 0 * e = 0 /\ (-1) * e = -e
    BY <1>2
  <2>4. CASE <<Q(p2) - Q(p1), R(p2) - R(p1)>> = <<0, 1>>
    <3>1. Q(p1) - Q(p2) = 0 /\ R(p1) - R(p2) = -1
      BY <1>4, <2>4
    <3>2. Zero(<<0, x>>, <<0, y>>)
      BY <1>2, <2>1, <2>2, <2>3, <3>1
    <3>3. <<<<0, x>>, <<0, y>>>> \in Zeros
      BY <1>5, <2>1, <3>2
    <3> QED BY <3>3
  <2>5. CASE <<Q(p2) - Q(p1), R(p2) - R(p1)>> = <<1, 0>>
    <3>1. Q(p1) - Q(p2) = -1 /\ R(p1) - R(p2) = 0
      BY <1>4, <2>5
    <3>2. Zero(<<x, 0>>, <<y, 0>>)
      BY <1>2, <2>1, <2>2, <2>3, <3>1
    <3>3. <<<<x, 0>>, <<y, 0>>>> \in Zeros
      BY <1>5, <2>1, <3>2
    <3> QED BY <3>3
  <2> QED BY <1>11, <2>4, <2>5
<1> QED BY <1>9, <1>10, <1>11 DEF e, one, other, plane, Zeros

-----------------------------------------------------------------------------
(* Theorems.                                                               *)

\* The map is of the form its constants and its arrays say.
THEOREM MapTypes ==
  ASSUME ForeignRegionIds
  PROVE  Spec => []MapTypeOK
<1>1. Spec => []MapInv
  BY MapAlways
<1>2. MapInv => MapTypeOK
  BY InvTypes
<1> QED BY <1>1, <1>2, PTL

\* The index of a plane names the regions on its surface, and no two regions share an id.
THEOREM RegionsAreFound ==
  ASSUME ForeignRegionIds
  PROVE  Spec => []RegionIndexExact
<1>1. Spec => []MapInv
  BY MapAlways
<1>2. MapInv => RegionIndexExact
  BY InvIndexes
<1> QED BY <1>1, <1>2, PTL

\* A load brings back the view that was saved, with every scope below the one that
\* contains it.
THEOREM LoadsRestore ==
  ASSUME ForeignRegionIds
  PROVE  Spec => []MapRestored
<1>1. Spec => []MapInv
  BY MapAlways
<1>2. MapInv => MapRestored
  BY DEF MapInv
<1> QED BY <1>1, <1>2, PTL

\* Without planes or regions made after a load, no two cells have one id.
THEOREM MapsCanBeSaved ==
  ASSUME ForeignRegionIds
  PROVE  Spec => []DuplicatesOnlyAfterLoad
<1>1. Spec => []MapInv
  BY MapAlways
<1>2. MapInv => DuplicatesOnlyAfterLoad
  BY InvDuplicates
<1> QED BY <1>1, <1>2, PTL

\* Cells of two regions are at one place exactly when the regions are too large for the
\* external radius of the plane.
THEOREM DistancesTellPlaces ==
  ASSUME ForeignRegionIds
  PROVE  Spec => []PlacesOverlapOnlyIfClose
<1>1. Spec => []MapInv
  BY MapAlways
<1>2. MapInv => PlacesOverlapOnlyIfClose
  BY InvDistances
<1> QED BY <1>1, <1>2, PTL
=============================================================================
