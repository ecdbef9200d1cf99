------------------------------ MODULE Surfaces ------------------------------
(***************************************************************************)
(* Surfaces of hexagons (core/geometry): the shapes a map is made of, the  *)
(* array that holds their elements and the order they are visited in.     *)
(*                                                                         *)
(* A place is a pair <<q, r>>; s is what makes the sum zero.  A surface    *)
(* has an element for each place of the box around its shape, also for    *)
(* those the shape does not contain.                                       *)
(***************************************************************************)
EXTENDS Integers, Sequences, SequencesExt, FiniteSetsExt

Q(place) == place[1]
R(place) == place[2]
S(place) == 0 - place[1] - place[2]

Absolute(n) == IF n < 0 THEN -n ELSE n

\* Corners may be given in any order.
Box(a, b) == [start |-> <<Min({Q(a), Q(b)}), Min({R(a), R(b)})>>,
              end |-> <<Max({Q(a), Q(b)}), Max({R(a), R(b)})>>]

InRange(n, a, b) == (n - a) * (n - b) <= 0

BoxContains(box, place) ==
    /\ InRange(Q(place), Q(box.start), Q(box.end))
    /\ InRange(R(place), R(box.start), R(box.end))
    /\ InRange(S(place), S(box.start), S(box.end))

-----------------------------------------------------------------------------
Hexagon(radius) == [kind |-> "hexagon", radius |-> Max({radius, 1})]
Rhombus(box) == [kind |-> "rhombus", box |-> box]

BoundingBox(shape) ==
    IF shape.kind = "rhombus" THEN shape.box
    ELSE Box(<<-shape.radius, -shape.radius>>, <<shape.radius, shape.radius>>)

ShapeContains(shape, place) ==
    IF shape.kind = "rhombus" THEN BoxContains(shape.box, place)
    ELSE \A n \in {Q(place), R(place), S(place)} : Absolute(n) <= shape.radius

QSize(shape) == LET box == BoundingBox(shape) IN Absolute(Q(box.end) - Q(box.start)) + 1
RSize(shape) == LET box == BoundingBox(shape) IN Absolute(R(box.end) - R(box.start)) + 1

DataSize(shape) == QSize(shape) * RSize(shape)

\* The element of a place.  Rows are those of q.
GetCell(shape, place) ==
    LET start == BoundingBox(shape).start
    IN  1 + (Q(place) - Q(start)) * RSize(shape) + (R(place) - R(start))

\* The index-th place a visit comes to: not the place of the index-th element.
FromRawIndex(shape, index) ==
    LET start == BoundingBox(shape).start
    IN  <<Q(start) + (index % QSize(shape)), R(start) + (index \div QSize(shape))>>

Foreach(shape) ==
    LET visits[n \in 0..DataSize(shape)] ==
            IF n = 0 THEN <<>>
            ELSE IF ShapeContains(shape, FromRawIndex(shape, n - 1))
                 THEN Append(visits[n - 1], FromRawIndex(shape, n - 1))
                 ELSE visits[n - 1]
    IN  visits[DataSize(shape)]

\* What Foreach is there for: the places of a shape.
Places(shape) ==
    LET box == BoundingBox(shape)
    IN  {place \in (Q(box.start)..Q(box.end)) \X (R(box.start)..R(box.end)) :
            ShapeContains(shape, place)}
=============================================================================
