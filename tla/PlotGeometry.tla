---------------------------- MODULE PlotGeometry ----------------------------
(***************************************************************************)
(* The geometry under PlotUtil.cpp, on integer coordinates: affine         *)
(* coordinates through two replays, clipping areas and how they nest, the  *)
(* clipping of lines, and what a preview of a plot leaves out.  EPSILON is *)
(* far below the unit, so that isClose is equality.  A mask is the set of  *)
(* indices whose bit is set.                                               *)
(***************************************************************************)
EXTENDS Integers, Sequences, FiniteSets

CONSTANTS LineDistance,       \* LINE_DISTANCE_THRESHOLD
          LengthThreshold,    \* POLYLINE_LENGTH_THRESHOLD
          CircleDistance,     \* CIRCLE_DISTANCE_THRESHOLD
          CirclesPerCell      \* MAX_CIRCLES_PER_CELL

ASSUME ThresholdsAssumption ==
  /\ LineDistance \in Nat \ {0} /\ CircleDistance \in Nat
  /\ LengthThreshold \in Nat /\ LengthThreshold >= 2
  /\ CirclesPerCell \in Nat \ {0}

Pt(a, b) == [x |-> a, y |-> b]
Rect(from, to) == [from |-> from, to |-> to]
Width(r) == r.to.x - r.from.x
Height(r) == r.to.y - r.from.y
Absolute(n) == IF n < 0 THEN -n ELSE n
Quotient(n, d) == IF d < 0 THEN (-n) \div (-d) ELSE n \div d
SquaredDistance(p, q) == (p.x - q.x) * (p.x - q.x) + (p.y - q.y) * (p.y - q.y)

Contains(r, p) == /\ r.from.x <= p.x /\ p.x <= r.to.x
                  /\ r.from.y <= p.y /\ p.y <= r.to.y

-----------------------------------------------------------------------------
(* Affine coordinates: scale = n / d, offset = off / d.                     *)

AffineCoordinate(side1, z1, side2, z2) ==
  IF side1 = side2
  THEN [n |-> 0, d |-> 1, off |-> z1]
  ELSE LET d == Absolute(side2 - side1)
           n == IF side2 > side1 THEN z2 - z1 ELSE z1 - z2
       IN  [n |-> n, d |-> d, off |-> z1 * d - n * side1]

AffinePoint(area1, p1, area2, p2) ==
  Pt(AffineCoordinate(Width(area1), p1.x - area1.from.x, Width(area2), p2.x - area2.from.x),
     AffineCoordinate(Height(area1), p1.y - area1.from.y, Height(area2), p2.y - area2.from.y))

\* Where a client puts the coordinate along a side of that length.
ValueAt(c, side) == (c.n * side + c.off) \div c.d

-----------------------------------------------------------------------------
(* Clipping areas.                                                          *)

IsNested(internal, external) ==
  Contains(external, internal.from) /\ Contains(external, internal.to)

IsFixedRatio(internal, external) ==
  LET centered(near, far) == near = far /\ near > 0
      fits(from1, to1, from2, to2) == from1 = from2 /\ to1 = to2
      a == internal.from  b == internal.to  c == external.from  d == external.to
  IN  IF fits(a.x, b.x, c.x, d.x) THEN centered(a.y - c.y, d.y - b.y)
      ELSE fits(a.y, b.y, c.y, d.y) /\ centered(a.x - c.x, d.x - b.x)

\* The smallest area around r, the first of equals; 1 is the whole device.
ParentArea(r, areas) ==
  LET around == {i \in 2..Len(areas) : IsNested(r, areas[i])}
      size(i) == Width(areas[i]) * Height(areas[i])
  IN  IF around = {} THEN 1
      ELSE CHOOSE i \in around :
             \A j \in around : size(i) < size(j) \/ (size(i) = size(j) /\ i <= j)

HasChildren(parent, areas) ==
  \E i \in 2..Len(areas) : i # parent /\ IsNested(areas[i], areas[parent])

Touches(p, area) ==
  IF p.x \in {area.from.x, area.to.x} THEN area.from.y < p.y /\ p.y < area.to.y
  ELSE p.y \in {area.from.y, area.to.y} /\ area.from.x < p.x /\ p.x < area.to.x

-----------------------------------------------------------------------------
(* Lines.                                                                   *)

Line(from, to) ==
  [isProper |-> from # to, from |-> from, a |-> to.y - from.y, b |-> from.x - to.x,
   c |-> to.x * from.y - to.y * from.x]

\* distanceTo(p) = sqrt(SquaredOff / SquaredNorm); the norm is the line's alone.
SquaredNorm(l) == IF l.isProper THEN l.a * l.a + l.b * l.b ELSE 1
SquaredOff(l, p) ==
  IF l.isProper THEN (l.a * p.x + l.b * p.y + l.c) * (l.a * p.x + l.b * p.y + l.c)
  ELSE SquaredDistance(p, l.from)

IntersectWithX(l, x0) ==
  IF ~l.isProper \/ l.b = 0 THEN {} ELSE {Pt(x0, Quotient(-(l.c + l.a * x0), l.b))}

IntersectWithY(l, y0) ==
  IF ~l.isProper \/ l.a = 0 THEN {} ELSE {Pt(Quotient(-(l.c + l.b * y0), l.a), y0)}

ClosestIntersection(p, intersections) ==
  CHOOSE q \in intersections :
    \A r \in intersections : SquaredDistance(p, q) <= SquaredDistance(p, r)

ClipLine(from, to, area) ==
  LET l == Line(from, to)
      crossings == {p \in IntersectWithX(l, area.from.x) \cup IntersectWithX(l, area.to.x)
                            \cup IntersectWithY(l, area.from.y) \cup IntersectWithY(l, area.to.y) :
                      Touches(p, area)}
      end(p) == IF Contains(area, p) \/ crossings = {} THEN p
                ELSE ClosestIntersection(p, crossings)
  IN  <<end(from), end(to)>>

-----------------------------------------------------------------------------
(* Previews.                                                                *)

\* The first of the points strictly inside [s, e) that are farthest from l.
FarthestIndex(points, l, s, e) ==
  LET off(i) == SquaredOff(l, points[i])
  IN  CHOOSE i \in (s + 1)..(e - 2) :
        /\ \A j \in (s + 1)..(e - 2) : off(j) <= off(i)
        /\ \A j \in (s + 1)..(i - 1) : off(j) < off(i)

\* Mutant of NearLine: measured to the first end only.
NearLineEnd(points, l, i) == SquaredDistance(points[i], l.from) < LineDistance * LineDistance
NearLine(points, l, i) ==
  SquaredOff(l, points[i]) < LineDistance * LineDistance * SquaredNorm(l)

Joined(first, second) ==
  [mask |-> first.mask \cup second.mask, count |-> first.count + second.count - 1]

\* The recursive buildPreviewMask (Ramer, Douglas, Peucker) on [s, e).
PreviewOf(points) ==
  LET ranges == {r \in (1..Len(points)) \X (2..(Len(points) + 1)) : r[1] < r[2]}
      go[r \in ranges] ==
        LET s == r[1]
            e == r[2]
            l == Line(points[s], points[e - 1])
            farthest == FarthestIndex(points, l, s, e)
        IN  IF e - s <= 2 THEN [mask |-> {}, count |-> e - s]
            ELSE IF NearLine(points, l, farthest)
            THEN [mask |-> (s + 1)..(e - 2), count |-> 2]
            ELSE Joined(go[<<s, farthest + 1>>], go[<<farthest, e>>])
  IN  go[<<1, Len(points) + 1>>]

PolylinePreview(points) ==
  IF Len(points) > LengthThreshold THEN PreviewOf(points)
  ELSE [mask |-> {}, count |-> Len(points)]

GridIndex(value, side, gridSide) ==
  LET index == Quotient(value * gridSide, side)
  IN  IF index < 0 THEN 0 ELSE IF index > gridSide - 1 THEN gridSide - 1 ELSE index

\* The grid of a batch of circles: the cell of a centre, one cell when there are few.
GridSide(count) == CHOOSE g \in 0..count :
                     g * g <= count \div CirclesPerCell /\ (g + 1) * (g + 1) > count \div CirclesPerCell
CellOf(p, area, gridSide) ==
  IF gridSide <= 1 THEN <<0, 0>>
  ELSE <<GridIndex(p.x - area.from.x, Width(area), gridSide),
         GridIndex(p.y - area.from.y, Height(area), gridSide)>>

\* From the last circle to the first: hidden by a later one of its cell that shows.
CircleMask(centers, area) ==
  LET cell(i) == CellOf(centers[i], area, GridSide(Len(centers)))
      hidden[i \in 1..(Len(centers) + 1)] ==      \* the mask from i on
        IF i > Len(centers) THEN {}
        ELSE IF \E j \in (i + 1)..Len(centers) :
                  /\ cell(j) = cell(i) /\ j \notin hidden[i + 1]
                  /\ SquaredDistance(centers[i], centers[j]) < CircleDistance * CircleDistance
             THEN hidden[i + 1] \cup {i}
             ELSE hidden[i + 1]
  IN  hidden[1]
=============================================================================
