----------------------------- MODULE PlotMessage -----------------------------
(***************************************************************************)
(* The message a plot becomes (RPIServiceImpl.cpp): coordinates are packed *)
(* as fixed point numbers, a point into the 8 bytes                        *)
(*   [mask: 1 bit] [x: 31 bits] [reserved: 1 bit] [y: 31 bits].            *)
(***************************************************************************)
EXTENDS PlotParser

\* int64_t(value * multiplier): towards zero.
Truncated(n, d) == IF n < 0 THEN -((-n) \div d) ELSE n \div d
Clamp(value, min, max) == IF value < min THEN min ELSE IF value > max THEN max ELSE value

\* The value n / d; a negative number modulo 2^width is its two's complement.
PackFixedPoint(n, d, integerBits, fractionBits) ==
  LET magnitude == 2^(fractionBits + integerBits - 1)
  IN  Clamp(Truncated(n * 2^fractionBits, d), -magnitude, magnitude - 1) % (2 * magnitude)

PackScale(c) == PackFixedPoint(c.n, c.d, 2, 13)
PackOffset(c) == PackFixedPoint(c.off, c.d, 6, 10)
PackCoordinate(c) == PackScale(c) * 2^16 + PackOffset(c)
PackPoint(p) == [x |-> PackCoordinate(p.x), y |-> PackCoordinate(p.y)]
PackMasked(p, isMasked) == [mask |-> isMasked, point |-> PackPoint(p)]

PolylineMessage(line, preview) ==
  [points |-> [i \in 1..Len(line) |-> PackMasked(line[i], i \in preview.mask)],
   previewCount |-> preview.count]

ViewportMessage(v) ==
  IF v.isFixed THEN [ratio |-> <<v.rn, v.rd>>, delta |-> <<v.height * v.rd - v.rn * v.width, v.rd>>,
                     parentIndex |-> v.parent]
  ELSE [from |-> PackPoint(v.from), to |-> PackPoint(v.to), parentIndex |-> v.parent]

\* Paths, polygons and polylines send polylines, the other kinds their points.
FigureMessage(f) ==
  [kind |-> f.kind, number |-> f.number,
   lines |-> [i \in 1..Len(f.lines) |->
               IF f.previews = <<>>
               THEN [points |-> [j \in 1..Len(f.lines[i]) |-> PackMasked(f.lines[i][j], f.isMasked)],
                     previewCount |-> Len(f.lines[i])]
               ELSE PolylineMessage(f.lines[i], f.previews[i])],
   radius |-> PackCoordinate(f.radius),
   stroke |-> f.stroke, color |-> f.color, fill |-> f.fill, font |-> f.font]

LayerMessage(layer) ==
  [clip |-> layer.clip, view |-> layer.view, isAxisText |-> layer.isAxisText,
   figures |-> [i \in 1..Len(layer.figures) |-> FigureMessage(layer.figures[i])]]

Message ==
  [viewports |-> [i \in 1..Len(parser.viewports) |-> ViewportMessage(parser.viewports[i])],
   colors |-> parser.colors, strokes |-> parser.strokes, fonts |-> parser.fonts,
   layers |-> [i \in 1..Len(plot.layers) |-> LayerMessage(plot.layers[i])]]

-----------------------------------------------------------------------------
(* A reader of the message.                                                 *)

Signed(bits, width) == IF bits >= 2^(width - 1) THEN bits - 2^width ELSE bits
ScaleOf(packed) == Signed((packed \div 2^16) % 2^15, 15)
OffsetOf(packed) == Signed(packed % 2^16, 16)

\* |number / 2^fraction - n / d| is less than the last bit.
Near(number, fraction, n, d) == Absolute(number * d - n * 2^fraction) < d
Means(packed, c) == /\ packed \in 0..(2^30 + (2^30 - 1))
                    /\ Near(ScaleOf(packed), 13, c.n, c.d)
                    /\ Near(OffsetOf(packed), 10, c.off, c.d)
PointMeans(packed, p) == Means(packed.x, p.x) /\ Means(packed.y, p.y)

(* What a client unpacks differs from the coordinates by less than the last *)
(* bit, negative ones too, and a point is left out of the preview exactly   *)
(* when its mask says so; the counts are those of the points that are left. *)
MessageMeansPlot ==
  plot.error = "NONE" =>
    /\ \A v \in 1..Len(parser.viewports) :
         ~parser.viewports[v].isFixed =>
           /\ PointMeans(Message.viewports[v].from, parser.viewports[v].from)
           /\ PointMeans(Message.viewports[v].to, parser.viewports[v].to)
    /\ \A l \in 1..Len(plot.layers) : \A g \in 1..Len(plot.layers[l].figures) :
         LET f == plot.layers[l].figures[g]
             message == Message.layers[l].figures[g]
             visible(line) == {j \in 1..Len(line.points) : ~line.points[j].mask}
         IN  /\ Means(message.radius, f.radius)
             /\ \A i \in 1..Len(f.lines) :
                  /\ \A j \in 1..Len(f.lines[i]) :
                       PointMeans(message.lines[i].points[j].point, f.lines[i][j])
                  /\ f.kind # "CIRCLE" =>
                       Cardinality(visible(message.lines[i])) = message.lines[i].previewCount
=============================================================================
