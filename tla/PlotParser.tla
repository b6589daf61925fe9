----------------------------- MODULE PlotParser -----------------------------
(***************************************************************************)
(* DifferentialParser (PlotUtil.cpp): a plot replayed on two proxy devices *)
(* of different sizes becomes viewports and layers of figures with affine  *)
(* coordinates, from which a client draws it at any size.                  *)
(*                                                                         *)
(* A step takes one pair of recorded actions (a batch of circles is taken  *)
(* whole, as the code does).  An action of Acts knows what R draws at every*)
(* size: `lines` are its points, `radius` its radius, `font` its font.     *)
(* Indices start at 1: the viewport and the clipping area of the device    *)
(* are 1, an absent stroke, colour or fill is 0.                           *)
(***************************************************************************)
EXTENDS PlotGeometry, PlotFigures

CONSTANTS Acts,          \* what R may draw
          DeviceArea,    \* the device at each size
          Sizes,         \* the sizes, First and Second among them
          First, Second,
          MaxActions     \* bound on a recording

VARIABLES parser,        \* the fields of DifferentialParser
          recording,     \* the actions so far
          complexity,    \* of the device that recorded them
          plot           \* what buildPlot returned, or NoPlot
vars == <<parser, recording, complexity, plot>>

NoPlot == [layers |-> <<>>, error |-> "no plot"]
Device == 1

\* Color::isTransparent and isOpaque; "glass" stands for what is neither.
IsTransparent(color) == color = "transparent"
IsOpaque(color) == color \notin {"transparent", "glass"}

\* The rectangle between two corners.
AreaOf(corners, size) == Rect(corners[size][1][1], corners[size][1][2])

IndexIn(object, objects) == CHOOSE i \in 1..Len(objects) : objects[i] = object
Member(object, objects) == \E i \in 1..Len(objects) : objects[i] = object
Registered(objects, object) ==
  IF Member(object, objects) THEN objects ELSE Append(objects, object)

Init ==
  /\ parser = [first |-> <<DeviceArea[First]>>, second |-> <<DeviceArea[Second]>>,
               viewports |-> <<[parent |-> 0, isFixed |-> FALSE,
                                from |-> Pt([n |-> 0, d |-> 1, off |-> 0], [n |-> 0, d |-> 1, off |-> 0]),
                                to |-> Pt([n |-> 1, d |-> 1, off |-> 0], [n |-> 1, d |-> 1, off |-> 0])]>>,
               colors |-> <<"black", "white">>, strokes |-> <<>>, fonts |-> <<"default">>,
               layers |-> <<>>, figures |-> <<>>, clip |-> Device, view |-> Device,
               state |-> "INITIAL", line |-> 0, lines |-> <<>>, axisText |-> <<>>]
  /\ recording = <<>> /\ complexity = 0 /\ plot = NoPlot

-----------------------------------------------------------------------------
(* Layers and the three states.                                             *)

\* flushCurrentLayer
Flushed(q) ==
  IF q.figures = <<>> THEN q
  ELSE [q EXCEPT !.layers = Append(@, [view |-> q.view, clip |-> q.clip,
                                       figures |-> q.figures, isAxisText |-> FALSE]),
                 !.axisText = IF q.state = "AXIS_TEXT" THEN Append(@, Len(q.layers) + 1) ELSE @,
                 !.lines = IF q.state = "AXIS_TEXT" THEN Append(@, q.line) ELSE @,
                 !.figures = <<>>]

SwitchedTo(q, state) == [Flushed(q) EXCEPT !.state = state]

\* What comes before the dispatch on the kind, and in the cases LINE and TEXT.
Entered(q, a) ==
  CASE a.kind = "LINE" /\ q.clip = Device /\ q.state # "AXIS_LINES" ->
         [SwitchedTo(SwitchedTo(q, "INITIAL"), "AXIS_LINES") EXCEPT !.line = Len(recording) + 1]
    [] a.kind = "LINE" /\ q.clip # Device /\ q.state # "INITIAL" -> SwitchedTo(q, "INITIAL")
    [] a.kind = "TEXT" /\ q.clip = Device /\ q.state = "AXIS_LINES" -> SwitchedTo(q, "AXIS_TEXT")
    [] a.kind = "TEXT" /\ q.clip # Device /\ q.state = "AXIS_TEXT" -> SwitchedTo(q, "INITIAL")
    [] a.kind \notin {"LINE", "TEXT"} /\ q.state # "INITIAL" -> SwitchedTo(q, "INITIAL")
    [] OTHER -> q

\* An opaque rectangle over the whole device: nothing under it is painted.
Covers(q, a) ==
  /\ a.kind = "RECTANGLE" /\ q.clip = Device /\ IsOpaque(a.fill)
  /\ AreaOf(a.lines, First) = q.first[Device]

Uncovered(q, a) ==
  IF Covers(q, a) THEN [q EXCEPT !.axisText = <<>>, !.figures = <<>>, !.lines = <<>>, !.layers = <<>>]
  ELSE q

-----------------------------------------------------------------------------
(* Figures.                                                                 *)

Extrapolated(q, p1, p2) == AffinePoint(q.first[q.view], p1, q.second[q.view], p2)

\* The points of a line are clipped first, each replay by its own area.
Drawn(a, size, areas, view) ==
  IF a.kind = "LINE" THEN <<ClipLine(a.lines[size][1][1], a.lines[size][1][2], areas[view])>>
  ELSE a.lines[size]

\* getOrRegisterColorIndex: what is transparent has no index.
ColorIndex(q, color) == IF IsTransparent(color) THEN 0 ELSE IndexIn(color, q.colors)
WithColor(colors, color) == IF IsTransparent(color) THEN colors ELSE Registered(colors, color)

\* q with the stroke, the colours and the font of a.
Colored(q, a) ==
  [q EXCEPT !.strokes = IF a.kind \in {"NEW_PAGE", "TEXT", "RASTER"} THEN @ ELSE Registered(@, a.stroke),
            !.colors = WithColor(WithColor(@, a.color), a.fill),
            !.fonts = IF a.kind = "TEXT" THEN Registered(@, a.font[First]) ELSE @]

Radius(q, a) == AffineCoordinate(Height(q.first[q.view]), a.radius[First],
                                 Height(q.second[q.view]), a.radius[Second])

AffineLines(q, first, second) ==
  [i \in 1..Len(first) |->
    [j \in 1..Len(first[i]) |-> Extrapolated(q, first[i][j], second[i][j])]]

\* What an action becomes; q has its objects registered.
FigureOf(q, a, lines, isMasked) ==
  LET from == lines[1][1]
      to == lines[1][2]
      stroke == IF Member(a.stroke, q.strokes) THEN IndexIn(a.stroke, q.strokes) ELSE 0
      color == ColorIndex(q, a.color)
      fill == ColorIndex(q, a.fill)
      preview(i) == PolylinePreview(a.lines[First][i])
  IN  CASE a.kind = "CIRCLE" -> CircleFigure(from, Radius(q, a), stroke, color, fill, isMasked)
        [] a.kind = "LINE" -> LineFigure(from, to, stroke, color)
        [] a.kind = "NEW_PAGE" -> RectangleFigure(q.viewports[Device].from, q.viewports[Device].to, 0, 0, fill)
        [] a.kind = "PATH" -> PathFigure(lines, [i \in 1..Len(lines) |-> preview(i)], stroke, color, fill)
        [] a.kind = "POLYGON" -> PolygonFigure(lines[1], preview(1), stroke, color, fill)
        [] a.kind = "POLYLINE" /\ Len(a.lines[First][1]) = 2 -> LineFigure(from, to, stroke, color)
        [] a.kind = "POLYLINE" /\ Len(a.lines[First][1]) # 2 ->
             PolylineFigure(lines[1], preview(1), stroke, color)
        [] a.kind = "RASTER" -> RasterFigure(from, to)
        [] a.kind = "RECTANGLE" -> RectangleFigure(from, to, stroke, color, fill)
        [] a.kind = "TEXT" -> TextFigure(from, IndexIn(a.font[First], q.fonts), color)

\* `number` is the place of the action in the recording.
Figure(q, a, number, isMasked) ==
  [FigureOf(q, a, AffineLines(q, Drawn(a, First, q.first, q.view), Drawn(a, Second, q.second, q.view)),
            isMasked) EXCEPT !.number = number]

\* `r` is the state in which a is drawn, its objects registered.
WithFigure(q, a, isMasked) ==
  CHOOSE s \in {[r EXCEPT !.figures = Append(@, Figure(r, a, Len(recording) + 1, isMasked))] :
                  r \in {Colored(Uncovered(Entered(q, a), a), a)}} : TRUE

Mismatches(a) ==
  \/ Len(a.lines[First]) # Len(a.lines[Second])
  \/ \E i \in 1..Len(a.lines[First]) : Len(a.lines[First][i]) # Len(a.lines[Second][i])

-----------------------------------------------------------------------------
(* Viewports.                                                               *)

FixedViewport(size1, size2, parent) ==     \* extrapolateFixed; `ratio` = rn / rd
  [parent |-> parent, isFixed |-> TRUE, rn |-> Height(size2) - Height(size1),
   rd |-> Width(size2) - Width(size1), width |-> Width(size1), height |-> Height(size1)]

FreeViewport(q, area1, area2, parent) ==
  [parent |-> parent, isFixed |-> FALSE,
   from |-> AffinePoint(q.first[parent], area1.from, q.second[parent], area2.from),
   to |-> AffinePoint(q.first[parent], area1.to, q.second[parent], area2.to)]

NewViewport(q, area1, area2) ==
  LET parent == ParentArea(area1, q.first)
  IN  IF IsFixedRatio(area1, q.first[parent]) /\ ~HasChildren(parent, q.first)
      THEN FixedViewport(area1, area2, parent) ELSE FreeViewport(q, area1, area2, parent)

\* getOrRegisterViewportIndex: areas are told apart by the first replay alone.
WithArea(q, area1, area2) ==
  IF Member(area1, q.first) THEN q
  ELSE [q EXCEPT !.first = Append(@, area1), !.second = Append(@, area2),
                 !.viewports = Append(@, NewViewport(q, area1, area2)),
                 !.view = ParentArea(area1, q.first)]

SuggestViewport(q, requested) ==
  LET parent == q.viewports[q.view].parent
  IN  IF requested = Device /\ parent # 0 /\ q.viewports[parent].isFixed THEN parent ELSE requested

\* Mutant of Clipped: the layer is not flushed.
ClippedUnflushed(q, area1, area2) ==
  CHOOSE s \in {[r EXCEPT !.clip = IndexIn(area1, r.first),
                          !.view = SuggestViewport(r, IndexIn(area1, r.first))] :
                  r \in {WithArea(q, area1, area2)}} : TRUE
Clipped(q, area1, area2) ==
  CHOOSE s \in {[r EXCEPT !.clip = IndexIn(area1, r.first),
                          !.view = SuggestViewport(r, IndexIn(area1, r.first))] :
                  r \in {WithArea(Flushed(q), area1, area2)}} : TRUE

-----------------------------------------------------------------------------
(* The cost of a figure, as the device and as the parser count it.          *)

Flags(stroked, filled) == (IF stroked THEN 1 ELSE 0) + (IF filled THEN 1 ELSE 0)
RECURSIVE SumOf(_)
SumOf(s) == IF s = <<>> THEN 0 ELSE Head(s) + SumOf(Tail(s))

\* What REagerGraphicsDevice adds to its complexity; an image is 8 by 8.
DeviceCost(a) ==
  LET multiplier == Flags(~IsTransparent(a.color), ~IsTransparent(a.fill))
      count == SumOf([i \in 1..Len(a.lines[First]) |-> Len(a.lines[First][i])])
  IN  CASE a.kind = "CIRCLE" -> multiplier
        [] a.kind = "RECTANGLE" -> 2 * multiplier
        [] a.kind \in {"PATH", "POLYGON"} -> count * multiplier
        [] a.kind = "POLYLINE" -> count
        [] a.kind = "LINE" -> 2
        [] a.kind = "TEXT" -> 10
        [] a.kind = "RASTER" -> 8
        [] OTHER -> 0

\* calculatePreviewComplexity
PreviewCost(q, f) ==
  LET hasFill == f.fill # 0
      hasStroke == f.stroke # 0 /\ f.color # 0 /\ (hasFill => q.strokes[f.stroke] = "thick")
      multiplier == Flags(hasStroke, hasFill)
      count == SumOf([i \in 1..Len(f.previews) |-> f.previews[i].count])
  IN  CASE f.kind = "CIRCLE" -> IF f.isMasked THEN 0 ELSE multiplier
        [] f.kind = "RECTANGLE" -> 2 * multiplier
        [] f.kind \in {"PATH", "POLYGON"} -> count * multiplier
        [] f.kind = "POLYLINE" -> count
        [] f.kind = "LINE" -> 2
        [] f.kind = "TEXT" -> 10
        [] f.kind = "RASTER" -> 8

-----------------------------------------------------------------------------
(* The loop of parse: one action of each replay, clips and circles apart.   *)

Parsing == plot = NoPlot
Recorded(as) == /\ recording' = recording \o as
                /\ Len(recording) + Len(as) <= MaxActions
                /\ complexity' = complexity + SumOf([i \in 1..Len(as) |-> DeviceCost(as[i])])
Failed(error) == /\ plot' = [layers |-> <<>>, error |-> error] /\ UNCHANGED parser

Draw(a) ==
  /\ Parsing /\ a.kind \notin {"CLIP", "CIRCLE"} /\ Recorded(<<a>>)
  /\ ~Mismatches(a) /\ (a.kind = "TEXT" => a.font[First] = a.font[Second])
  /\ parser' = WithFigure(parser, a, FALSE)
  /\ UNCHANGED plot

Clip(a) ==
  /\ Parsing /\ a.kind = "CLIP" /\ Recorded(<<a>>)
  /\ parser' = Clipped(parser, AreaOf(a.lines, First), AreaOf(a.lines, Second))
  /\ UNCHANGED plot

\* A maximal run of circles, masked together.
Circles(batch) ==
  /\ Parsing /\ Recorded(batch)
  /\ recording # <<>> => recording[Len(recording)].kind # "CIRCLE"
  /\ \E q \in {Entered(parser, batch[1])} :
       LET mask == IF Len(batch) = 1 THEN {}
                   ELSE CircleMask([i \in 1..Len(batch) |-> batch[i].lines[First][1][1]], q.first[q.clip])
           drawn[i \in 0..Len(batch)] ==
             IF i = 0 THEN q
             ELSE LET r == Colored(drawn[i - 1], batch[i])
                  IN  [r EXCEPT !.figures =
                         Append(@, Figure(r, batch[i], Len(recording) + i, i \in mask))]
       IN  parser' = drawn[Len(batch)]
  /\ UNCHANGED plot

Fail(a) ==
  /\ Parsing /\ a.kind \notin {"CLIP", "CIRCLE"} /\ Recorded(<<a>>)
  /\ \/ Mismatches(a) /\ Failed("MISMATCHING_ACTIONS")
     \/ /\ a.kind = "TEXT" /\ a.font[First] # a.font[Second]
        /\ Failed("GROWING_TEXT")

TouchesAny(p, areas) == \E i \in 1..Len(areas) : Touches(p, areas[i])

\* markAxisTextLayers on the flushed layers.
Marked(q) ==
  {q.axisText[i] : i \in {j \in 1..Len(q.axisText) :
     TouchesAny(recording[q.lines[j]].lines[First][1][1], q.first)}}

Finish ==
  /\ Parsing
  /\ parser' = Flushed(parser)
  /\ plot' = [layers |-> [i \in 1..Len(parser'.layers) |->
                           [parser'.layers[i] EXCEPT !.isAxisText = i \in Marked(parser')]],
              previewComplexity |->
                SumOf([i \in 1..Len(parser'.layers) |->
                  SumOf([j \in 1..Len(parser'.layers[i].figures) |->
                    PreviewCost(parser', parser'.layers[i].figures[j])])]),
              totalComplexity |-> complexity, error |-> "NONE"]
  /\ UNCHANGED <<recording, complexity>>

BatchesOf(n) == UNION {[1..k -> {a \in Acts : a.kind = "CIRCLE"}] : k \in 1..n}
\* One plot has one layout, whose outer areas come before the inner ones.
Allowed(a) == LET drawn == {recording[i] : i \in 1..Len(recording)}
              IN  /\ a.after \subseteq drawn
                  /\ \A b \in drawn : Cardinality({a.layout, b.layout} \ {"any"}) <= 1

Next == \/ \E a \in Acts : Allowed(a) /\ (Draw(a) \/ Clip(a) \/ Fail(a))
        \/ \E batch \in BatchesOf(3) : Circles(batch)
        \/ Finish

Spec == Init /\ [][Next]_vars

-----------------------------------------------------------------------------
(* What a client draws (its code is elsewhere): the rectangle of a viewport *)
(* from its parent's, by the formulas in the comment of extrapolateFixed.   *)

Smaller(a, b) == IF a < b THEN a ELSE b
FixedRect(v, r) ==
  LET w == Smaller(Width(r), v.width + Quotient((Height(r) - v.height) * v.rd, v.rn))
      h == Smaller(Height(r), v.height + Quotient((Width(r) - v.width) * v.rn, v.rd))
      from == Pt(r.from.x + (Width(r) - w) \div 2, r.from.y + (Height(r) - h) \div 2)
  IN  Rect(from, Pt(from.x + w, from.y + h))
FreePoint(r, p) == Pt(r.from.x + ValueAt(p.x, Width(r)), r.from.y + ValueAt(p.y, Height(r)))

ViewportAt(q, index, size) ==
  LET rect[i \in 1..Len(q.viewports)] ==
        IF i = Device THEN DeviceArea[size]
        ELSE LET v == q.viewports[i]
             IN  IF v.isFixed THEN FixedRect(v, rect[v.parent])
                 ELSE Rect(FreePoint(rect[v.parent], v.from), FreePoint(rect[v.parent], v.to))
  IN  rect[index]

LinesAt(q, f, view, size) ==
  [i \in 1..Len(f.lines) |->
    [j \in 1..Len(f.lines[i]) |-> FreePoint(ViewportAt(q, view, size), f.lines[i][j])]]

\* The figures of a layer, and the layer that is being filled.
AllLayers(q) ==
  IF q.figures = <<>> THEN q.layers
  ELSE Append(q.layers, [view |-> q.view, clip |-> q.clip, figures |-> q.figures])

-----------------------------------------------------------------------------
(* Properties                                                               *)

(* A plot drawn by a client at the size of either replay shows every figure *)
(* where that replay put it, through whatever viewports the parser chose.   *)
RightAtReplays ==
  \A layer \in {AllLayers(parser)[i] : i \in 1..Len(AllLayers(parser))} :
    \A f \in {layer.figures[i] : i \in 1..Len(layer.figures)} :
      LET a == recording[f.number]
      IN  a.kind = "NEW_PAGE" \/
          /\ LinesAt(parser, f, layer.view, First) = Drawn(a, First, parser.first, layer.view)
          /\ LinesAt(parser, f, layer.view, Second) = Drawn(a, Second, parser.second, layer.view)

(* What R lays out relative to the viewport the parser put it in is right   *)
(* at every size: "the plot's coordinates obey the linear model"            *)
(* (PlotUtil.cpp:122), fixed viewports too.                                 *)
RightEverywhere ==
  \A layer \in {AllLayers(parser)[i] : i \in 1..Len(AllLayers(parser))} :
    \A f \in {layer.figures[i] : i \in 1..Len(layer.figures)} :
      LET a == recording[f.number]
      IN  AreaOf(a.within, First) = parser.first[layer.view] =>
            \A size \in Sizes :
              LinesAt(parser, f, layer.view, size) = Drawn(a, size, <<AreaOf(a.within, size)>>, 1)

\* The clipping area in force when action i was recorded.
ClipAt(i) ==
  LET clips == {j \in 1..(i - 1) : recording[j].kind = "CLIP"}
  IN  IF clips = {} THEN DeviceArea[First]
      ELSE AreaOf(recording[CHOOSE j \in clips : \A k \in clips : k <= j].lines, First)
UnderDevice(i) == ClipAt(i) = DeviceArea[First]
Covering(i) == /\ recording[i].kind = "RECTANGLE" /\ UnderDevice(i) /\ IsOpaque(recording[i].fill)
               /\ recording[i].lines[First] = <<<<DeviceArea[First].from, DeviceArea[First].to>>>>
Painted == {i \in 1..Len(recording) :
              recording[i].kind # "CLIP" /\ \A j \in (i + 1)..Len(recording) : ~Covering(j)}

(* The layers hold what was drawn since the last opaque background, each    *)
(* figure once, in the order of drawing and under its own clipping area.    *)
PaintersOrder ==
  plot.error = "NONE" =>
    LET numbers[i \in 0..Len(plot.layers)] ==
          IF i = 0 THEN <<>>
          ELSE numbers[i - 1] \o [j \in 1..Len(plot.layers[i].figures) |->
                                     plot.layers[i].figures[j].number]
        order == numbers[Len(plot.layers)]
    IN  /\ {order[i] : i \in 1..Len(order)} = Painted
        /\ \A i, j \in 1..Len(order) : i < j => order[i] < order[j]
        /\ \A layer \in {plot.layers[i] : i \in 1..Len(plot.layers)} :
             \A f \in {layer.figures[i] : i \in 1..Len(layer.figures)} :
               parser.first[layer.clip] = ClipAt(f.number)

\* Only lines, texts and clips between l and t.
Undisturbed(l, t) == \A i \in l..t : recording[i].kind \in {"LINE", "TEXT", "CLIP"}
TouchesArea(i) == TouchesAny(recording[i].lines[First][1][1], parser.first)
AxisLine(i) == recording[i].kind = "LINE" /\ UnderDevice(i)

(* A layer is marked as labels of an axis only when it holds texts outside  *)
(* the panels that follow a line touching a panel; and a text right behind  *)
(* such a line, the first of its run, is marked.                            *)
AxisTextBesideAxes ==
  plot.error = "NONE" =>
    \A layer \in {plot.layers[i] : i \in 1..Len(plot.layers)} :
      \A t \in {layer.figures[i].number : i \in 1..Len(layer.figures)} :
        /\ layer.isAxisText =>
             /\ recording[t].kind = "TEXT" /\ UnderDevice(t)
             /\ \E l \in 1..(t - 1) : AxisLine(l) /\ TouchesArea(l) /\ Undisturbed(l, t)
        /\ (/\ recording[t].kind = "TEXT" /\ UnderDevice(t) /\ t > 1
            /\ AxisLine(t - 1) /\ TouchesArea(t - 1)
            /\ (t > 2 => recording[t - 2].kind \notin {"LINE", "TEXT", "CLIP"})) => layer.isAxisText

(* A preview never costs more than the plot (fetchPlot bounds the plot), a  *)
(* new page apart, which the device does not count.                         *)
PreviewIsCheaper ==
  plot.error = "NONE" =>
    plot.previewComplexity <= plot.totalComplexity
      + 2 * Cardinality({i \in 1..Len(recording) : recording[i].kind = "NEW_PAGE"})

(* A figure points to the colours, the stroke and the font it was drawn in. *)
TypeOK ==
  /\ parser.state \in {"INITIAL", "AXIS_LINES", "AXIS_TEXT"}
  /\ \A layer \in {AllLayers(parser)[i] : i \in 1..Len(AllLayers(parser))} :
       \A f \in {layer.figures[i] : i \in 1..Len(layer.figures)} :
         LET a == recording[f.number]
             points(index, objects, object) == IF index = 0 THEN IsTransparent(object) ELSE objects[index] = object
         IN  /\ points(f.color, parser.colors, a.color) /\ points(f.fill, parser.colors, a.fill)
             /\ f.stroke # 0 => parser.strokes[f.stroke] = a.stroke
             /\ f.font # 0 => parser.fonts[f.font] = a.font[First]
=============================================================================
