---------------------------- MODULE MCGraphics ----------------------------
(* Graphics, side by side and told apart by `part`:                        *)
(*   "plots", "chunk",    Snapshots: plots of the console; a chunk of a    *)
(*   "memory"             document over them; snapshots kept in memory     *)
(*   "layout", "layers",  PlotParser and PlotMessage: viewports that are   *)
(*   "figures"            free, fixed and in columns; what covers and      *)
(*                        labels what; every kind of figure                *)
(*   "polylines",         PlotPreview: polylines of six points; batches of *)
(*   "circles"            three circles (one cell) and four (four cells)   *)
(* The variables of the other parts rest.  The replays are of 12 by 8 and  *)
(* 24 by 16 (the code doubles the proxy too); clients draw at two more.    *)
EXTENDS PlotMessage, PlotPreview
VARIABLES part, g, drawn, fetched

McFirst == 1
McSecond == 2
McSizes == 1..4
W == <<12, 24, 18, 30>>
H == <<8, 16, 20, 8>>

At(f(_, _)) == [s \in McSizes |-> f(W[s], H[s])]
RectOf(a, b, c, d) == Rect(Pt(a, b), Pt(c, d))

DeviceOf(w, h) == RectOf(0, 0, w, h)
LeftOf(w, h) == RectOf(0, 0, w \div 3, h)
MiddleOf(w, h) == RectOf(w \div 3, 0, 2 * (w \div 3), h)
PanelOf(w, h) == RectOf(2, 1, w - 1, h - 3)
\* (height) / (width - 2) = 1, centered in the device.
FixedOf(w, h) ==
  LET side == Smaller(w - 2, h)
      x == (w - side - 2) \div 2
      y == (h - side) \div 2
  IN  RectOf(x, y, x + side + 2, y + side)
InnerOf(w, h) == LET r == FixedOf(w, h) IN RectOf(r.from.x + 1, r.from.y + 1, r.to.x - 1, r.to.y - 2)

McDeviceArea == At(DeviceOf)
Corners(f(_, _)) == [s \in McSizes |-> <<<<f(W[s], H[s]).from, f(W[s], H[s]).to>>>>]
Diagonal(f(_, _)) == [s \in McSizes |-> LET r == f(W[s], H[s])
                               IN  <<<<Pt(r.from.x, r.to.y), Pt(r.to.x, r.from.y)>>>>]
Same(lines) == [s \in McSizes |-> lines]
Within(f(_, _), a) == [a EXCEPT !.within = Corners(f)]

ClipTo(f(_, _)) == ClipAction(Corners(f))
\* A line that leaves its area on the right.
Across(f(_, _)) ==
  Within(f, LineAction([s \in McSizes |-> LET r == f(W[s], H[s])
                         IN  <<<<Pt(r.from.x + 1, r.from.y + 1), Pt(r.to.x + 3, r.from.y + 1)>>>>],
                       "thick", "red"))
\* Corners or ends on the border of an area.
BoxIn(f(_, _)) == Within(f, RectangleAction(Diagonal(f), "thick", "red", "transparent"))
PolygonIn(f(_, _)) == Within(f, PolygonAction(Diagonal(f), "thick", "red", "transparent"))

Laid(layout, acts) == {[a EXCEPT !.layout = layout] : a \in acts}
FixedClip == [ClipTo(FixedOf) EXCEPT !.layout = "fixed"]
LeftClip == [ClipTo(LeftOf) EXCEPT !.layout = "columns"]
McLayout ==
  {ClipTo(DeviceOf), FixedClip, LeftClip}
  \cup Laid("fixed", {[ClipTo(InnerOf) EXCEPT !.after = {FixedClip}], PolygonIn(FixedOf),
                      Within(InnerOf, PolylineAction(Diagonal(InnerOf), "thick", "red")), Across(InnerOf)})
  \cup Laid("columns", {[ClipTo(MiddleOf) EXCEPT !.after = {LeftClip}], BoxIn(MiddleOf)})
  \cup Laid("panel", {ClipTo(PanelOf), PolygonIn(PanelOf), Across(PanelOf)})
Font(size) == [s \in McSizes |-> IF s = McSecond THEN size ELSE "default"]
Text == TextAction(Same(<<<<Pt(1, 1)>>>>), Font("default"), "black")
Tick == LineAction(Same(<<<<Pt(2, 3), Pt(1, 3)>>>>), "thin", "black")
Stray == LineAction(Same(<<<<Pt(0, 0), Pt(1, 1)>>>>), "thin", "black")
McLayers == {ClipTo(DeviceOf), ClipTo(PanelOf), Text, Tick, Stray,
             RectangleAction(Corners(DeviceOf), "thick", "red", "white"),
             RectangleAction(Corners(PanelOf), "thick", "red", "glass")}

Dot(a, b) == CircleAction([s \in McSizes |-> <<<<Pt((a * W[s]) \div 12, b)>>>>], [s \in McSizes |-> s], "thick", "red", "red")
Jagged == Same(<<<<Pt(0, 0), Pt(4, 1), Pt(8, 0), Pt(12, 6)>>>>)
McFigures ==
  {NewPageAction(Jagged, "white"), Dot(2, 2), Dot(4, 2), Text, ClipTo(PanelOf),
   TextAction(Jagged, Font("larger"), "black"),
   PolygonAction(Jagged, "thick", "red", "glass"),
   PolygonAction([Jagged EXCEPT ![McSecond] = <<<<Pt(0, 0), Pt(4, 1), Pt(8, 0)>>>>], "thick", "red", "glass"),
   PathAction(Same(<<<<Pt(0, 0), Pt(4, 1)>>, <<Pt(1, 1)>>>>), "thick", "red", "glass"),
   PolylineAction(Jagged, "thick", "black"), RasterAction(Corners(DeviceOf)),
   RectangleAction(Corners(DeviceOf), "thick", "transparent", "glass")}

Covered == INSTANCE PlotParser WITH Acts <- McLayers, MaxActions <- 5
EveryKind == INSTANCE PlotParser WITH Acts <- McFigures, MaxActions <- 4
--------------------------------------------------------------------------
Plots == INSTANCE Snapshots
    WITH MaxSlots <- 8, MaxDraws <- 4, MaxInfos <- 3, MaxStack <- 2, MaxVersion <- 2,
         WritesBlank <- TRUE, InMemory <- FALSE
Chunk == INSTANCE Snapshots
    WITH MaxSlots <- 9, MaxDraws <- 2, MaxInfos <- 3, MaxStack <- 3, MaxVersion <- 2,
         WritesBlank <- TRUE, InMemory <- FALSE
Memory == INSTANCE Snapshots
    WITH MaxSlots <- 8, MaxDraws <- 2, MaxInfos <- 3, MaxStack <- 2, MaxVersion <- 2,
         WritesBlank <- FALSE, InMemory <- TRUE
snapshotVars == <<g, drawn, fetched>>

McArea == Rect(Pt(0, 0), Pt(8, 4))
Grid(xs, ys) == {Pt(a, b) : a \in xs, b \in ys}
McPolylines == {<<>>} \cup {<<Pt(0, 0)>> \o s : s \in [1..5 -> Grid({0, 3, 6}, {0, 1})]}
               \cup {<<Pt(0, 0), Pt(3, 1)>>}
McBatches == {<<>>} \cup UNION {[1..n -> Grid({0, 2, 4, 7}, {0, 2})] : n \in {3, 4}}
--------------------------------------------------------------------------
MCInit ==
    /\ part \in {"plots", "chunk", "memory", "layout", "layers", "figures", "polylines",
                 "circles"}
    /\ Init
    /\ CASE part = "plots" -> Plots!Init
         [] part = "chunk" -> Chunk!Init
         [] OTHER -> Memory!Init
    /\ Draws(IF part = "polylines" THEN Polylines ELSE {<<>>},
             IF part = "circles" THEN Batches ELSE {<<>>})

MCNext ==
    /\ \/ /\ \/ part = "plots" /\ Plots!Next
             \/ part = "chunk" /\ Chunk!Next
             \/ part = "memory" /\ Memory!Next
          /\ UNCHANGED <<vars, previewVars>>
       \/ /\ \/ part = "layout" /\ Next
             \/ part = "layers" /\ Covered!Next
             \/ part = "figures" /\ EveryKind!Next
          /\ UNCHANGED <<snapshotVars, previewVars>>
       \/ /\ part \in {"polylines", "circles"}
          /\ Preview
          /\ UNCHANGED <<vars, snapshotVars>>
    /\ UNCHANGED part

MCSpec == MCInit /\ [][MCNext]_<<vars, snapshotVars, previewVars, part>>

\* Recordings, files and fetched plots show what was drawn while their snapshot
\* was the current one, however plots, panels, devices of the user, chunks and
\* the client's dumps, rescalings and fetches follow each other.  The exception
\* is what a dump recorded astray, while another device than the snapshot's was
\* selected (MasterDevice::record takes the selected one): that recording, the
\* files replayed from it and what is fetched of it.  (MasterDevice,
\* REagerGraphicsDevice, DeviceManager.)
SnapshotsShowTheirPlots ==
    /\ part = "plots" => Plots!ShowTheirPlots
    /\ part = "chunk" => Chunk!ShowTheirPlots
    /\ part = "memory" => Memory!ShowTheirPlots

\* The layers, viewports and coordinates the client gets are those of the plot,
\* at the sizes of both replays and at others, after packing too, and no
\* preview costs more than its plot (DifferentialParser, fetchPlot).
PlotsMeanTheirRecordings ==
    /\ part = "layout" => RightAtReplays /\ RightEverywhere
    /\ part = "layers" => PaintersOrder /\ AxisTextBesideAxes
    /\ part = "figures" => TypeOK /\ PreviewIsCheaper /\ MessageMeansPlot
===========================================================================
