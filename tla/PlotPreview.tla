----------------------------- MODULE PlotPreview -----------------------------
(***************************************************************************)
(* The preview of one polyline and of one batch of circles: a step         *)
(* computes the masks of what was drawn.                                   *)
(***************************************************************************)
EXTENDS PlotGeometry

CONSTANTS Polylines, Batches,   \* what a plot may hold
          Area                  \* the clipping area of the circles

ASSUME PreviewAssumption ==
  /\ \A s \in Polylines : s \in Seq([x : Int, y : Int])
  /\ \A s \in Batches : s \in Seq([x : Int, y : Int])

VARIABLES points,     \* a polyline
          centers,    \* the centres of a batch of circles
          preview,    \* of the polyline: [mask, count]
          mask        \* of the circles
previewVars == <<points, centers, preview, mask>>

Nothing == [mask |-> {}, count |-> -1]

Draws(polylines, batches) == /\ points \in polylines /\ centers \in batches
                             /\ preview = Nothing /\ mask = {}
PreviewInit == Draws(Polylines, Batches)

Preview ==
  /\ preview = Nothing
  /\ preview' = PolylinePreview(points)
  /\ mask' = CircleMask(centers, Area)
  /\ UNCHANGED <<points, centers>>

PreviewSpec == PreviewInit /\ [][Preview]_previewVars

-----------------------------------------------------------------------------
Shown == (1..Len(points)) \ preview.mask
Done == preview # Nothing
Squared(n) == n * n

(* The count that goes with a preview, and of which the complexity is made, *)
(* is the number of points the preview shows, the two ends among them.      *)
CountsWhatShows ==
  Done => /\ preview.count = Cardinality(Shown)
          /\ points # <<>> => {1, Len(points)} \subseteq Shown

(* Every point left out lies within LINE_DISTANCE_THRESHOLD of the line     *)
(* through the two points shown around it.                                  *)
RemovedAreNearTheLine ==
  Done => \A i \in preview.mask :
    \E a, b \in Shown :
      /\ a < i /\ i < b /\ (a + 1)..(b - 1) \subseteq preview.mask
      /\ NearLine(points, Line(points[a], points[b]), i)

(* Every circle left out of the preview lies within                         *)
(* CIRCLE_DISTANCE_THRESHOLD of a circle that is drawn later and shown:     *)
(* circles that hide each other in a chain do not all vanish.               *)
HiddenBehindShown ==
  Done => \A i \in mask :
    \E j \in (i + 1)..Len(centers) :
      j \notin mask /\ SquaredDistance(centers[i], centers[j]) < Squared(CircleDistance)

(* A preview counts what it shows, and leaves out only points near the line *)
(* through those around them and circles near a later one that is shown     *)
(* (buildPreviewMask, of polylines and of circles).                         *)
PreviewsKeepShapes == CountsWhatShows /\ RemovedAreNearTheLine /\ HiddenBehindShown
=============================================================================
