----------------------------- MODULE PlotFigures -----------------------------
(***************************************************************************)
(* The actions a proxy device records (actions/*.h) and the figures the    *)
(* parser makes of them (figures/*.h).  An action carries its geometry at  *)
(* every size: `lines` are functions from sizes to sequences of polylines, *)
(* `radius` and `font` functions from sizes too.  A figure carries affine  *)
(* points; its indices are 0 when it has no such stroke, colour, fill or   *)
(* font.  `within`, `layout` and `after` say how R came to draw an action. *)
(* The image and its angle, the text, its angle and its anchor, and the    *)
(* winding of a path are left out: they are handed on as they are.         *)
(***************************************************************************)
Action(kind, lines) ==
  [kind |-> kind, lines |-> lines, radius |-> [s \in DOMAIN lines |-> 0],
   font |-> [s \in DOMAIN lines |-> "none"],
   stroke |-> "none", color |-> "transparent", fill |-> "transparent",
   within |-> lines, layout |-> "any", after |-> {}]

CircleAction(center, radius, stroke, color, fill) ==
  [Action("CIRCLE", center) EXCEPT !.radius = radius, !.stroke = stroke, !.color = color, !.fill = fill]
ClipAction(corners) == Action("CLIP", corners)
LineAction(ends, stroke, color) == [Action("LINE", ends) EXCEPT !.stroke = stroke, !.color = color]
NewPageAction(page, fill) == [Action("NEW_PAGE", page) EXCEPT !.fill = fill]
PathAction(subPaths, stroke, color, fill) ==
  [Action("PATH", subPaths) EXCEPT !.stroke = stroke, !.color = color, !.fill = fill]
PolygonAction(points, stroke, color, fill) ==
  [Action("POLYGON", points) EXCEPT !.stroke = stroke, !.color = color, !.fill = fill]
PolylineAction(points, stroke, color) ==
  [Action("POLYLINE", points) EXCEPT !.stroke = stroke, !.color = color]
RasterAction(corners) == Action("RASTER", corners)
RectangleAction(corners, stroke, color, fill) ==
  [Action("RECTANGLE", corners) EXCEPT !.stroke = stroke, !.color = color, !.fill = fill]
TextAction(position, font, color) ==
  [Action("TEXT", position) EXCEPT !.font = font, !.color = color]

AffineFigure(kind, lines) ==
  [kind |-> kind, lines |-> lines, previews |-> <<>>, radius |-> [n |-> 0, d |-> 1, off |-> 0],
   stroke |-> 0, color |-> 0, fill |-> 0, font |-> 0, isMasked |-> FALSE, number |-> 0]

CircleFigure(center, radius, stroke, color, fill, isMasked) ==
  [AffineFigure("CIRCLE", <<<<center>>>>) EXCEPT
     !.radius = radius, !.stroke = stroke, !.color = color, !.fill = fill, !.isMasked = isMasked]
LineFigure(from, to, stroke, color) ==
  [AffineFigure("LINE", <<<<from, to>>>>) EXCEPT !.stroke = stroke, !.color = color]
PathFigure(subPaths, previews, stroke, color, fill) ==
  [AffineFigure("PATH", subPaths) EXCEPT
     !.previews = previews, !.stroke = stroke, !.color = color, !.fill = fill]
PolygonFigure(polyline, preview, stroke, color, fill) ==
  [AffineFigure("POLYGON", <<polyline>>) EXCEPT
     !.previews = <<preview>>, !.stroke = stroke, !.color = color, !.fill = fill]
PolylineFigure(polyline, preview, stroke, color) ==
  [AffineFigure("POLYLINE", <<polyline>>) EXCEPT !.previews = <<preview>>, !.stroke = stroke, !.color = color]
RasterFigure(from, to) == AffineFigure("RASTER", <<<<from, to>>>>)
RectangleFigure(from, to, stroke, color, fill) ==
  [AffineFigure("RECTANGLE", <<<<from, to>>>>) EXCEPT !.stroke = stroke, !.color = color, !.fill = fill]
TextFigure(position, font, color) ==
  [AffineFigure("TEXT", <<<<position>>>>) EXCEPT !.font = font, !.color = color]
=============================================================================
