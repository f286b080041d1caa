----------------------------- MODULE GfxRenderer -----------------------------
(***************************************************************************)
(* Drawing on the frame buffer (lib/GfxRenderer/GfxRenderer.cpp).          *)
(*                                                                         *)
(* A shape is the set of points, in the coordinates of the caller, at      *)
(* which the code calls drawPixel(); the loops that enumerate them are     *)
(* abstracted.                                                             *)
(***************************************************************************)
EXTENDS HalDisplay, FiniteSets, Sequences, FiniteSetsExt

-----------------------------------------------------------------------------
(* Coordinates.                                                            *)

Orientations == {"Portrait", "LandscapeClockwise", "PortraitInverted",
                 "LandscapeCounterClockwise"}
Upright(o) == o \in {"Portrait", "PortraitInverted"}

ScreenWidth(o)  == IF Upright(o) THEN PanelHeight ELSE PanelWidth
ScreenHeight(o) == IF Upright(o) THEN PanelWidth ELSE PanelHeight
Screen(o) == (0 .. ScreenWidth(o) - 1) \X (0 .. ScreenHeight(o) - 1)

RotateCoordinates(o, p) ==
  CASE o = "Portrait"                  -> <<p[2], PanelHeight - 1 - p[1]>>
    [] o = "LandscapeClockwise"        -> <<PanelWidth - 1 - p[1], PanelHeight - 1 - p[2]>>
    [] o = "PortraitInverted"          -> <<PanelWidth - 1 - p[2], p[1]>>
    [] o = "LandscapeCounterClockwise" -> <<p[1], p[2]>>

(* In which byte of the frame buffer the bit of a pixel of the panel lies. *)
PanelWidthBytes == PanelWidth \div 8
BufferSize == PanelWidthBytes * PanelHeight
ByteIndex(p) == p[2] * PanelWidthBytes + p[1] \div 8

(* drawPixel() at every point of a shape: what is off the panel is         *)
(* dropped, a black pixel clears its bit.                                  *)
DrawPixels(buffer, o, shape, color) ==
  LET hit == {RotateCoordinates(o, p) : p \in shape}
  IN  [q \in Panel |-> IF q \in hit THEN color ELSE buffer[q]]

-----------------------------------------------------------------------------
(* Lines and rectangles.                                                   *)

Least(a, b) == IF a < b THEN a ELSE b
Most(a, b) == IF a < b THEN b ELSE a
Distance(a, b) == Most(a, b) - Least(a, b)
Between(a, b) == Least(a, b) .. Most(a, b)

\* A slip to test against: both tests of one step share the running error.
Slip_RunningError(s, dx, dy, sx, sy) ==
  LET right == 2 * s.err > -dy
      err   == IF right THEN s.err - dy ELSE s.err
      down  == 2 * err < dx
  IN  [x   |-> IF right THEN s.x + sx ELSE s.x,
       y   |-> IF down THEN s.y + sy ELSE s.y,
       err |-> IF down THEN err + dx ELSE err]

(* One round of Bresenham's loop.                                          *)
BresenhamStep(s, dx, dy, sx, sy) ==
  LET e2 == 2 * s.err
  IN  [x   |-> IF e2 > -dy THEN s.x + sx ELSE s.x,
       y   |-> IF e2 < dx THEN s.y + sy ELSE s.y,
       err |-> s.err - (IF e2 > -dy THEN dy ELSE 0) + (IF e2 < dx THEN dx ELSE 0)]

(* The points of a slanted line.  The code's loop ends when it meets the   *)
(* end point; dx + dy rounds are more than it needs.                       *)
SlantedLine(x1, y1, x2, y2) ==
  LET dx == Distance(x1, x2)
      dy == Distance(y1, y2)
      sx == IF x2 > x1 THEN 1 ELSE -1
      sy == IF y2 > y1 THEN 1 ELSE -1
      walk[n \in Nat] ==
        IF n = 0 THEN [x |-> x1, y |-> y1, err |-> dx - dy]
                 ELSE BresenhamStep(walk[n - 1], dx, dy, sx, sy)
      point == [n \in 0 .. dx + dy |-> <<walk[n].x, walk[n].y>>]
  IN  {point[n] : n \in {k \in DOMAIN point : \A m \in 0 .. k - 1 : point[m] # <<x2, y2>>}}

DrawLine(x1, y1, x2, y2) ==
  IF x1 = x2 \/ y1 = y2 THEN Between(x1, x2) \X Between(y1, y2)
                        ELSE SlantedLine(x1, y1, x2, y2)

DrawRect(x, y, w, h) ==
  DrawLine(x, y, x + w - 1, y) \cup DrawLine(x + w - 1, y, x + w - 1, y + h - 1)
    \cup DrawLine(x + w - 1, y + h - 1, x, y + h - 1) \cup DrawLine(x, y, x, y + h - 1)

(* The right and the lower side are drawn one pixel outside the rectangle. *)
DrawThickRect(x, y, w, h, lineWidth) ==
  UNION {DrawLine(x + i, y + i, x + w - i, y + i)
           \cup DrawLine(x + w - i, y + i, x + w - i, y + h - i)
           \cup DrawLine(x + w - i, y + h - i, x + i, y + h - i)
           \cup DrawLine(x + i, y + h - i, x + i, y + i) : i \in 0 .. lineWidth - 1}

(* A width of 0 or less still draws, from right to left.                   *)
FillRect(x, y, w, h) ==
  UNION {DrawLine(x, fillY, x + w - 1, fillY) : fillY \in y .. y + h - 1}

(* Black and white rectangles are filled by lines, the grays point by      *)
(* point; a gray fill is a shape of black and a shape of white points.     *)
Dithered(x, y, w, h, color) ==
  CASE color = "Clear" -> [black |-> {}, white |-> {}]
    [] color = "Black" -> [black |-> FillRect(x, y, w, h), white |-> {}]
    [] color = "White" -> [black |-> {}, white |-> FillRect(x, y, w, h)]
    [] OTHER ->
         LET area == (x .. x + w - 1) \X (y .. y + h - 1)
             dark == {p \in area : IF color = "LightGray" THEN p[1] % 2 = 0 /\ p[2] % 2 = 0
                                                          ELSE (p[1] + p[2]) % 2 = 0}
         IN  [black |-> dark, white |-> area \ dark]

-----------------------------------------------------------------------------
(* Round corners.                                                          *)

(* The quarter ring between two radii: in row dy of the corner from the    *)
(* first column that is not inside the inner circle to the last one inside *)
(* the outer circle.                                                       *)
DrawArc(maxRadius, cx, cy, xDir, yDir, lineWidth) ==
  LET inner == Most(maxRadius - Least(lineWidth, maxRadius), 0)
      outX(dy) == Max({x \in 0 .. maxRadius : x * x + dy * dy <= maxRadius * maxRadius})
      inX(dy)  == Min({x \in 0 .. inner : x = inner \/ x * x + dy * dy >= inner * inner})
  IN  IF maxRadius <= 0 THEN {}
      ELSE {<<cx + xDir * p[1], cy + yDir * p[2]>> :
              p \in {q \in (0 .. maxRadius) \X (0 .. maxRadius) :
                       inX(q[2]) <= q[1] /\ q[1] <= outX(q[2])}}

Corners == {"TopLeft", "TopRight", "BottomRight", "BottomLeft"}
XDir(c) == IF c \in {"TopLeft", "BottomLeft"} THEN -1 ELSE 1
YDir(c) == IF c \in {"TopLeft", "TopRight"} THEN -1 ELSE 1

\* A slip to test against: the centres of the right corners one column off.
Slip_CenterX(c, x, w, r) == IF XDir(c) = -1 THEN x + r ELSE x + w - r

CenterX(c, x, w, r) == IF XDir(c) = -1 THEN x + r ELSE x + w - 1 - r
CenterY(c, y, h, r) == IF YDir(c) = -1 THEN y + r ELSE y + h - 1 - r

DrawRoundedRect(x, y, w, h, lineWidth, cornerRadius, round) ==
  LET r == Least(cornerRadius, Least(w \div 2, h \div 2))
      stroke == Least(lineWidth, r)
      right == x + w - 1
      bottom == y + h - 1
      top(c, d)  == IF round \cap c # {} /\ w - 2 * r > 0
                      THEN FillRect(x + r, d, w - 2 * r, stroke) ELSE {}
      side(c, d) == IF round \cap c # {} /\ h - 2 * r > 0
                      THEN FillRect(d, y + r, stroke, h - 2 * r) ELSE {}
  IN  IF lineWidth <= 0 \/ w <= 0 \/ h <= 0 THEN {}
      ELSE IF r <= 0 THEN DrawThickRect(x, y, w, h, lineWidth)
      ELSE top({"TopLeft", "TopRight"}, y)
             \cup top({"BottomLeft", "BottomRight"}, bottom - stroke + 1)
             \cup side({"TopLeft", "BottomLeft"}, x)
             \cup side({"TopRight", "BottomRight"}, right - stroke + 1)
             \cup UNION {DrawArc(r, CenterX(c, x, w, r), CenterY(c, y, h, r),
                                 XDir(c), YDir(c), lineWidth) : c \in round}

(* A filled quarter circle, row by row; rows off the screen are skipped.   *)
FillArc(o, maxRadius, cx, cy, xDir, yDir, color) ==
  LET reach(dy) == Max({x \in 0 .. maxRadius : x * x + dy * dy <= maxRadius * maxRadius})
      row(dy) == Dithered(Least(cx, cx + xDir * reach(dy)), cy + yDir * dy,
                          reach(dy) + 1, 1, color)
      rows == {dy \in 0 .. maxRadius : cy + yDir * dy \in 0 .. ScreenHeight(o) - 1}
  IN  IF maxRadius <= 0 THEN [black |-> {}, white |-> {}]
      ELSE [black |-> UNION {row(dy).black : dy \in rows},
            white |-> UNION {row(dy).white : dy \in rows}]

FillRoundedRect(o, x, y, w, h, cornerRadius, round, color) ==
  LET sides == IF round = Corners THEN 2 ELSE 1
      r == Least(cornerRadius, Least(w \div sides, h \div sides))
      off(c) == IF c \in round THEN r + 1 ELSE 0
      middle == IF w - 2 * r > 0 THEN {Dithered(x + r + 1, y, w - 2 * r - 2, h, color)} ELSE {}
      column(d, t, b) ==
        IF y + h - 1 - off(b) >= y + off(t)
          THEN {Dithered(d, y + off(t), r + 1, h - off(t) - off(b), color)} ELSE {}
      arcs == {FillArc(o, r, CenterX(c, x, w, r), CenterY(c, y, h, r),
                       XDir(c), YDir(c), color) : c \in round}
      parts == middle \cup column(x, "TopLeft", "BottomLeft")
                 \cup column(x + w - r - 1, "TopRight", "BottomRight") \cup arcs
  IN  IF w <= 0 \/ h <= 0 THEN [black |-> {}, white |-> {}]
      ELSE IF r <= 0 THEN Dithered(x, y, w, h, color)
      ELSE [black |-> UNION {s.black : s \in parts}, white |-> UNION {s.white : s \in parts}]

-----------------------------------------------------------------------------
(* Polygons, by scan lines.  An edge counts for the rows below its upper   *)
(* end, down to its lower end: a corner is met by one of its two edges.    *)

\* A slip to test against: both ends of an edge count.
Slip_ClosedEdges(poly, scanY) ==
  {i \in DOMAIN poly :
     LET j == IF i = 1 THEN Len(poly) ELSE i - 1
     IN  \/ poly[i][2] <= scanY /\ poly[j][2] >= scanY
         \/ poly[j][2] <= scanY /\ poly[i][2] >= scanY}

CrossedEdges(poly, scanY) ==
  {i \in DOMAIN poly :
     LET j == IF i = 1 THEN Len(poly) ELSE i - 1
     IN  \/ poly[i][2] < scanY /\ poly[j][2] >= scanY
         \/ poly[j][2] < scanY /\ poly[i][2] >= scanY}

(* C's division rounds towards zero.                                       *)
DivC(a, b) == LET q == (IF a < 0 THEN -a ELSE a) \div (IF b < 0 THEN -b ELSE b)
              IN  IF (a < 0) = (b < 0) THEN q ELSE -q

NodeX(poly, i, scanY) ==
  LET j == IF i = 1 THEN Len(poly) ELSE i - 1
  IN  IF poly[i][2] = poly[j][2] THEN poly[i][1]
      ELSE poly[i][1] + DivC((scanY - poly[i][2]) * (poly[j][1] - poly[i][1]),
                             poly[j][2] - poly[i][2])

(* Between the nodes of a row, sorted and taken in pairs, the points are   *)
(* filled: a node is in a pair with its follower if it has an even rank.   *)
FillPolygon(o, poly) ==
  LET edges(y) == CrossedEdges(poly, y)
      before(i, k, y) == \/ NodeX(poly, i, y) < NodeX(poly, k, y)
                         \/ NodeX(poly, i, y) = NodeX(poly, k, y) /\ i < k
      rank(i, y) == Cardinality({k \in edges(y) : before(k, i, y)})
      filled(p) == \E i, k \in edges(p[2]) :
                     /\ rank(i, p[2]) % 2 = 0 /\ rank(k, p[2]) = rank(i, p[2]) + 1
                     /\ NodeX(poly, i, p[2]) <= p[1] /\ p[1] <= NodeX(poly, k, p[2])
  IN  IF Len(poly) < 3 THEN {} ELSE {p \in Screen(o) : filled(p)}

-----------------------------------------------------------------------------
(* Bitmaps: rows of levels 0 to 3, as readNextRow() gives them, in the     *)
(* order of the file.  A scale is a fraction <<n, d>>; the code computes   *)
(* with the nearest float.                                                 *)

Scaled(i, scale) == (i * scale[1]) \div scale[2]
Smaller(s, t) == IF s[1] * t[2] < t[1] * s[2] THEN s ELSE t

RowOnScreen(rows, topDown, r) == IF topDown THEN r - 1 ELSE Len(rows) - r

(* drawBitmap1Bit(): the picture is made smaller if it is wider or higher  *)
(* than it may be; every pixel but the white ones is drawn.                *)
FitScale1Bit(w, h, maxWidth, maxHeight) ==
  LET byWidth == IF maxWidth > 0 /\ w > maxWidth THEN <<maxWidth, w>> ELSE <<1, 1>>
  IN  IF maxHeight > 0 /\ h > maxHeight THEN Smaller(byWidth, <<maxHeight, h>>) ELSE byWidth

DrawBitmap1Bit(o, rows, topDown, x, y, maxWidth, maxHeight) ==
  LET w == Len(rows[1])
      scale == FitScale1Bit(w, Len(rows), maxWidth, maxHeight)
      ink == {p \in (1 .. w) \X (1 .. Len(rows)) : rows[p[2]][p[1]] < 3}
      spot(p) == <<x + Scaled(p[1] - 1, scale),
                   y + Scaled(RowOnScreen(rows, topDown, p[2]), scale)>>
  IN  {spot(p) : p \in ink} \cap Screen(o)

(* drawBitmap(): after cropping, which takes the half of a fraction of the *)
(* width off each side, the picture is made smaller to fit both bounds.    *)
(* The rows end at the first one that is below the screen: of a bottom-up  *)
(* bitmap that is its first.                                               *)
CropPix(n, crop) == (n * crop[1]) \div (2 * crop[2])

FitScale(w, h, maxWidth, maxHeight, cropX, cropY) ==
  LET across == IF maxWidth > 0 THEN <<maxWidth * cropX[2], w * (cropX[2] - cropX[1])>> ELSE <<1, 1>>
      down == IF maxHeight > 0 THEN <<maxHeight * cropY[2], h * (cropY[2] - cropY[1])>> ELSE <<1, 1>>
  IN  Smaller(Smaller(across, down), <<1, 1>>)

\* A slip to test against: the second pass draws the light gray again.
Slip_Inked(mode, level) ==
  CASE mode = "BW" -> level < 3
    [] mode = "GRAYSCALE_MSB" -> level \in {1, 2}
    [] mode = "GRAYSCALE_LSB" -> level = 2

(* The levels that are drawn in a pass.                                    *)
Inked(mode, level) ==
  CASE mode = "BW" -> level < 3
    [] mode = "GRAYSCALE_MSB" -> level \in {1, 2}
    [] mode = "GRAYSCALE_LSB" -> level = 1

DrawBitmap(o, mode, rows, topDown, x, y, maxWidth, maxHeight, cropX, cropY) ==
  LET w == Len(rows[1])
      h == Len(rows)
      scale == FitScale(w, h, maxWidth, maxHeight, cropX, cropY)
      cropLeft == CropPix(w, cropX)
      cropTop == CropPix(h, cropY)
      screenX(c) == x + Scaled(c - 1 - cropLeft, scale)
      screenY(r) == y + Scaled(RowOnScreen(rows, topDown, r) - cropTop, scale)
      read == {r \in 1 .. h - cropTop : \A s \in 1 .. r : screenY(s) < ScreenHeight(o)}
      ink == {p \in (cropLeft + 1 .. w - cropLeft) \X {r \in read : r > cropTop} :
                Inked(mode, rows[p[2]][p[1]])}
  IN  {<<screenX(p[1]), screenY(p[2])>> : p \in ink} \cap Screen(o)

(* The part of the panel an image of the driver covers: its bits are not   *)
(* turned, only the corner it starts at.                                   *)
Area(x, y, w, h) == (x .. x + w - 1) \X (y .. y + h - 1)

ImageArea(o, x, y, w, h) ==
  LET corner == RotateCoordinates(o, <<x, y>>)
  IN  Area(IF o \in {"PortraitInverted", "LandscapeClockwise"} THEN corner[1] - w ELSE corner[1],
           IF o \in {"Portrait", "LandscapeClockwise"} THEN corner[2] - h ELSE corner[2], w, h)

IconArea(o, x, y, w, h) == Area(y, ScreenWidth(o) - w - x, h, w)
=============================================================================
