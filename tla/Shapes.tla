------------------------------- MODULE Shapes -------------------------------
(***************************************************************************)
(* The shapes of GfxRenderer against what they are meant to be: one call   *)
(* of a drawing function, with any of a set of small arguments.            *)
(***************************************************************************)
EXTENDS GfxRenderer

CONSTANTS MaxCoord, MaxSide, MaxRadius     \* bounds on the arguments

ASSUME ShapesAssumption ==
  /\ MaxCoord \in Nat /\ MaxSide \in Nat /\ MaxRadius \in Nat
  \* The shapes are not higher than the upright screen: they fit on it.
  /\ MaxSide <= PanelWidth

VARIABLE call    \* the call that was made; none yet

NoCall == [op |-> "none"]

Coords == 0 .. MaxCoord
Lines == [op : {"line"}, x1 : Coords, y1 : Coords, x2 : Coords, y2 : Coords]

(* At least two columns between the corners: with fewer, fillRoundedRect() *)
(* fills a middle of no or negative width, which draws on the corners.     *)
RoundedRects ==
  {c \in [op : {"rounded"}, w : 1 .. MaxSide, h : 1 .. MaxSide, r : 1 .. MaxRadius,
          lineWidth : 1 .. MaxRadius,
          round : {Corners, {"TopLeft", "TopRight"}, {"BottomLeft", "BottomRight"}}] :
     /\ c.w > 2 * c.r + 1
     /\ c.h > c.r * (IF c.round = Corners THEN 2 ELSE 1)}

Triangles == {c \in [op : {"triangle"}, poly : [1 .. 3 -> Coords \X Coords]] :
                c.poly[1][1] = 0 \/ c.poly[1][2] = 0}

Bitmaps == [op : {"bitmap"}, w : 1 .. MaxSide, h : 1 .. MaxSide, topDown : BOOLEAN,
            maxWidth : Coords, maxHeight : Coords]

(* Images that stay off the edges of the panel in every orientation: the   *)
(* driver's coordinates are unsigned, and one below zero would wrap.       *)
Images ==
  {c \in [op : {"image"}, o : Orientations, x : Coords, y : Coords, w : 1 .. MaxCoord, h : 1 .. MaxCoord] :
     Most(c.x, c.y) + Most(c.w, c.h) < Least(PanelWidth, PanelHeight)}

ShapesInit == call = NoCall

DrawShape ==
  /\ call = NoCall
  /\ call' \in Lines \cup RoundedRects \cup Triangles \cup Bitmaps \cup Images

-----------------------------------------------------------------------------
(* drawLine() meets both of its ends, takes one point per column or row of *)
(* the longer side, and no point is further than half a pixel from the     *)
(* line between the ends (GfxRenderer.cpp:276-316).                        *)
LineIsStraight ==
  call.op = "line" =>
    LET line == DrawLine(call.x1, call.y1, call.x2, call.y2)
        long == Most(Distance(call.x1, call.x2), Distance(call.y1, call.y2))
        away(p) == (p[1] - call.x1) * (call.y2 - call.y1) - (p[2] - call.y1) * (call.x2 - call.x1)
    IN  /\ {<<call.x1, call.y1>>, <<call.x2, call.y2>>} \subseteq line
        /\ Cardinality(line) = long + 1
        /\ \A p \in line : 2 * Distance(away(p), 0) <= long

(* The rectangle without what lies beyond the circle of a rounded corner.  *)
RoundedRect(w, h, r, round) ==
  LET beyond(p, c) ==
        LET ax == XDir(c) * (p[1] - CenterX(c, 0, w, r))
            ay == YDir(c) * (p[2] - CenterY(c, 0, h, r))
        IN  ax > 0 /\ ay > 0 /\ ax * ax + ay * ay > r * r
  IN  {p \in (0 .. w - 1) \X (0 .. h - 1) : \A c \in round : ~ beyond(p, c)}

Neighbours(p) ==
  {<<p[1] + 1, p[2]>>, <<p[1] - 1, p[2]>>, <<p[1], p[2] + 1>>, <<p[1], p[2] - 1>>}

(* fillRoundedRect() covers its rectangle up to the rounded corners, out   *)
(* of five parts, without a gap and without a point outside; and           *)
(* drawRoundedRect() with the same corners draws a closed border of it,    *)
(* inside of it; drawRect() is the border of what fillRect() fills         *)
(* (GfxRenderer.cpp:324-329, 391-446, 540-606).                            *)
RoundedRectsAgree ==
  call.op = "rounded" =>
    LET full == RoundedRect(call.w, call.h, call.r, call.round)
        fill == FillRoundedRect("Portrait", 0, 0, call.w, call.h, call.r, call.round, "Black")
        gray == FillRoundedRect("Portrait", 0, 0, call.w, call.h, call.r, call.round, "DarkGray")
        border == DrawRoundedRect(0, 0, call.w, call.h, call.lineWidth, call.r, call.round)
        plain == FillRect(0, 0, call.w, call.h)
    IN  /\ fill.black = full
        /\ gray.black \cup gray.white = full /\ gray.black \cap gray.white = {}
        /\ call.round = Corners =>
             /\ border \subseteq full
             /\ {p \in full : ~ (Neighbours(p) \subseteq full)} \subseteq border
        /\ DrawRect(0, 0, call.w, call.h) = {p \in plain : ~ (Neighbours(p) \subseteq plain)}

(* Every point inside a triangle is filled, and none outside of the box    *)
(* around it (GfxRenderer.cpp:812-878): in every row the edges that count  *)
(* come in pairs, also at a corner.                                        *)
TriangleIsFilled ==
  call.op = "triangle" =>
    LET a(i) == call.poly[i]
        cross(i, p) == LET b == a((i % 3) + 1)
                       IN  (b[1] - a(i)[1]) * (p[2] - a(i)[2]) - (b[2] - a(i)[2]) * (p[1] - a(i)[1])
        inside == {p \in Screen("Portrait") : \/ \A i \in 1 .. 3 : cross(i, p) > 0
                                              \/ \A i \in 1 .. 3 : cross(i, p) < 0}
        fill == FillPolygon("Portrait", call.poly)
    IN  /\ inside \subseteq fill
        /\ \A p \in fill : \E i, j \in 1 .. 3 : a(i)[1] <= p[1] /\ p[1] <= a(j)[1]
        /\ \A p \in fill : \E i, j \in 1 .. 3 : a(i)[2] < p[2] /\ p[2] <= a(j)[2]

(* The path for bitmaps of one bit draws what the general one does; a      *)
(* picture that is made smaller stays in its bounds; and the three passes  *)
(* of a gray picture tell its four levels apart (GfxRenderer.cpp:635-810). *)
BitmapPathsAgree ==
  call.op = "bitmap" =>
    LET rows == [r \in 1 .. call.h |-> [c \in 1 .. call.w |-> (c + 2 * r) % 4]]
        fast == DrawBitmap1Bit("Portrait", rows, call.topDown, 0, 0, call.maxWidth, call.maxHeight)
        pass(mode) == DrawBitmap("Portrait", mode, rows, call.topDown, 0, 0,
                                 call.maxWidth, call.maxHeight, <<0, 1>>, <<0, 1>>)
        at(p) == rows[IF call.topDown THEN p[2] + 1 ELSE call.h - p[2]][p[1] + 1]
        whole == (0 .. call.w - 1) \X (0 .. call.h - 1) \cap Screen("Portrait")
    IN  /\ fast = pass("BW")
        /\ call.maxWidth > 0 => \A p \in fast : p[1] < call.maxWidth
        /\ call.maxHeight > 0 => \A p \in fast : p[2] < call.maxHeight
        /\ (call.maxWidth = 0 /\ call.maxHeight = 0) =>
             \A p \in whole : <<p \in fast, p \in pass("GRAYSCALE_MSB"), p \in pass("GRAYSCALE_LSB")>>
                               = <<at(p) < 3, at(p) \in {1, 2}, at(p) = 1>>

(* On the upright screen an icon covers exactly its rectangle.  An image   *)
(* covers its rectangle moved by one pixel along every axis along which    *)
(* drawImage() takes a side off the turned corner, although a corner is    *)
(* turned as a pixel and not as an edge.  That is so for every image on a  *)
(* lying screen and for a square one on an upright screen; what is not     *)
(* square lies elsewhere there, for its sides are not swapped              *)
(* (GfxRenderer.cpp:608-633).                                              *)
ImagesAreInPlace ==
  call.op = "image" =>
    LET place == {RotateCoordinates(call.o, p) : p \in Area(call.x, call.y, call.w, call.h)}
        left == IF call.o \in {"PortraitInverted", "LandscapeClockwise"} THEN 1 ELSE 0
        up == IF call.o \in {"Portrait", "LandscapeClockwise"} THEN 1 ELSE 0
    IN  /\ call.o = "Portrait" => IconArea(call.o, call.x, call.y, call.w, call.h) = place
        /\ ~ Upright(call.o) \/ call.w = call.h =>
             ImageArea(call.o, call.x, call.y, call.w, call.h) = {<<p[1] - left, p[2] - up>> : p \in place}

(* The paths for a bitmap agree with each other, and images and icons      *)
(* cover what is said above (GfxRenderer.cpp:608-810).                     *)
PicturesAgree == BitmapPathsAgree /\ ImagesAreInPlace
=============================================================================
