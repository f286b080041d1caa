-------------------------------- MODULE Text --------------------------------
(***************************************************************************)
(* Measuring, drawing and breaking text (lib/EpdFont/EpdFont.cpp,          *)
(* EpdFontFamily.cpp, EpdFontData.h and the text functions of              *)
(* lib/GfxRenderer/GfxRenderer.cpp).                                       *)
(*                                                                         *)
(* A text is a sequence of characters.  A font is what its tables say:     *)
(* the glyph of a character, the kern of a pair, the ligature of a pair;   *)
(* the binary searches that find them are abstracted.  Advances and kerns  *)
(* are in sixteenths of a pixel.                                           *)
(***************************************************************************)
EXTENDS Integers, Sequences, SequencesExt, FiniteSetsExt

CONSTANTS
  Characters,   \* the characters of the texts
  MaxText,      \* bound on their length
  MaxLines      \* bound on the lines of a wrapped text

NoCharacter == "none"    \* the zero that ends a text

ASSUME TextAssumption ==
  /\ MaxText \in Nat /\ MaxLines \in Nat
  /\ NoCharacter \notin Characters

VARIABLE text    \* the text that is drawn or wrapped; none yet

NoDrawing == [op |-> "none"]
Replacement == "replacement"
Ellipsis == "ellipsis"
IsCombining(c) == c \in {"acute", "cedilla"}

-----------------------------------------------------------------------------
(* A family has a regular face, and for other styles the nearest one.      *)
FaceFor(family, style) ==
  CASE style = {"bold", "italic"} /\ "boldItalic" \in DOMAIN family -> family.boldItalic
    [] "bold" \in style /\ "bold" \in DOMAIN family                 -> family.bold
    [] "italic" \in style /\ "italic" \in DOMAIN family             -> family.italic
    [] OTHER                                                        -> family.regular

(* getGlyph(): a character without a glyph shows as the replacement, if    *)
(* the font has one.                                                       *)
HasGlyph(font, c) == {c, Replacement} \cap DOMAIN font.glyph # {}
Glyph(font, c) == font.glyph[IF c \in DOMAIN font.glyph THEN c ELSE Replacement]

Kern(font, c, d) == IF <<c, d>> \in DOMAIN font.kern THEN font.kern[<<c, d>>] ELSE 0

(* applyLigatures(), all along a text: a character takes in the ones that  *)
(* follow as long as there is a ligature for what it has become.           *)
TakeIn(font, out, c) ==
  IF out # <<>> /\ ~ IsCombining(Last(out)) /\ <<Last(out), c>> \in DOMAIN font.ligature
    THEN Append(Front(out), font.ligature[<<Last(out), c>>])
    ELSE Append(out, c)

Ligated(font, string) ==
  LET ligated[n \in 0 .. Len(string)] ==
        IF n = 0 THEN <<>> ELSE TakeIn(font, ligated[n - 1], string[n])
  IN  ligated[Len(string)]

ToPixel(fp) == (fp + 8) \div 16

CenterOver(base, left, width, mark) ==
  base + left + width \div 2 - mark.width \div 2 - mark.left

CenterOverRotated90CW(base, left, width, mark) ==
  base - left - width \div 2 + mark.width \div 2 + mark.left

RaiseAboveBase(mark, baseTop) ==
  LET bottom == mark.top - mark.height
  IN  IF bottom > 0 /\ bottom - baseTop < 1 THEN 1 - (bottom - baseTop) ELSE 0

-----------------------------------------------------------------------------
(* The walk along a text that measuring and drawing share in spirit but    *)
(* not in code.  A base is the last character a mark may stand over.       *)

NoBase(x, prev, placed) ==
  [x |-> x, left |-> 0, width |-> 0, top |-> 0, advance |-> 0, prev |-> prev, placed |-> placed]

Start == NoBase(0, NoCharacter, <<>>)

Place(s, c, glyph, x, y) == [s EXCEPT !.placed = Append(@, [c |-> c, glyph |-> glyph, x |-> x, y |-> y])]

PlaceBase(s, c, glyph, x) ==
  [x |-> x, left |-> glyph.left, width |-> glyph.width, top |-> glyph.top,
   advance |-> glyph.advance, prev |-> c, placed |-> Place(s, c, glyph, x, 0).placed]

PlaceMark(font, s, c) ==
  LET mark == Glyph(font, c)
  IN  Place(s, c, mark, CenterOver(s.x, s.left, s.width, mark), RaiseAboveBase(mark, s.top))

StepOf(font, s, c) ==
  IF s.prev = NoCharacter THEN 0 ELSE ToPixel(s.advance + Kern(font, s.prev, c))

(* drawText(): a base without a glyph is a step to itself, of no width.    *)
DrawStep(font, s, c) ==
  LET x == s.x + StepOf(font, s, c)
      glyph == Glyph(font, c)
  IN  IF IsCombining(c) THEN IF HasGlyph(font, c) THEN PlaceMark(font, s, c) ELSE s
      ELSE IF HasGlyph(font, c)
        THEN PlaceBase(s, c, glyph, x)
        ELSE NoBase(x, c, s.placed)

\* A slip to test against: the advance before a base without a glyph is lost.
Slip_BoundsStep(font, s, c) ==
  LET x == s.x + StepOf(font, s, c)
      glyph == Glyph(font, c)
  IN  IF ~ HasGlyph(font, c)
        THEN IF IsCombining(c) THEN s ELSE NoBase(s.x, NoCharacter, s.placed)
      ELSE IF IsCombining(c) THEN PlaceMark(font, s, c)
      ELSE PlaceBase(s, c, glyph, x)

(* drawTextRotated90CW(): the line runs up the screen, so the place of the *)
(* last base, the x of the state, is a height that falls, and a mark is    *)
(* raised to the left.                                                     *)
TurnedStep(font, s, c) ==
  LET y == s.x - StepOf(font, s, c)
      glyph == Glyph(font, c)
      markY == CenterOverRotated90CW(s.x, s.left, s.width, glyph)
  IN  IF IsCombining(c)
        THEN IF HasGlyph(font, c) THEN Place(s, c, glyph, - RaiseAboveBase(glyph, s.top), markY) ELSE s
      ELSE IF HasGlyph(font, c)
        THEN [PlaceBase(s, c, glyph, y) EXCEPT !.placed = Place(s, c, glyph, 0, y).placed]
        ELSE NoBase(y, c, s.placed)

(* getTextBounds(): a base without a glyph ends the run before it.         *)
BoundsStep(font, s, c) ==
  LET x == s.x + StepOf(font, s, c)
      glyph == Glyph(font, c)
  IN  IF ~ HasGlyph(font, c)
        THEN IF IsCombining(c) THEN s ELSE NoBase(s.x + ToPixel(s.advance), NoCharacter, s.placed)
      ELSE IF IsCombining(c) THEN PlaceMark(font, s, c)
      ELSE PlaceBase(s, c, glyph, x)

(* getTextAdvanceX(): where the text after this one starts.                *)
AdvanceStep(font, s, c) ==
  IF IsCombining(c) THEN s
  ELSE [NoBase(s.x + StepOf(font, s, c), c, s.placed) EXCEPT
          !.advance = IF HasGlyph(font, c) THEN Glyph(font, c).advance ELSE 0]

StepBy(how, font, s, c) ==
  CASE how = "draw"    -> DrawStep(font, s, c)
    [] how = "turned"  -> TurnedStep(font, s, c)
    [] how = "bounds"  -> BoundsStep(font, s, c)
    [] how = "advance" -> AdvanceStep(font, s, c)

WalkAlong(how, font, letters) ==
  LET walk[n \in 0 .. Len(letters)] ==
        IF n = 0 THEN Start ELSE StepBy(how, font, walk[n - 1], letters[n])
  IN  walk[Len(letters)]

Walk(how, font, string) == WalkAlong(how, font, Ligated(font, string))

TextAdvanceX(font, string) ==
  LET end == Walk("advance", font, string) IN end.x + ToPixel(end.advance)

(* getTextBounds(): the box of all the boxes, the start of the text always *)
(* included.  Its heights count upwards from the line, yet the code takes  *)
(* the raise of a mark off them.                                           *)
TextBounds(font, string, x, y) ==
  LET boxes == ToSet(Walk("bounds", font, string).placed)
  IN  [minX |-> Min({x} \cup {x + p.x + p.glyph.left : p \in boxes}),
       maxX |-> Max({x} \cup {x + p.x + p.glyph.left + p.glyph.width : p \in boxes}),
       minY |-> Min({y} \cup {y - p.y + p.glyph.top - p.glyph.height : p \in boxes}),
       maxY |-> Max({y} \cup {y - p.y + p.glyph.top : p \in boxes})]

Extent(bounds) == bounds.maxX - bounds.minX
TextWidth(font, string) == Extent(TextBounds(font, string, 0, 0))

-----------------------------------------------------------------------------
(* renderCharImpl(): the pixels of a glyph, upright or turned clockwise.   *)

(* The value of a pixel, 0 for none, out of its glyph's packed rows.       *)
InkOf(glyph, gx, gy) == glyph.ink[((gy * glyph.width + gx) % Len(glyph.ink)) + 1]

(* Which values a pass draws.  Fonts of one bit are the same in each.      *)
IsInked(font, mode, value) ==
  IF ~ font.is2Bit THEN value > 0
  ELSE CASE mode = "BW" -> value > 0
         [] mode = "GRAYSCALE_MSB" -> value \in {1, 2}
         [] mode = "GRAYSCALE_LSB" -> value = 2

InkedSpots(font, mode, glyph) ==
  {g \in (0 .. glyph.width - 1) \X (0 .. glyph.height - 1) :
     IsInked(font, mode, InkOf(glyph, g[1], g[2]))}

\* getFontAscenderSize() is that of the regular face, whatever the style.
DrawText(family, style, mode, x, y, string) ==
  LET font == FaceFor(family, style)
  IN  UNION {{<<x + p.x + p.glyph.left + g[1], y + family.regular.ascender - p.y - p.glyph.top + g[2]>> :
                g \in InkedSpots(font, mode, p.glyph)} :
               p \in ToSet(Walk("draw", font, string).placed)}

\* Here the ascender is that of the face that is drawn.
DrawTextRotated90CW(family, style, mode, x, y, string) ==
  LET font == FaceFor(family, style)
  IN  UNION {{<<x + p.x + font.ascender - p.glyph.top + g[2], y + p.y - p.glyph.left - g[1]>> :
                g \in InkedSpots(font, mode, p.glyph)} :
               p \in ToSet(Walk("turned", font, string).placed)}

-----------------------------------------------------------------------------
(* Breaking a text into lines.                                             *)

(* truncatedText(): as many characters as leave room for the ellipsis,     *)
(* which stands alone if there is room for none.                           *)
TruncatedText(font, string, maxWidth) ==
  LET cut(k) == Append(SubSeq(string, 1, k), Ellipsis)
      fits == {k \in 0 .. Len(string) : k = 0 \/ TextWidth(font, cut(k)) < maxWidth}
  IN  IF TextWidth(font, string) <= maxWidth THEN string ELSE cut(Max(fits))

Space == " "
Joined(line, rest) == IF line = <<>> THEN rest ELSE line \o <<Space>> \o rest

\* The next word of a text, up to the first space, and what follows it.
WordEnd(string) == Min({k \in 1 .. Len(string) : string[k] = Space} \cup {Len(string) + 1})
FirstWord(string) == SubSeq(string, 1, WordEnd(string) - 1)
RestOf(string) == SubSeq(string, WordEnd(string) + 1, Len(string))

WrapState(remaining, line, lines, done) ==
  [remaining |-> remaining, line |-> line, lines |-> lines, done |-> done]

(* A word that fits the line joins it, or the next line; one that fits no  *)
(* line gets a line of its own, shortened, and ends the text if no line    *)
(* was open.                                                               *)
PlaceWord(font, s, maxWidth, maxLines) ==
  LET word == FirstWord(s.remaining)
      fits(line) == TextWidth(font, line) <= maxWidth
      short == TruncatedText(font, word, maxWidth)
      Next(line, lines, done) == WrapState(RestOf(s.remaining), line, lines, done)
  IN  IF fits(Joined(s.line, word)) THEN Next(Joined(s.line, word), s.lines, FALSE)
      ELSE IF s.line = <<>> THEN Next(<<>>, Append(s.lines, short), TRUE)
      ELSE IF fits(word) THEN Next(word, Append(s.lines, s.line), FALSE)
      ELSE Next(<<>>, s.lines \o <<s.line, short>>, Len(s.lines) + 2 >= maxLines)

Ended(s, lines) == WrapState(s.remaining, s.line, lines, TRUE)

\* A slip to test against: the last line is one too late.
Slip_WrapStep(font, s, maxWidth, maxLines) ==
  IF s.done THEN s
  ELSE IF s.remaining = <<>>
    THEN Ended(s, IF s.line = <<>> THEN s.lines ELSE Append(s.lines, s.line))
  ELSE IF Len(s.lines) = maxLines
    THEN Ended(s, Append(s.lines, TruncatedText(font, Joined(s.line, s.remaining), maxWidth)))
  ELSE PlaceWord(font, s, maxWidth, maxLines)

(* wrappedText(): what is left when the last line is reached is shortened  *)
(* to it.                                                                  *)
WrapStep(font, s, maxWidth, maxLines) ==
  IF s.done THEN s
  ELSE IF s.remaining = <<>>
    THEN Ended(s, IF s.line = <<>> \/ Len(s.lines) >= maxLines THEN s.lines ELSE Append(s.lines, s.line))
  ELSE IF Len(s.lines) = maxLines - 1
    THEN Ended(s, Append(s.lines, TruncatedText(font, Joined(s.line, s.remaining), maxWidth)))
  ELSE PlaceWord(font, s, maxWidth, maxLines)

WrappedText(font, string, maxWidth, maxLines) ==
  LET wrap[n \in Nat] ==
        IF n = 0 THEN WrapState(string, <<>>, <<>>, FALSE)
                 ELSE WrapStep(font, wrap[n - 1], maxWidth, maxLines)
  IN  IF maxWidth <= 0 \/ maxLines <= 0 THEN <<>> ELSE wrap[Len(string) + 1].lines

-----------------------------------------------------------------------------
(* The fonts that are tried: one with all it may have, one of one bit      *)
(* without replacement, kerns and ligatures, and the same in other styles. *)

Box(w, h, left, top, advance) ==
  [width |-> w, height |-> h, left |-> left, top |-> top, advance |-> advance, ink |-> <<1, 2, 3, 0, 1>>]

GlyphOf(c) ==
  CASE c = "f"         -> Box(3, 5, -1, 5, 45)
    [] c = "i"         -> Box(1, 4, 1, 4, 40)
    [] c = "fi"        -> Box(4, 5, 0, 5, 71)
    [] c = "V"         -> Box(5, 4, 0, 4, 88)
    [] c = "acute"     -> Box(2, 2, 1, 6, 0)
    [] c = "cedilla"   -> Box(3, 2, 0, 0, 0)
    [] c = Space       -> Box(0, 0, 0, 0, 56)
    [] c = Ellipsis    -> Box(5, 1, 0, 1, 96)
    [] c = Replacement -> Box(4, 6, 1, 6, 104)

Full ==
  [ascender |-> 6, is2Bit |-> TRUE,
   glyph |-> [c \in {"f", "i", "fi", "V", "acute", "cedilla", Space, Ellipsis, Replacement} |-> GlyphOf(c)],
   kern |-> [p \in {<<"V", "i">>, <<"V", "fi">>, <<"i", "V">>} |->
               CASE p = <<"V", "i">> -> -25 [] p = <<"V", "fi">> -> -17 [] p = <<"i", "V">> -> 9],
   ligature |-> [p \in {<<"f", "i">>} |-> "fi"]]

Bare ==
  [ascender |-> 5, is2Bit |-> FALSE,
   glyph |-> [c \in {"f", "i", "V", "acute", Space, Ellipsis} |-> GlyphOf(c)],
   kern |-> [p \in {<<"V", "i">>} |-> -25], ligature |-> << >>]

Family == [regular |-> Full, bold |-> Bare]
Styles == {{}, {"bold"}, {"bold", "italic"}}

TextsOf(chars) == UNION {[1 .. n -> chars] : n \in 1 .. MaxText}

TextInit == text = NoDrawing

SetText ==
  /\ text = NoDrawing
  /\ \/ \E s \in TextsOf(Characters), style \in Styles :
          text' = [op |-> "draw", string |-> s, style |-> style]
     \/ \E s \in TextsOf({"V", "i", Space}), maxWidth \in {4, 11, 16}, n \in 1 .. MaxLines :
          text' = [op |-> "wrap", string |-> s, maxWidth |-> maxWidth, maxLines |-> n]

-----------------------------------------------------------------------------
IsDrawnAsMeasured(family, style, string) ==
  LET font == FaceFor(family, style)
      end == Walk("draw", font, string)
      boxes == ToSet(end.placed)
      bounds == TextBounds(font, string, 2, 2)
      turn(q) == <<q[2] + font.ascender - family.regular.ascender, - q[1]>>
  IN  /\ bounds.minX = Min({2} \cup {2 + p.x + p.glyph.left : p \in boxes})
      /\ bounds.maxX = Max({2} \cup {2 + p.x + p.glyph.left + p.glyph.width : p \in boxes})
      /\ (\A p \in boxes : p.y = 0) =>
           /\ bounds.minY = Min({2} \cup {2 + p.glyph.top - p.glyph.height : p \in boxes})
           /\ bounds.maxY = Max({2} \cup {2 + p.glyph.top : p \in boxes})
      /\ \A mode \in {"BW", "GRAYSCALE_MSB", "GRAYSCALE_LSB"} :
           DrawTextRotated90CW(family, style, mode, 0, 0, string)
             = {turn(q) : q \in DrawText(family, style, mode, 0, 0, string)}
      /\ TextAdvanceX(font, string) = end.x + ToPixel(end.advance)

(* Text is drawn where it was measured, whatever ligatures, kerns, marks   *)
(* and missing glyphs are on the way: the box of getTextBounds() is that   *)
(* of the glyphs drawText() draws, across always and upwards unless a mark *)
(* is raised; getTextAdvanceX() is where the next glyph would go; and the  *)
(* loop of drawTextRotated90CW() draws the same pixels turned by 90        *)
(* degrees, moved by what the face's ascender differs from the regular     *)
(* one's (EpdFont.cpp:7-72, GfxRenderer.cpp:215-274, 1046-1161).           *)
TextIsDrawnAsMeasured ==
  text.op = "draw" => IsDrawnAsMeasured(Family, text.style, text.string)

Words(string) ==
  LET words[n \in 0 .. Len(string)] ==
        IF n = 0 THEN <<>>
        ELSE IF string[n] = Space THEN words[n - 1] ELSE Append(words[n - 1], string[n])
  IN  words[Len(string)]

IsTooNarrow(font, maxWidth) == maxWidth < TextWidth(font, <<Ellipsis>>)

FitsIn(font, lines, string, maxWidth, maxLines) ==
  /\ Len(lines) <= maxLines
  /\ \A i \in DOMAIN lines :
       TextWidth(font, lines[i]) <= maxWidth \/ (lines[i] = <<Ellipsis>> /\ IsTooNarrow(font, maxWidth))
  /\ \/ Words(FlattenSeq(lines)) = Words(string)
     \/ \E i \in DOMAIN lines : Last(lines[i]) = Ellipsis

(* A wrapped text has no line more than it may and, in a box at least as   *)
(* wide as an ellipsis, none wider than the box; and no word is left out   *)
(* unless an ellipsis says so (GfxRenderer.cpp:900-982).  In a narrower    *)
(* box the ellipsis that stands for a word sticks out, although            *)
(* GfxRenderer.h:133-134 promises lines no wider than the box.             *)
WrappedTextFits ==
  text.op = "wrap" =>
    FitsIn(Full, WrappedText(Full, text.string, text.maxWidth, text.maxLines),
           text.string, text.maxWidth, text.maxLines)
=============================================================================
