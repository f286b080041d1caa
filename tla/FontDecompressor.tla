-------------------------- MODULE FontDecompressor --------------------------
(***************************************************************************)
(* The bitmaps of compressed fonts (lib/EpdFont/FontDecompressor.cpp) and  *)
(* their preparation for a page (lib/GfxRenderer/FontCacheManager.cpp).    *)
(*                                                                         *)
(* The pixels of a font are tagged with the glyph they belong to, so that  *)
(* a wrong offset shows.  Sizes and offsets are in pixels, four to a byte; *)
(* a character is the index of its glyph.  Any allocation and any          *)
(* decompression may fail.                                                 *)
(***************************************************************************)
EXTENDS Integers, Sequences, SequencesExt, FiniteSets

CONSTANTS
  Faces,           \* the faces, by name: the sizes of the glyphs and their groups
  Families,        \* the faces of a family for its styles
  MaxPageSlots,    \* MAX_PAGE_SLOTS
  MaxPageGlyphs,   \* MAX_PAGE_GLYPHS
  MaxPageGroups,   \* the 128 groups of a page
  Letters,         \* the characters of the recorded texts
  PageStyles,      \* the styles of the recorded texts
  MaxRecorded      \* bound on the recorded characters

StyleNames == <<"regular", "bold", "italic", "boldItalic">>

ASSUME FontAssumption ==
  /\ {MaxPageSlots, MaxPageGlyphs, MaxPageGroups} \subseteq Nat \ {0}
  /\ MaxRecorded \in Nat
  /\ \A face \in DOMAIN Faces :
       /\ Faces[face].size \in Seq(Nat \X Nat)
       /\ Faces[face].group \in [DOMAIN Faces[face].size -> Nat]
  /\ "none" \notin DOMAIN Faces
  /\ \A family \in DOMAIN Families : \A i \in DOMAIN StyleNames :
       Families[family][StyleNames[i]] \in DOMAIN Faces

VARIABLES
  pageSlots,    \* per prepared face: [face, buffer, offset]
  hotGroup,     \* the group decompressed last, or NoGroup
  scan,         \* the PrewarmScope: [scanning, letters, family, styles], or NoScope
  drawn         \* the last glyph asked for, and the pixels it got

fontVars == <<pageSlots, hotGroup, scan, drawn>>

NoGroup == [face |-> "none", group |-> 0, pixels |-> <<>>]
NoScope == [scanning |-> FALSE, letters |-> <<>>, family |-> 0, styles |-> {}]
Nothing == [face |-> "none", glyph |-> 0, pixels |-> <<>>]

-----------------------------------------------------------------------------
(* Two faces: one whose groups are runs of glyphs, and one that names the  *)
(* group of every glyph.  The sizes of the glyphs are <<width, height>>.   *)
TwoFaces ==
  [contiguous |-> [size |-> <<<<3, 2>>, <<4, 1>>, <<5, 1>>>>, group |-> <<1, 1, 2>>],
   byFrequency |-> [size |-> <<<<1, 2>>, <<6, 1>>, <<0, 0>>, <<2, 3>>>>, group |-> <<2, 1, 2, 2>>]]

(* Two families: getData() of a style that a family has no face for gives  *)
(* the regular one.                                                        *)
TwoFamilies ==
  <<[regular |-> "contiguous", bold |-> "contiguous", italic |-> "contiguous", boldItalic |-> "contiguous"],
    [regular |-> "byFrequency", bold |-> "contiguous", italic |-> "byFrequency", boldItalic |-> "contiguous"]>>

Glyphs(face) == DOMAIN Faces[face].size
LastGlyph(face) == Len(Faces[face].size)
GroupOf(face, g) == Faces[face].group[g]
Groups == UNION {{GroupOf(face, g) : g \in Glyphs(face)} : face \in DOMAIN Faces}
Width(face, g) == Faces[face].size[g][1]
Height(face, g) == Faces[face].size[g][2]

WholeBytes(n) == 4 * ((n + 3) \div 4)
RowStride(face, g) == WholeBytes(Width(face, g))
DataLength(face, g) == WholeBytes(Width(face, g) * Height(face, g))

(* What a glyph looks like, row after row.                                 *)
GlyphBitmap(face, g) == [k \in 1 .. Width(face, g) * Height(face, g) |-> <<face, g, k>>]

Padding == <<"none", 0, 0>>

(* In a group every row of a glyph fills whole bytes.                      *)
AlignedGlyph(face, g) ==
  [k \in 1 .. RowStride(face, g) * Height(face, g) |->
     LET x == (k - 1) % RowStride(face, g)
         y == (k - 1) \div RowStride(face, g)
     IN  IF x < Width(face, g) THEN <<face, g, y * Width(face, g) + x + 1>> ELSE Padding]

(* The glyphs of a group follow one another.                               *)
GroupPixels(face, group) ==
  LET joined[g \in 0 .. LastGlyph(face)] ==
        IF g = 0 THEN <<>>
        ELSE joined[g - 1] \o (IF GroupOf(face, g) = group THEN AlignedGlyph(face, g) ELSE <<>>)
  IN  joined[LastGlyph(face)]

\* A slip to test against: the padding of the rows is not counted.
Slip_AlignedOffset(face, group, g) ==
  LET offset[h \in 0 .. g - 1] ==
        IF h = 0 THEN 0
        ELSE offset[h - 1] + (IF GroupOf(face, h) = group THEN Width(face, h) * Height(face, h) ELSE 0)
  IN  offset[g - 1]

(* getAlignedOffset(): behind the glyphs of the group that come before.    *)
AlignedOffset(face, group, g) ==
  LET offset[h \in 0 .. g - 1] ==
        IF h = 0 THEN 0
        ELSE offset[h - 1] + (IF GroupOf(face, h) = group THEN RowStride(face, h) * Height(face, h) ELSE 0)
  IN  offset[g - 1]

(* compactSingleGlyph(): the pixels without the padding of the rows.       *)
Compacted(pixels, offset, face, g) ==
  [k \in 1 .. Width(face, g) * Height(face, g) |->
     pixels[offset + ((k - 1) \div Width(face, g)) * RowStride(face, g) + ((k - 1) % Width(face, g)) + 1]]

-----------------------------------------------------------------------------
(* getBitmap().                                                            *)

NotExtracted == -1

(* The first slot of the face decides, whether it has the glyph or not.    *)
PageSlotOf(face) ==
  LET of == {s \in DOMAIN pageSlots : pageSlots[s].face = face}
  IN  IF of = {} THEN 0 ELSE CHOOSE s \in of : \A t \in of : s <= t
OnPage(face, g) == PageSlotOf(face) # 0 /\ pageSlots[PageSlotOf(face)].offset[g] # NotExtracted

PagePixels(face, g) ==
  LET slot == pageSlots[PageSlotOf(face)]
  IN  SubSeq(slot.buffer, slot.offset[g] + 1, slot.offset[g] + Width(face, g) * Height(face, g))

IsHot(face, group) == hotGroup.face = face /\ hotGroup.group = group

HotPixels(hot, face, g) ==
  Compacted(hot.pixels, AlignedOffset(face, GroupOf(face, g), g), face, g)

DrawPageGlyph(face, g) ==
  /\ OnPage(face, g)
  /\ drawn' = [face |-> face, glyph |-> g, pixels |-> PagePixels(face, g)]
  /\ UNCHANGED <<pageSlots, hotGroup, scan>>

DrawHotGlyph(face, g) ==
  LET group == GroupOf(face, g)
      hot == IF IsHot(face, group) THEN hotGroup
             ELSE [face |-> face, group |-> group, pixels |-> GroupPixels(face, group)]
  IN  /\ ~ OnPage(face, g)
      /\ hotGroup' = hot
      /\ drawn' = [face |-> face, glyph |-> g, pixels |-> HotPixels(hot, face, g)]
      /\ UNCHANGED <<pageSlots, scan>>

(* No memory for the group, or its data is damaged: nullptr, and what was  *)
(* decompressed before is lost too.                                        *)
FailToDraw(face, g) ==
  /\ ~ OnPage(face, g) /\ ~ IsHot(face, GroupOf(face, g))
  /\ hotGroup' = NoGroup
  /\ drawn' = Nothing
  /\ UNCHANGED <<pageSlots, scan>>

-----------------------------------------------------------------------------
(* prewarmCache() of one face: the glyphs the text needs, in the order of  *)
(* the text and up to a limit; their groups, in the same order; and of     *)
(* every group that could be decompressed the needed glyphs, sorted.       *)
FirstOnes(seq, wanted, n) ==
  LET found[i \in 0 .. Len(seq)] ==
        IF i = 0 THEN <<>>
        ELSE IF seq[i] \notin wanted \/ Contains(found[i - 1], seq[i]) \/ Len(found[i - 1]) >= n THEN found[i - 1]
        ELSE Append(found[i - 1], seq[i])
  IN  found[Len(seq)]

NeededGlyphs(face, letters) == FirstOnes(letters, Glyphs(face), MaxPageGlyphs)

NeededGroups(face, needed) ==
  LET groups == [i \in 1 .. Len(needed) |-> GroupOf(face, needed[i])]
  IN  FirstOnes(groups, ToSet(groups), MaxPageGroups)

(* A glyph out of its group, without the padding, to the end of the page.  *)
PackedGlyph(face, g) ==
  LET pixels == Compacted(GroupPixels(face, GroupOf(face, g)), AlignedOffset(face, GroupOf(face, g), g), face, g)
  IN  [k \in 1 .. DataLength(face, g) |-> IF k <= Len(pixels) THEN pixels[k] ELSE Padding]

Extract(slot, g) ==
  [face |-> slot.face, buffer |-> slot.buffer \o PackedGlyph(slot.face, g),
   offset |-> [slot.offset EXCEPT ![g] = Len(slot.buffer)]]

ExtractGroup(slot, needed, group) ==
  LET filled[g \in 0 .. LastGlyph(slot.face)] ==
        IF g = 0 THEN slot
        ELSE IF Contains(needed, g) /\ GroupOf(slot.face, g) = group THEN Extract(filled[g - 1], g)
        ELSE filled[g - 1]
  IN  filled[LastGlyph(slot.face)]

EmptySlot(face) == [face |-> face, buffer |-> <<>>, offset |-> [g \in Glyphs(face) |-> NotExtracted]]

FilledSlot(face, needed, lost) ==
  LET groups == NeededGroups(face, needed)
      filled[i \in 0 .. Len(groups)] ==
        IF i = 0 THEN EmptySlot(face)
        ELSE IF groups[i] \in lost THEN filled[i - 1]
        ELSE ExtractGroup(filled[i - 1], needed, groups[i])
  IN  filled[Len(groups)]

\* A slot that could not be allocated is not taken.
Prewarmed(slots, face, letters, lost, noMemory) ==
  LET needed == NeededGlyphs(face, letters)
  IN  IF Len(slots) >= MaxPageSlots \/ needed = <<>> \/ noMemory THEN slots
      ELSE Append(slots, FilledSlot(face, needed, lost))

-----------------------------------------------------------------------------
(* FontCacheManager: a scope in which a page is drawn twice, first to      *)
(* record its text.                                                        *)

\* PrewarmScope()
OpenScope ==
  /\ scan' = [NoScope EXCEPT !.scanning = TRUE]
  /\ pageSlots' = <<>> /\ hotGroup' = NoGroup
  /\ UNCHANGED drawn

(* drawText() while scanning: only the first family is remembered.         *)
RecordText(family, style, letter) ==
  /\ scan.scanning /\ Len(scan.letters) < MaxRecorded
  /\ scan' = [scanning |-> TRUE, letters |-> Append(scan.letters, letter),
              family |-> IF scan.family = 0 THEN family ELSE scan.family, styles |-> scan.styles \cup {style}]
  /\ UNCHANGED <<pageSlots, hotGroup, drawn>>

(* endScanAndPrewarm(): a slot for each style that was recorded.           *)
WarmedPage(lost, noMemory) ==
  LET warmed[i \in 0 .. Len(StyleNames)] ==
        IF i = 0 THEN pageSlots
        ELSE IF StyleNames[i] \notin scan.styles THEN warmed[i - 1]
        ELSE Prewarmed(warmed[i - 1], Families[scan.family][StyleNames[i]], scan.letters, lost,
                       StyleNames[i] \in noMemory)
  IN  warmed[Len(StyleNames)]

EndScan(lost, noMemory) ==
  /\ scan.scanning
  /\ scan' = [[scan EXCEPT !.scanning = FALSE] EXCEPT !.letters = <<>>]
  /\ pageSlots' = IF scan.letters = <<>> THEN pageSlots ELSE WarmedPage(lost, noMemory)
  /\ UNCHANGED <<hotGroup, drawn>>

\* ~PrewarmScope(): what it would still prepare is cleared at once.
CloseScope ==
  /\ scan # NoScope
  /\ scan' = NoScope
  /\ pageSlots' = <<>> /\ hotGroup' = NoGroup
  /\ UNCHANGED drawn

-----------------------------------------------------------------------------
FontInit == pageSlots = <<>> /\ hotGroup = NoGroup /\ scan = NoScope /\ drawn = Nothing

DrawGlyph ==
  \E face \in DOMAIN Faces : \E g \in Glyphs(face) :
    DrawPageGlyph(face, g) \/ DrawHotGlyph(face, g) \/ FailToDraw(face, g)

FontNext ==
  \/ OpenScope
  \/ \E family \in DOMAIN Families, style \in PageStyles, letter \in Letters :
       RecordText(family, style, letter)
  \/ \E lost \in SUBSET Groups, noMemory \in SUBSET scan.styles : EndScan(lost, noMemory)
  \/ CloseScope
  \/ DrawGlyph

(* A glyph that is drawn is the one that was asked for, in its face, pixel *)
(* by pixel: from the page that was prepared for it, completely or not, or *)
(* from the group that was decompressed last, whatever allocation or       *)
(* decompression failed before (FontDecompressor.cpp:131-215, 245-463).    *)
GlyphIsTheRightOne == drawn # Nothing => drawn.pixels = GlyphBitmap(drawn.face, drawn.glyph)
=============================================================================
