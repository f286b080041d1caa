------------------------------ MODULE Inflate ------------------------------
(***************************************************************************)
(* Decompression (lib/InflateReader/InflateReader.cpp and the decoder it   *)
(* wraps, lib/uzlib/src/tinflate.c).                                       *)
(*                                                                         *)
(* A stream is its blocks, and a block its bytes or its symbols: a         *)
(* literal, a match <<length, distance>>, or the end of the block.  How    *)
(* symbols are found in the bits is shown apart, on small alphabets, whose *)
(* symbols are counted from 1 as all sequences are; the                    *)
(* extra bits of lengths and distances are abstracted.  The sliding window *)
(* of 32 KB is DictSize.                                                   *)
(***************************************************************************)
EXTENDS Integers, Sequences, SequencesExt, FiniteSetsExt

CONSTANTS
  DictSize,      \* INFLATE_DICT_SIZE
  Literals,      \* the bytes of the data
  MaxLength,     \* bound on the length of a match
  MaxSymbols,    \* bound on the symbols of a block
  MaxBlocks,     \* bound on the blocks of a stream
  Pieces,        \* how much one call may ask for
  Alphabet,      \* the number of symbols of a code
  Items          \* what describes its lengths: a length, or 16 .. 18, and how often

ASSUME InflateAssumption ==
  /\ {DictSize, MaxLength, MaxSymbols, MaxBlocks, Alphabet} \subseteq Nat \ {0}
  /\ Pieces \subseteq Nat \ {0} /\ 0 \notin Literals
  /\ Items \subseteq (0 .. 18) \X (Nat \ {0})

VARIABLES
  stream,     \* the blocks that are read
  reader,     \* the InflateReader, or NoReader
  out,        \* what the calls of read() and readAtMost() gave so far
  code        \* a code that symbols are decoded with; none yet

inflateVars == <<stream, reader, out, code>>

-----------------------------------------------------------------------------
(* Codes: a prefix code is given by the lengths of its words.              *)

NoCode == <<>>

(* tinf_decode_trees(): the lengths, where 16 repeats the one before and   *)
(* 17 and 18 stand for zeros; or <<>> for an error.                        *)
WithItem(l, item) ==
  IF item[1] < 16 THEN Append(l, item[1])
  ELSE IF item[1] > 16 THEN l \o [i \in 1 .. item[2] |-> 0]
  ELSE IF l = <<>> THEN l
  ELSE l \o [i \in 1 .. item[2] |-> Last(l)]

DecodedLengths(items, limit) ==
  LET lengths[i \in 0 .. Len(items)] == IF i = 0 THEN <<>> ELSE WithItem(lengths[i - 1], items[i])
      decoded == lengths[Len(items)]
      wrong == (items # <<>> /\ items[1][1] = 16) \/ Len(decoded) > limit
  IN  IF wrong THEN <<>> ELSE decoded

\* No word has length 0.
HowMany(lengths, n) == IF n = 0 THEN 0 ELSE Cardinality({s \in DOMAIN lengths : lengths[s] = n})

\* A slip to test against: the symbols are in their own order.
Slip_BuildTree(lengths) ==
  LET used == {s \in DOMAIN lengths : lengths[s] > 0}
  IN  [table |-> [n \in 1 .. 15 |-> HowMany(lengths, n)], trans |-> SetToSortSeq(used, <)]

(* tinf_build_tree(): how many words have a length, and the symbols in the *)
(* order of their words.                                                   *)
Rank(lengths, s) ==
  Cardinality({t \in DOMAIN lengths :
                 lengths[t] \in 1 .. lengths[s] - 1 \/ (lengths[t] = lengths[s] /\ t <= s)})

BuildTree(lengths) ==
  LET used == {s \in DOMAIN lengths : lengths[s] > 0}
  IN  [table |-> [n \in 1 .. 15 |-> HowMany(lengths, n)],
       trans |-> [i \in 1 .. Cardinality(used) |-> CHOOSE s \in used : Rank(lengths, s) = i]]

(* One round of tinf_decode_symbol(): cur counts from the first word of    *)
(* length n, and is negative once the word is found.                       *)
DecodeStep(tree, s, n, bit) ==
  [cur |-> 2 * s.cur + bit - tree.table[n], sum |-> s.sum + tree.table[n]]

(* The symbol at the start of some bits, and the length of its word; too   *)
(* long a word is an error.                                                *)
DecodeSymbol(tree, bits) ==
  LET walk[n \in 0 .. 15] ==
        IF n = 0 THEN [cur |-> 0, sum |-> 0]
        ELSE DecodeStep(tree, walk[n - 1], n, IF n <= Len(bits) THEN bits[n] ELSE 0)
      ends == {n \in 1 .. 15 : walk[n].cur < 0}
  IN  IF ends = {} THEN [symbol |-> -1, used |-> 16]
      ELSE [symbol |-> tree.trans[walk[Min(ends)].sum + walk[Min(ends)].cur + 1], used |-> Min(ends)]

(* tinf_build_fixed_trees().                                               *)
FixedTree ==
  [table |-> [n \in 1 .. 15 |-> IF n = 7 THEN 24 ELSE IF n = 8 THEN 152 ELSE IF n = 9 THEN 112 ELSE 0],
   trans |-> [i \in 1 .. 288 |->
                IF i <= 24 THEN 256 + i
                ELSE IF i <= 24 + 144 THEN i - 24
                ELSE IF i <= 24 + 144 + 8 THEN 280 + (i - 168)
                ELSE 144 + (i - 176)]]

-----------------------------------------------------------------------------
(* The reader.                                                             *)

NoReader == [status |-> "none"]

(* init(): with a ring for what comes out, if it shall be read in pieces.  *)
NewReader(streaming) ==
  [status |-> "ok", streaming |-> streaming, block |-> 1, at |-> 1, curlen |-> 0, lzOff |-> 0,
   ring |-> IF streaming THEN [i \in 0 .. DictSize - 1 |-> 0] ELSE << >>, dictIdx |-> 0, dest |-> <<>>]

\* A slip to test against: what is copied does not enter the ring.
Slip_Put(r, c) ==
  LET p == [r EXCEPT !.dest = Append(@, c)]
      idx == (r.dictIdx + 1) % DictSize
  IN  IF ~ r.streaming THEN p
      ELSE IF r.curlen > 0 THEN [p EXCEPT !.dictIdx = idx]
      ELSE [[p EXCEPT !.ring = [@ EXCEPT ![r.dictIdx] = c]] EXCEPT !.dictIdx = idx]

(* TINF_PUT.                                                               *)
Put(r, c) ==
  LET p == [r EXCEPT !.dest = Append(@, c)]
      idx == (r.dictIdx + 1) % DictSize
  IN  IF r.streaming THEN [[p EXCEPT !.ring = [@ EXCEPT ![r.dictIdx] = c]] EXCEPT !.dictIdx = idx]
      ELSE p

(* The next byte of a match: out of the ring, or from what this call has   *)
(* put out.                                                                *)
CopyByte(r) ==
  LET c == IF r.streaming THEN r.ring[r.lzOff] ELSE r.dest[Len(r.dest) + r.lzOff + 1]
      p == [Put(r, c) EXCEPT !.curlen = @ - 1]
  IN  IF r.streaming THEN [p EXCEPT !.lzOff = (@ + 1) % DictSize] ELSE p

StartMatch(r, length, offs) ==
  LET m == [[r EXCEPT !.at = @ + 1] EXCEPT !.curlen = length]
      far == offs > IF r.streaming THEN DictSize ELSE Len(r.dest)
      lzOff == IF r.streaming THEN (r.dictIdx - offs + DictSize) % DictSize ELSE -offs
  IN  IF far THEN [m EXCEPT !.status = "error"] ELSE CopyByte([m EXCEPT !.lzOff = lzOff])

EndBlock(r) ==
  IF r.block = Len(stream) THEN [r EXCEPT !.status = "done"]
  ELSE [[r EXCEPT !.block = @ + 1] EXCEPT !.at = 1]

(* tinf_inflate_block_data(): beyond the end of the source every symbol is *)
(* an error.                                                               *)
BlockData(r, symbols) ==
  IF r.curlen > 0 THEN CopyByte(r)
  ELSE IF r.at > Len(symbols) THEN [r EXCEPT !.status = "error"]
  ELSE LET symbol == symbols[r.at]
       IN  CASE symbol.kind = "literal" -> Put([r EXCEPT !.at = @ + 1], symbol.byte)
             [] symbol.kind = "end"     -> EndBlock(r)
             [] symbol.kind = "match"   -> StartMatch(r, symbol.length, symbol.distance)

(* tinf_inflate_uncompressed_block(): curlen is one more than what is left *)
(* to be copied.  Beyond the end of the source the bytes are 0.            *)
StoredBlock(r, bytes, length) ==
  LET left == (IF r.curlen = 0 THEN length + 1 ELSE r.curlen) - 1
      rest == [r EXCEPT !.curlen = left]
  IN  IF left = 0 THEN EndBlock(rest)
      ELSE Put([rest EXCEPT !.at = @ + 1], IF r.at <= Len(bytes) THEN bytes[r.at] ELSE 0)

InflateStep(r) ==
  LET b == stream[r.block]
  IN  IF b.stored THEN StoredBlock(r, b.bytes, b.length) ELSE BlockData(r, b.symbols)

(* uzlib_uncompress(): until dest is full, the stream ends, or an error.   *)
Uncompress(r, len) ==
  LET run[n \in Nat] ==
        IF n = 0 THEN [r EXCEPT !.dest = <<>>]
        ELSE LET s == run[n - 1]
             IN  IF s.status # "ok" \/ Len(s.dest) >= len THEN s ELSE InflateStep(s)
  IN  run[len + Len(stream) + 1]

(* readAtMost(): what was put out.                                         *)
ReadAtMost(len) ==
  LET r == Uncompress(reader, len)
  IN  /\ reader.status = "ok" /\ (~ reader.streaming => out = <<>>)
      /\ reader' = [r EXCEPT !.dest = <<>>]
      /\ out' = out \o r.dest
      /\ UNCHANGED <<stream, code>>

-----------------------------------------------------------------------------
Literal(c) == [kind |-> "literal", byte |-> c]
EndOfBlock == [kind |-> "end"]
Matches == [kind : {"match"}, length : 3 .. MaxLength, distance : 1 .. DictSize]

UpTo(n, set) == UNION {[1 .. k -> set] : k \in 0 .. n}
Symbols == {Literal(c) : c \in Literals} \cup Matches

(* Blocks as an encoder writes them, and some whose end is missing.        *)
Blocks ==
  {[stored |-> FALSE, symbols |-> s \o e] : s \in UpTo(MaxSymbols, Symbols), e \in {<<EndOfBlock>>, <<>>}}
  \cup {[stored |-> TRUE, bytes |-> s, length |-> Len(s)] : s \in UpTo(2, Literals)}

(* What the blocks stand for: a match repeats the last bytes of the data,  *)
(* again and again if it is longer than it reaches back.  One that reaches *)
(* further than the data does stands for nothing.                          *)
Repeated(data, length, distance) ==
  [i \in 1 .. length |-> data[Len(data) - distance + 1 + ((i - 1) % distance)]]

Reaches(data, symbol) == symbol.kind = "match" => symbol.distance <= Len(data)

Meaning(data, symbol) ==
  IF symbol.kind = "literal" THEN <<symbol.byte>>
  ELSE IF symbol.kind = "match" /\ Reaches(data, symbol)
    THEN Repeated(data, symbol.length, symbol.distance)
  ELSE <<>>

ExpandedBy(data, symbols, n) ==
  LET grown[i \in 0 .. n] == IF i = 0 THEN data ELSE grown[i - 1] \o Meaning(grown[i - 1], symbols[i])
  IN  grown[n]

Expanded(data, b) == IF b.stored THEN data \o b.bytes ELSE ExpandedBy(data, b.symbols, Len(b.symbols))

ExpandedUpTo(blocks, n) ==
  LET whole[i \in 0 .. n] == IF i = 0 THEN <<>> ELSE Expanded(whole[i - 1], blocks[i])
  IN  whole[n]

Expansion(blocks) == ExpandedUpTo(blocks, Len(blocks))

(* A match reaches no further back than the data does.                     *)
ReachesBack(data, b) ==
  ~ b.stored =>
    \A i \in DOMAIN b.symbols : Reaches(ExpandedBy(data, b.symbols, i - 1), b.symbols[i])

IsWhole(blocks) == \A i \in DOMAIN blocks : ~ blocks[i].stored => Last(blocks[i].symbols) = EndOfBlock

InflateInit == stream = <<>> /\ reader = NoReader /\ out = <<>> /\ code = NoCode

(* A block is added to the stream that will be read.                       *)
AddBlock(b) ==
  /\ reader = NoReader /\ code = NoCode /\ Len(stream) < MaxBlocks
  /\ IsWhole(stream)
  /\ ~ b.stored => b.symbols # <<>>
  /\ ReachesBack(Expansion(stream), b)
  /\ stream' = Append(stream, b)
  /\ UNCHANGED <<reader, out, code>>

OpenReader ==
  /\ reader = NoReader /\ stream # <<>>
  /\ \E streaming \in BOOLEAN : reader' = NewReader(streaming)
  /\ UNCHANGED <<stream, out, code>>

FewItems == {<<n, 1>> : n \in 1 .. 3} \cup {<<16, 3>>} \cup {<<n, 2>> : n \in {17, 18}}

(* A code that a block describes, or the one that all know.                *)
FixedLengths ==
  [s \in 1 .. 288 |-> IF s <= 144 THEN 8 ELSE IF s <= 256 THEN 9 ELSE IF s <= 280 THEN 7 ELSE 8]

ChooseCode ==
  /\ stream = <<>> /\ code = NoCode
  /\ \/ \E items \in UpTo(Alphabet, Items) : code' = DecodedLengths(items, Alphabet)
     \/ code' = FixedLengths
  /\ UNCHANGED <<stream, reader, out>>

InflateNext ==
  \/ \E b \in Blocks : AddBlock(b)
  \/ OpenReader
  \/ \E len \in Pieces : ReadAtMost(len)
  \/ ChooseCode

-----------------------------------------------------------------------------
(* The words of a code by the rule of the format: by length, then symbol.  *)
FirstOfLength(lengths) ==
  LET first[n \in 0 .. 15] == IF n = 0 THEN 0 ELSE 2 * (first[n - 1] + HowMany(lengths, n - 1))
  IN  first

Value(lengths, s) ==
  FirstOfLength(lengths)[lengths[s]] + Cardinality({t \in DOMAIN lengths : lengths[t] = lengths[s] /\ t < s})

Word(lengths, s) ==
  LET halved[k \in 0 .. lengths[s]] == IF k = 0 THEN Value(lengths, s) ELSE halved[k - 1] \div 2
  IN  [i \in 1 .. lengths[s] |-> halved[lengths[s] - i] % 2]

PowerOf2[n \in 0 .. 15] == IF n = 0 THEN 1 ELSE 2 * PowerOf2[n - 1]

(* The words of each length are among those there are.                     *)
IsPrefixCode(lengths) ==
  \A n \in 1 .. 15 : FirstOfLength(lengths)[n] + HowMany(lengths, n) <= PowerOf2[n]

(* Every word of every code that its lengths allow is decoded to its       *)
(* symbol and taken as a whole, whatever bits follow; and the fixed code   *)
(* is the one that its lengths give (tinflate.c:126-187, 278-400).         *)
EveryWordIsDecoded ==
  LET tree == IF code = FixedLengths THEN FixedTree ELSE BuildTree(code)
      some == IF code = FixedLengths THEN {1, 144, 145, 256, 257, 280, 281, 288}
              ELSE {t \in DOMAIN code : code[t] > 0}
  IN  code = FixedLengths \/ IsPrefixCode(code) =>
        \A s \in some : \A next \in 0 .. 1 :
          DecodeSymbol(tree, Append(Word(code, s), next)) = [symbol |-> s, used |-> code[s]]

(* Read in pieces of any sizes, through the ring, or in one piece, the     *)
(* output is what the stream stands for, in order and nothing else; a      *)
(* whole stream is no error, and done only when all of it was put out      *)
(* (InflateReader.cpp:49-78, tinflate.c:407-626).                          *)
OutputIsTheExpansion ==
  /\ IsPrefix(out, Expansion(stream))
  /\ reader.status = "done" => out = Expansion(stream)
  /\ reader.status = "error" => ~ IsWhole(stream)
=============================================================================
