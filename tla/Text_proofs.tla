----------------------------- MODULE Text_proofs -----------------------------
(***************************************************************************)
(* Proofs about the characters of a text (Utf8), about measuring, drawing  *)
(* and breaking it into lines (Text), for texts of any length and fonts of *)
(* any size, and about the glyphs of its fonts (FontDecompressor).         *)
(***************************************************************************)
EXTENDS Graphics, Numbers, SequenceTheorems, TLAPS

(* Texts put together, piece by piece.                                     *)
IsJoined(S, f, seqs) ==
  /\ f \in [0 .. Len(seqs) -> Seq(S)]
  /\ f[0] = <<>>
  /\ \A i \in 1 .. Len(seqs) : f[i] = f[i - 1] \o seqs[i]

(* What FlattenSeq() makes is what is joined piece by piece.               *)
LEMMA FlattenIs ==
  ASSUME NEW S, NEW seqs \in Seq(Seq(S)), NEW f, IsJoined(S, f, seqs)
  PROVE  FlattenSeq(seqs) = f[Len(seqs)]
<1> DEFINE Rounds(g) == [i \in 1 .. Len(seqs) |-> IF i = 1 THEN seqs[i] ELSE g[i - 1] \o seqs[i]]
           flatten == CHOOSE g : g = Rounds(g)
           w == [i \in 1 .. Len(seqs) |-> f[i]]
           T == {i \in Nat : i \in 1 .. Len(seqs) => flatten[i] = f[i]}
<1>1. Len(seqs) \in Nat /\ \A i \in 1 .. Len(seqs) : seqs[i] \in Seq(S)
  BY LenProperties, ElementOfSeq, Zenon
<1>2. f[0] = <<>> /\ \A i \in 0 .. Len(seqs) : f[i] \in Seq(S)
  BY Zenon DEF IsJoined
<1>3. \A i \in 1 .. Len(seqs) : f[i] = f[i - 1] \o seqs[i]
  BY Zenon DEF IsJoined
<1>4. CASE Len(seqs) = 0
  <2>1. FlattenSeq(seqs) = seqs
    BY <1>4, Zenon DEF FlattenSeq
  <2>2. seqs = <<>>
    BY <1>4, SMT
  <2>. QED
    BY <1>2, <1>4, <2>1, <2>2, Zenon
<1>5. CASE Len(seqs) # 0
  <2>1. FlattenSeq(seqs) = flatten[Len(seqs)]
    BY <1>5, Zenon DEF FlattenSeq
  <2>2. \A i \in 1 .. Len(seqs) : w[i] = f[i]
    BY Zenon
  <2>3. ASSUME NEW i \in 1 .. Len(seqs) PROVE w[i] = IF i = 1 THEN seqs[i] ELSE w[i - 1] \o seqs[i]
    <3>1. CASE i = 1
      <4>3. f[1] = f[1 - 1] \o seqs[1]
        BY <1>3, <3>1, Zenon
      <4>4. 1 - 1 = 0
        BY SMT
      <4>1. f[1] = <<>> \o seqs[1]
        BY <1>2, <4>3, <4>4, Zenon
      <4>2. <<>> \o seqs[1] = seqs[1]
        BY <1>1, <3>1, ConcatEmptySeq, Zenon
      <4>. QED
        BY <2>2, <3>1, <4>1, <4>2, Zenon
    <3>2. CASE i # 1
      <4>1. i - 1 \in 1 .. Len(seqs)
        BY <1>1, <3>2, SMT
      <4>. QED
        BY <1>3, <2>2, <3>2, <4>1, Zenon
    <3>. QED
      BY <3>1, <3>2, Zenon
  <2> HIDE DEF w
  <2>4. w = Rounds(w)
    <3>1. w \in [1 .. Len(seqs) -> Seq(S)]
      <4>1. \A i \in 1 .. Len(seqs) : i \in 0 .. Len(seqs)
        BY <1>1, SMT
      <4>. QED
        BY <1>2, <4>1, Zenon DEF w
    <3>. QED
      BY <2>3, <3>1, Zenon
  <2>5. flatten = Rounds(flatten)
    BY <2>4, Zenon
  <2> HIDE DEF flatten
  <2>6. \A i \in 1 .. Len(seqs) : flatten[i] = IF i = 1 THEN seqs[i] ELSE flatten[i - 1] \o seqs[i]
    BY <2>5, Zenon
  <2>7. 0 \in T
    BY SMT
  <2>8. ASSUME NEW i \in T PROVE i + 1 \in T
    <3> SUFFICES ASSUME i + 1 \in 1 .. Len(seqs) PROVE flatten[i + 1] = f[i + 1]
      BY SMT
    <3>1. CASE i = 0
      <4>1. flatten[1] = seqs[1]
        BY <2>6, <3>1, SMT
      <4>2. f[1] = seqs[1]
        <5>1. 1 \in 1 .. Len(seqs)
          BY <3>1, SMT
        <5>2. w[1] = seqs[1]
          BY <2>3, <5>1, Zenon
        <5>. QED
          BY <2>2, <5>1, <5>2, Zenon
      <4>. QED
        BY <3>1, <4>1, <4>2, SMT
    <3>2. CASE i # 0
      <4>1. PICK m : m = i + 1
        BY Zenon
      <4>2. i \in 1 .. Len(seqs) /\ m \in 1 .. Len(seqs) /\ m # 1 /\ m - 1 = i
        BY <1>1, <3>2, <4>1, SMT
      <4>3. flatten[i] = f[i]
        BY <4>2, Zenon
      <4>4. f[m] = f[m - 1] \o seqs[m]
        BY <1>3, <4>2, Zenon
      <4>5. flatten[m] = flatten[m - 1] \o seqs[m]
        BY <2>6, <4>2, Zenon
      <4>. QED
        BY <4>1, <4>2, <4>3, <4>4, <4>5, Zenon
    <3>. QED
      BY <3>1, <3>2, Zenon
  <2>9. T = Nat
    <3>1. T \in SUBSET Nat
      BY Zenon
    <3> HIDE DEF T
    <3>. QED
      BY <2>7, <2>8, <3>1, Induction, Zenon
  <2>10. Len(seqs) \in 1 .. Len(seqs)
    BY <1>1, <1>5, SMT
  <2>. QED
    BY <1>1, <2>1, <2>9, <2>10, Zenon
<1>. QED
  BY <1>4, <1>5, Zenon

(* Any pieces can be joined one by one.                                    *)
LEMMA JoinedExists ==
  ASSUME NEW S, NEW seqs \in Seq(Seq(S))
  PROVE  \E f : IsJoined(S, f, seqs)
<1> DEFINE N == Len(seqs)
           V == Seq(S)
           next == [n \in Nat |-> [v \in V |-> IF n \in 1 .. N THEN v \o seqs[n] ELSE v]]
<1>1. N \in Nat
  BY LenProperties, Zenon
<1>2. \A n \in 1 .. N : seqs[n] \in V
  BY ElementOfSeq, Zenon
<1> HIDE DEF N
<1>3. ASSUME NEW n \in Nat, NEW v \in V
      PROVE  next[n][v] = IF n \in 1 .. N THEN v \o seqs[n] ELSE v
  BY Zenon
<1>4. \A n \in Nat : \A v \in V : next[n][v] \in V
  <2>1. \A v, u \in V : v \o u \in V
    BY ConcatProperties, Zenon
  <2>. QED
    BY <1>2, <1>3, <2>1, Zenon
<1>5. <<>> \in V
  BY EmptySeq, Zenon
<1> HIDE DEF V, next
<1>6. PICK f : IsUpTo(V, <<>>, next, N, f)
  BY <1>1, <1>4, <1>5, UpToExists, Zenon
<1>7. f \in [0 .. N -> V] /\ f[0] = <<>>
  BY <1>6, Zenon DEF IsUpTo
<1>8. ASSUME NEW n \in 1 .. N PROVE f[n] = f[n - 1] \o seqs[n]
  <2>1. f[n] = next[n][f[n - 1]]
    BY <1>6, Zenon DEF IsUpTo
  <2>2. n \in Nat /\ n - 1 \in 0 .. N
    BY <1>1, SMT
  <2>3. f[n - 1] \in V
    BY <1>7, <2>2, Zenon
  <2>. QED
    BY <1>3, <2>1, <2>2, <2>3, Zenon
<1>. QED
  BY <1>7, <1>8, Zenon DEF IsJoined, V, N

(* One more piece comes after all the others.                              *)
LEMMA FlattenOneMore ==
  ASSUME NEW S, NEW seqs \in Seq(Seq(S)), NEW e \in Seq(S)
  PROVE  /\ FlattenSeq(seqs) \in Seq(S)
         /\ FlattenSeq(Append(seqs, e)) = FlattenSeq(seqs) \o e
<1>1. PICK n \in Nat : n = Len(seqs)
  BY LenProperties, Zenon
<1>2. PICK more \in Seq(Seq(S)) : more = Append(seqs, e)
  BY AppendProperties, Zenon
<1>3. Len(more) = n + 1 /\ (\A i \in 1 .. n : more[i] = seqs[i]) /\ more[n + 1] = e
  <2>1. /\ Len(Append(seqs, e)) = Len(seqs) + 1 /\ Append(seqs, e)[Len(seqs) + 1] = e
        /\ \A i \in 1 .. Len(seqs) : Append(seqs, e)[i] = seqs[i]
    BY AppendProperties, SMT
  <2>. QED
    BY <1>1, <1>2, <2>1, Zenon
<1>4. PICK f : IsJoined(S, f, seqs)
  BY JoinedExists, Zenon
<1>5. PICK g : IsJoined(S, g, more)
  BY JoinedExists, Zenon
<1>6. FlattenSeq(seqs) = f[n] /\ FlattenSeq(more) = g[n + 1]
  BY <1>1, <1>3, <1>4, <1>5, FlattenIs, Zenon
<1>7. /\ f[0] = <<>> /\ g[0] = <<>> /\ \A i \in 0 .. n : f[i] \in Seq(S)
      /\ \A i \in 1 .. n : f[i] = f[i - 1] \o seqs[i]
      /\ \A i \in 1 .. n + 1 : g[i] = g[i - 1] \o more[i]
  BY <1>1, <1>3, <1>4, <1>5, Zenon DEF IsJoined
<1> DEFINE T == {i \in Nat : f[i] = g[i]}
<1>8. 0 \in T
  BY <1>7, SMT
<1>9. ASSUME NEW i \in 1 .. n, i - 1 \in T PROVE i \in T
  <2>1. i \in Nat /\ i \in 1 .. n + 1
    BY SMT
  <2>. QED
    BY <1>3, <1>7, <1>9, <2>1, Zenon
<1>10. 0 .. n \subseteq T
  <2> HIDE DEF T
  <2>. QED
    BY <1>8, <1>9, InductionUpTo, Zenon
<1>11. n \in 0 .. n /\ n + 1 \in 1 .. n + 1 /\ (n + 1) - 1 = n
  BY SMT
<1>12. f[n] = g[n]
  BY <1>10, <1>11, Zenon
<1>. QED
  BY <1>2, <1>3, <1>6, <1>7, <1>11, <1>12, Zenon

-----------------------------------------------------------------------------
(* Bytes of a text.                                                        *)

Byte == 1 .. 255
Low3 == 0 .. 7
Low4 == 0 .. 15
Low6 == 0 .. 63
ThreeBytesOf(a, b, c) == <<224 + a, 128 + b, 128 + c>>
FourBytesOf(a, b, c, d) == <<240 + a, 128 + b, 128 + c, 128 + d>>
Three(a, b, c) == ((a * 64 + b) * 64) + c
Four(a, b, c, d) == (((a * 64 + b) * 64 + c) * 64) + d

(* What the length of a character says of its first byte.                  *)
LEMMA LengthOfCharacter ==
  ASSUME NEW c \in 1 .. 255
  PROVE  /\ CodepointLen(c) \in 1 .. 4
         /\ CodepointLen(c) = 1 => (c < 128 \/ c >= 128)
         /\ CodepointLen(c) = 2 => (c = 192 + (c % 32) /\ c % 32 \in 0 .. 31)
         /\ CodepointLen(c) = 3 => (c = 224 + (c % 16) /\ c % 16 \in 0 .. 15)
         /\ CodepointLen(c) = 4 => (c = 240 + (c % 8) /\ c % 8 \in 0 .. 7)
<1>1. c = 32 * (c \div 32) + (c % 32) /\ c % 32 \in 0 .. 31 /\ c \div 32 \in Int
  BY DivMod
<1>2. c = 16 * (c \div 16) + (c % 16) /\ c % 16 \in 0 .. 15 /\ c \div 16 \in Int
  BY DivMod
<1>3. c = 8 * (c \div 8) + (c % 8) /\ c % 8 \in 0 .. 7 /\ c \div 8 \in Int
  BY DivMod
<1>4. CASE c < 128
  <2>1. CodepointLen(c) = 1
    BY <1>4, <1>1, <1>2, <1>3 DEF CodepointLen
  <2>. QED
    BY <2>1, <1>4
<1>5. CASE c >= 128 /\ c \div 32 = 6
  <2>1. CodepointLen(c) = 2
    BY <1>5, <1>1, <1>2, <1>3 DEF CodepointLen
  <2>. QED
    BY <2>1, <1>5, <1>1
<1>6. CASE c >= 128 /\ c \div 16 = 14
  <2>1. CodepointLen(c) = 3
    BY <1>6, <1>1, <1>2, <1>3 DEF CodepointLen
  <2>. QED
    BY <2>1, <1>6, <1>2
<1>7. CASE c >= 128 /\ c \div 8 = 30
  <2>1. CodepointLen(c) = 4
    BY <1>7, <1>1, <1>2, <1>3 DEF CodepointLen
  <2>. QED
    BY <2>1, <1>7, <1>3
<1>8. CASE c >= 128 /\ c \div 32 # 6 /\ c \div 16 # 14 /\ c \div 8 # 30
  <2>1. CodepointLen(c) = 1
    BY <1>8 DEF CodepointLen
  <2>. QED
    BY <2>1, <1>8
<1>. QED
  BY <1>4, <1>5, <1>6, <1>7, <1>8

(* What a continuation byte holds.                                         *)
LEMMA ContinuationIs ==
  ASSUME NEW c \in Byte, IsContinuation(c)
  PROVE  c = 128 + (c % 64) /\ c % 64 \in 0 .. 63
<1>0. c \in Int
  BY DEF Byte
<1>1. c = 64 * (c \div 64) + (c % 64) /\ c % 64 \in 0 .. 63 /\ c \div 64 \in Int
  BY <1>0, DivMod
<1>. QED
  BY <1>1 DEF IsContinuation, Byte

(* The bits of a character, put together and taken apart again.            *)
LEMMA OneByte ==
  ASSUME NEW cp \in Byte, cp < 128
  PROVE  Encode(cp) = <<cp>>
<1>1. cp < 128
  OBVIOUS
<1>. QED
  BY <1>1 DEF Encode

TwoBytesOf(a, b) == <<192 + a, 128 + b>>

LEMMA TwoBytes ==
  ASSUME NEW a \in 0 .. 31, NEW b \in 0 .. 63, NEW cp, cp = (a * 64) + b, cp >= 128
  PROVE  Encode(cp) = TwoBytesOf(a, b)
<1>0. cp = 64 * a + b
  OBVIOUS
<1>1. cp \div 64 = a /\ cp % 64 = b
  BY <1>0, DivModOf
<1>2. ~ cp < 128 /\ cp < 2048
  OBVIOUS
<1>3. Encode(cp) = <<192 + (cp \div 64), 128 + (cp % 64)>>
  BY <1>2 DEF Encode
<1>. QED
  BY <1>1, <1>3 DEF TwoBytesOf

LEMMA ThreeBytesRead ==
  ASSUME NEW a \in 0 .. 15, NEW b \in 0 .. 63, NEW c \in 0 .. 63,
         ~ IsRefused(Three(a, b, c), 3)
  PROVE  Encode(Three(a, b, c)) = ThreeBytesOf(a, b, c)
<1>. SUFFICES ASSUME NEW cp, cp = Three(a, b, c) PROVE Encode(cp) = ThreeBytesOf(a, b, c)
  OBVIOUS
<1>0. cp = 64 * (64 * a + b) + c /\ cp = 4096 * a + (64 * b + c) /\ 64 * b + c \in 0 .. 4095 /\ 64 * a + b \in Int
  BY DEF Three
<1>1. cp \div 64 = 64 * a + b /\ cp % 64 = c
  BY <1>0, DivModOf
<1>2. (64 * a + b) % 64 = b
  OBVIOUS
<1>3. cp \div 4096 = a
  BY <1>0, DivModOf
<1>6. cp \in Nat /\ cp < 65536
  <2> SUFFICES cp = 4096 * a + (64 * b + c)
    OBVIOUS
  <2>. QED
    BY <1>0
<1>7. ~ IsRefused(cp, 3)
  OBVIOUS
<1>4. ~ cp < 128 /\ ~ cp < 2048 /\ cp < 65536
  BY <1>6, <1>7 DEF IsRefused
<1>5. Encode(cp) = <<224 + (cp \div 4096), 128 + ((cp \div 64) % 64), 128 + (cp % 64)>>
  BY <1>4 DEF Encode
<1>. QED
  BY <1>1, <1>2, <1>3, <1>5 DEF ThreeBytesOf

LEMMA ThreeBytes ==
  ASSUME NEW a \in Low4, NEW b \in Low6, NEW c \in Low6,
         ~ IsRefused(Three(a, b, c), 3)
  PROVE  Encode(Three(a, b, c)) = ThreeBytesOf(a, b, c)
  BY ThreeBytesRead DEF Low3, Low4, Low6

LEMMA FourBytesRead ==
  ASSUME NEW a \in 0 .. 7, NEW b \in 0 .. 63, NEW c \in 0 .. 63, NEW d \in 0 .. 63,
         ~ IsRefused(Four(a, b, c, d), 4)
  PROVE  Encode(Four(a, b, c, d)) = FourBytesOf(a, b, c, d)
<1>. SUFFICES ASSUME NEW cp, cp = Four(a, b, c, d) PROVE Encode(cp) = FourBytesOf(a, b, c, d)
  OBVIOUS
<1>0. /\ cp = 64 * (64 * (64 * a + b) + c) + d /\ 64 * (64 * a + b) + c \in Int
      /\ cp = 4096 * (64 * a + b) + (64 * c + d) /\ 64 * a + b \in Int /\ 64 * c + d \in 0 .. 4095
  BY DEF Four
<1>1. cp \div 64 = 64 * (64 * a + b) + c /\ cp % 64 = d
  BY <1>0, DivModOf
<1>2. (64 * (64 * a + b) + c) % 64 = c
  BY <1>0, DivModOf
<1>3. cp \div 4096 = 64 * a + b
  BY <1>0, DivModOf
<1>4. (64 * a + b) % 64 = b
  OBVIOUS
<1>5. (64 * a + b) \div 64 = a
  OBVIOUS
<1>8. cp \in Nat /\ ~ IsRefused(cp, 4)
  BY <1>0
<1>6. ~ cp < 128 /\ ~ cp < 2048 /\ ~ cp < 65536
  BY <1>8 DEF IsRefused
<1>7. Encode(cp) = <<240 + ((cp \div 4096) \div 64), 128 + ((cp \div 4096) % 64),
                     128 + ((cp \div 64) % 64), 128 + (cp % 64)>>
  BY <1>6 DEF Encode
<1>. QED
  BY <1>1, <1>2, <1>3, <1>4, <1>5, <1>7 DEF FourBytesOf

LEMMA FourBytes ==
  ASSUME NEW a \in Low3, NEW b \in Low6, NEW c \in Low6, NEW d \in Low6,
         ~ IsRefused(Four(a, b, c, d), 4)
  PROVE  Encode(Four(a, b, c, d)) = FourBytesOf(a, b, c, d)
  BY FourBytesRead DEF Low3, Low4, Low6

LEMMA CutFront ==
  ASSUME NEW S, NEW s \in Seq(S), NEW n \in 1 .. 4, n <= Len(s)
  PROVE  /\ n = 1 => SubSeq(s, 1, n) = <<s[1]>>
         /\ n = 2 => SubSeq(s, 1, n) = <<s[1], s[2]>>
         /\ n = 3 => SubSeq(s, 1, n) = <<s[1], s[2], s[3]>>
         /\ n = 4 => SubSeq(s, 1, n) = <<s[1], s[2], s[3], s[4]>>
<1> DEFINE t == SubSeq(s, 1, n)
<1>1. \A i \in 1 .. n : s[i] \in S
  OBVIOUS
<1>2. t \in Seq(S) /\ Len(t) = n /\ \A i \in 1 .. n : t[i] = s[i]
  BY <1>1, SubSeqProperties
<1> HIDE DEF t
<1>3. CASE n = 1
  <2> DEFINE u == <<s[1]>>
  <2>1. u \in Seq(S) /\ Len(u) = n /\ \A i \in 1 .. n : u[i] = s[i]
    BY <1>1, <1>3
  <2> HIDE DEF u
  <2>2. t = u
    BY <1>2, <2>1, SeqEqual
  <2>. QED
    BY <1>3, <2>2 DEF t, u
<1>4. CASE n = 2
  <2> DEFINE u == <<s[1], s[2]>>
  <2>1. u \in Seq(S) /\ Len(u) = n /\ \A i \in 1 .. n : u[i] = s[i]
    BY <1>1, <1>4
  <2> HIDE DEF u
  <2>2. t = u
    BY <1>2, <2>1, SeqEqual
  <2>. QED
    BY <1>4, <2>2 DEF t, u
<1>5. CASE n = 3
  <2> DEFINE u == <<s[1], s[2], s[3]>>
  <2>1. u \in Seq(S) /\ Len(u) = n /\ \A i \in 1 .. n : u[i] = s[i]
    BY <1>1, <1>5
  <2> HIDE DEF u
  <2>2. t = u
    BY <1>2, <2>1, SeqEqual
  <2>. QED
    BY <1>5, <2>2 DEF t, u
<1>6. CASE n = 4
  <2> DEFINE u == <<s[1], s[2], s[3], s[4]>>
  <2>1. u \in Seq(S) /\ Len(u) = n /\ \A i \in 1 .. n : u[i] = s[i]
    BY <1>1, <1>6
  <2> HIDE DEF u
  <2>2. t = u
    BY <1>2, <2>1, SeqEqual
  <2>. QED
    BY <1>6, <2>2 DEF t, u
<1>. QED
  BY <1>3, <1>4, <1>5, <1>6

(* A text decodes to the replacement or to the character its bytes encode, *)
(* and the decoder stays within the text.                                  *)
LEMMA DecodedIsEncoded ==
  ASSUME NEW s \in Seq(Byte), s # <<>>,
         NEW next, next = NextCodepoint(s)
  PROVE  /\ next.used \in 1 .. Len(s)
         /\ next.cp = ReplacementGlyph \/ SubSeq(s, 1, next.used) = Encode(next.cp)
<1> DEFINE n == CodepointLen(s[1])
           missing == {i \in 2 .. n : ~ IsContinuation(ByteAt(s, i))}
           low(i) == s[i] % 64
           cp == IF n = 2 THEN (s[1] % 32) * 64 + low(2)
                 ELSE IF n = 3 THEN ((s[1] % 16) * 64 + low(2)) * 64 + low(3)
                 ELSE (((s[1] % 8) * 64 + low(2)) * 64 + low(3)) * 64 + low(4)
           skip(used) == [cp |-> ReplacementGlyph, used |-> used]
           first == CHOOSE i \in missing : \A j \in missing : i <= j
<1>1. Len(s) \in Nat /\ Len(s) >= 1 /\ \A i \in 1 .. Len(s) : s[i] \in Byte
  <2> HIDE DEF n, missing, low, cp, skip, first
  <2>. QED
    OBVIOUS
<1>4. next = IF n = 1 THEN IF s[1] < 128 THEN [cp |-> s[1], used |-> 1] ELSE skip(1)
             ELSE IF missing # {} THEN skip(first - 1)
             ELSE IF IsRefused(cp, n) THEN skip(1)
             ELSE [cp |-> cp, used |-> n]
  BY Zenon DEF NextCodepoint
<1> HIDE DEF n, missing, low, cp, skip, first
<1>2. s[1] \in Byte
  BY <1>1
<1>3. n \in 1 .. 4
  BY <1>2, LengthOfCharacter DEF n, Byte
<1>5. ASSUME NEW i \in 2 .. 4, IsContinuation(ByteAt(s, i))
      PROVE  i <= Len(s) /\ s[i] = 128 + low(i) /\ low(i) \in 0 .. 63
  <2>1. ~ IsContinuation(0)
    BY DivMod DEF IsContinuation
  <2>2. i <= Len(s) /\ ByteAt(s, i) = s[i]
    BY <1>1, <1>5, <2>1 DEF ByteAt
  <2>3. s[i] \in Byte
    BY <1>1, <2>2
  <2>4. s[i] = 128 + (s[i] % 64) /\ s[i] % 64 \in 0 .. 63
    BY <1>5, <2>2, <2>3, ContinuationIs
  <2>. QED
    BY <2>2, <2>4 DEF low
<1>6. CASE n = 1 /\ s[1] < 128
  <2>1. next = [cp |-> s[1], used |-> 1]
    BY <1>4, <1>6
  <2>3. Encode(s[1]) = <<s[1]>>
    BY <1>2, <1>6, OneByte, Zenon
  <2>4. SubSeq(s, 1, 1) = <<s[1]>>
    BY <1>1, CutFront
  <2>. QED
    BY <1>1, <2>1, <2>3, <2>4
<1>7. CASE n = 1 /\ ~ s[1] < 128
  BY <1>1, <1>4, <1>7 DEF skip
<1>8. CASE n # 1 /\ missing # {}
  <2>1. missing \in SUBSET Nat
    BY <1>3 DEF missing
  <2>2. \E i \in missing : \A j \in missing : i <= j
    BY <1>8, <2>1, LeastOf
  <2>3. first \in missing /\ \A j \in missing : first <= j
    BY <2>2, Zenon DEF first
  <2>4. first \in 2 .. n
    BY <2>3 DEF missing
  <2>5. next = [cp |-> ReplacementGlyph, used |-> first - 1]
    BY <1>4, <1>8 DEF skip
  <2>6. first - 1 <= Len(s)
    <3>1. CASE first = 2
      BY <1>1, <3>1
    <3>2. CASE first # 2
      <4>1. first - 1 \in 2 .. 4 /\ first - 1 \in 2 .. n /\ ~ (first <= first - 1)
        BY <1>3, <2>4, <3>2
      <4>2. first - 1 \notin missing
        BY <2>3, <4>1
      <4>3. IsContinuation(ByteAt(s, first - 1))
        BY <4>1, <4>2 DEF missing
      <4>. QED
        BY <1>5, <4>1, <4>3
    <3>. QED
      BY <3>1, <3>2
  <2>. QED
    BY <1>1, <1>3, <2>4, <2>5, <2>6
<1>9. CASE n # 1 /\ missing = {} /\ IsRefused(cp, n)
  BY <1>1, <1>4, <1>9 DEF skip
<1>10. CASE n # 1 /\ missing = {} /\ ~ IsRefused(cp, n)
  <2>1. next = [cp |-> cp, used |-> n]
    BY <1>4, <1>10
  <2>2. \A i \in 2 .. n : IsContinuation(ByteAt(s, i))
    BY <1>10, Zenon DEF missing
  <2>3. ASSUME NEW i \in 2 .. n PROVE i <= Len(s) /\ s[i] = 128 + low(i) /\ low(i) \in 0 .. 63
    <3>1. i \in 2 .. 4 /\ IsContinuation(ByteAt(s, i))
      BY <1>3, <2>2
    <3>. QED
      BY <1>5, <3>1
  <2>4. n <= Len(s)
    BY <1>3, <1>10, <2>3
  <2>5. CASE n = 2
    <3>1. s[1] = 192 + (s[1] % 32) /\ s[1] % 32 \in 0 .. 31
      BY <1>2, <2>5, LengthOfCharacter DEF Byte, n
    <3>2. s[2] = 128 + low(2) /\ low(2) \in 0 .. 63
      BY <2>3, <2>5
    <3>3. cp = ((s[1] % 32) * 64) + low(2)
      BY <2>5 DEF cp
    <3>4. ~ cp < 128
      BY <1>10, <2>5 DEF IsRefused
    <3>5. cp >= 128
      BY <3>1, <3>2, <3>3, <3>4
    <3>6. SubSeq(s, 1, n) = <<s[1], s[2]>>
      BY <2>4, <2>5, CutFront
    <3>7. Encode(cp) = <<192 + (s[1] % 32), 128 + low(2)>>
      <4> DEFINE a == s[1] % 32
                 b == low(2)
      <4>1. a \in 0 .. 31 /\ b \in 0 .. 63 /\ cp = (a * 64) + b /\ cp >= 128
        BY <3>1, <3>2, <3>3, <3>5
      <4> HIDE DEF a, b, cp
      <4>2. Encode(cp) = TwoBytesOf(a, b)
        BY <4>1, TwoBytes
      <4>. QED
        BY <4>2 DEF a, b, TwoBytesOf
    <3>. QED
      BY <1>1, <1>3, <2>1, <2>4, <2>5, <3>1, <3>2, <3>6, <3>7
  <2>6. CASE n = 3
    <3>1. s[1] = 224 + (s[1] % 16) /\ s[1] % 16 \in 0 .. 15
      BY <1>2, <2>6, LengthOfCharacter DEF Byte, n
    <3>2. s[2] = 128 + low(2) /\ low(2) \in 0 .. 63
          /\ s[3] = 128 + low(3) /\ low(3) \in 0 .. 63
      BY <2>3, <2>6
    <3>3. cp = (((s[1] % 16) * 64 + low(2)) * 64) + low(3)
      BY <2>6 DEF cp
    <3>6. SubSeq(s, 1, n) = <<s[1], s[2], s[3]>>
      BY <2>4, <2>6, CutFront
    <3>7. Encode(cp) = <<224 + (s[1] % 16), 128 + low(2), 128 + low(3)>>
      <4>1. s[1] % 16 \in Low4 /\ low(2) \in Low6 /\ low(3) \in Low6
        BY <3>1, <3>2 DEF Low4, Low6
      <4>2. cp = Three(s[1] % 16, low(2), low(3))
        BY <3>3 DEF Three
      <4>3. ~ IsRefused(Three(s[1] % 16, low(2), low(3)), 3)
        BY <1>10, <2>6, <4>2
      <4>4. Encode(cp) = ThreeBytesOf(s[1] % 16, low(2), low(3))
        BY <4>1, <4>2, <4>3, ThreeBytes, Zenon
      <4>. QED
        BY <4>4 DEF ThreeBytesOf
    <3>. QED
      BY <1>1, <1>3, <2>1, <2>4, <2>6, <3>1, <3>2, <3>6, <3>7
  <2>7. CASE n = 4
    <3>1. s[1] = 240 + (s[1] % 8) /\ s[1] % 8 \in 0 .. 7
      BY <1>2, <2>7, LengthOfCharacter DEF Byte, n
    <3>2. s[2] = 128 + low(2) /\ low(2) \in 0 .. 63
          /\ s[3] = 128 + low(3) /\ low(3) \in 0 .. 63
          /\ s[4] = 128 + low(4) /\ low(4) \in 0 .. 63
      BY <2>3, <2>7
    <3>3. cp = ((((s[1] % 8) * 64 + low(2)) * 64 + low(3)) * 64) + low(4)
      BY <2>7 DEF cp
    <3>6. SubSeq(s, 1, n) = <<s[1], s[2], s[3], s[4]>>
      BY <2>4, <2>7, CutFront
    <3>7. Encode(cp) = <<240 + (s[1] % 8), 128 + low(2), 128 + low(3), 128 + low(4)>>
      <4>1. s[1] % 8 \in Low3 /\ low(2) \in Low6 /\ low(3) \in Low6 /\ low(4) \in Low6
        BY <3>1, <3>2 DEF Low3, Low6
      <4>2. cp = Four(s[1] % 8, low(2), low(3), low(4))
        BY <3>3 DEF Four
      <4>3. ~ IsRefused(Four(s[1] % 8, low(2), low(3), low(4)), 4)
        BY <1>10, <2>7, <4>2
      <4>4. Encode(cp) = FourBytesOf(s[1] % 8, low(2), low(3), low(4))
        BY <4>1, <4>2, <4>3, FourBytes, Zenon
      <4>. QED
        BY <4>4 DEF FourBytesOf
    <3>. QED
      BY <1>1, <1>3, <2>1, <2>4, <2>7, <3>1, <3>2, <3>6, <3>7
  <2>. QED
    BY <1>3, <1>10, <2>5, <2>6, <2>7
<1>. QED
  BY <1>6, <1>7, <1>8, <1>9, <1>10

-----------------------------------------------------------------------------
(* The encoding of a character.                                            *)

IsCharacter(cp) == cp \in Nat \ {0} /\ cp <= 1114111 /\ cp \notin 55296 .. 57343

IsEncoding(e) ==
  /\ e \in Seq(Byte) /\ Len(e) \in 1 .. 4
  /\ CodepointLen(e[1]) = Len(e)
  /\ ~ IsContinuation(e[1])
  /\ \A i \in 2 .. Len(e) : IsContinuation(e[i])

LEMMA LeadsAre ==
  /\ \A c \in 1 .. 127 : CodepointLen(c) = 1 /\ ~ IsContinuation(c)
  /\ \A a \in 0 .. 31 : CodepointLen(192 + a) = 2 /\ ~ IsContinuation(192 + a)
  /\ \A a \in 0 .. 15 : CodepointLen(224 + a) = 3 /\ ~ IsContinuation(224 + a)
  /\ \A a \in 0 .. 7 : CodepointLen(240 + a) = 4 /\ ~ IsContinuation(240 + a)
  /\ \A b \in 0 .. 63 : IsContinuation(128 + b)
<1>1. \A c \in 1 .. 127 : CodepointLen(c) = 1 /\ ~ IsContinuation(c)
  BY SMT DEF CodepointLen, IsContinuation
<1>2. \A a \in 0 .. 31 : CodepointLen(192 + a) = 2 /\ ~ IsContinuation(192 + a)
  BY SMT DEF CodepointLen, IsContinuation
<1>3. \A a \in 0 .. 15 : CodepointLen(224 + a) = 3 /\ ~ IsContinuation(224 + a)
  BY SMT DEF CodepointLen, IsContinuation
<1>4. \A a \in 0 .. 7 : CodepointLen(240 + a) = 4 /\ ~ IsContinuation(240 + a)
  BY SMT DEF CodepointLen, IsContinuation
<1>5. \A b \in 0 .. 63 : IsContinuation(128 + b)
  BY SMT DEF IsContinuation
<1>. QED
  BY <1>1, <1>2, <1>3, <1>4, <1>5

(* The parts a character is put together of, six bits each but the first.  *)
Low(cp) == cp % 64
Mid(cp) == (cp \div 64) % 64
High(cp) == (cp \div 4096) % 64
Top(cp) == (cp \div 4096) \div 64

LEMMA SplitOf ==
  ASSUME NEW cp \in Nat
  PROVE  /\ Low(cp) \in 0 .. 63 /\ Mid(cp) \in 0 .. 63 /\ High(cp) \in 0 .. 63 /\ Top(cp) \in Nat
         /\ cp = (((Top(cp) * 64 + High(cp)) * 64 + Mid(cp)) * 64) + Low(cp)
         /\ cp \div 4096 \in Nat /\ cp = (((cp \div 4096) * 64 + Mid(cp)) * 64) + Low(cp)
         /\ cp \div 64 \in Nat /\ cp = ((cp \div 64) * 64) + Low(cp)
<1> DEFINE q == cp \div 64
           p == cp \div 4096
           k == q \div 64
           r == cp % 4096
<1>1. cp = 64 * q + Low(cp) /\ Low(cp) \in 0 .. 63 /\ q \in Nat
  BY SMT DEF Low
<1>2. cp = 4096 * p + r /\ r \in 0 .. 4095 /\ p \in Nat
  BY SMT
<1>3. q = 64 * k + Mid(cp) /\ Mid(cp) \in 0 .. 63 /\ k \in Nat
  <2>2. Mid(cp) = q % 64
    BY Zenon DEF Mid
  <2> HIDE DEF q
  <2>. QED
    BY <1>1, <2>2, SMT
<1>4. p = 64 * Top(cp) + High(cp) /\ High(cp) \in 0 .. 63 /\ Top(cp) \in Nat
  <2>2. Top(cp) = p \div 64 /\ High(cp) = p % 64
    BY Zenon DEF Top, High
  <2> HIDE DEF p
  <2>. QED
    BY <1>2, <2>2, SMT
<1> HIDE DEF p, q, k, r
<1>5. k = p
  BY <1>1, <1>2, <1>3, SMT
<1>6. cp = (((Top(cp) * 64 + High(cp)) * 64 + Mid(cp)) * 64) + Low(cp)
  BY <1>1, <1>3, <1>4, <1>5, SMT
<1>8. cp = ((p * 64 + Mid(cp)) * 64) + Low(cp)
  BY <1>1, <1>2, <1>3, <1>5, SMT
<1>. QED
  BY <1>1, <1>2, <1>3, <1>4, <1>6, <1>8, SMT DEF p, q


(* Its bytes, and the numbers they hold.                                   *)
IsOne(cp) == cp \in 1 .. 127 /\ Encode(cp) = <<cp>>
IsTwoOf(cp, a, b) == cp = a * 64 + b /\ ~ IsRefused(cp, 2) /\ Encode(cp) = TwoBytesOf(a, b)
IsThreeOf(cp, a, b, c) == cp = (a * 64 + b) * 64 + c /\ ~ IsRefused(cp, 3) /\ Encode(cp) = ThreeBytesOf(a, b, c)
IsFourOf(cp, a, b, c, d) ==
  cp = ((a * 64 + b) * 64 + c) * 64 + d /\ ~ IsRefused(cp, 4) /\ Encode(cp) = FourBytesOf(a, b, c, d)
IsTwo(cp) == \E a \in 0 .. 31, b \in 0 .. 63 : IsTwoOf(cp, a, b)
IsThree(cp) == \E a \in 0 .. 15, b \in 0 .. 63, c \in 0 .. 63 : IsThreeOf(cp, a, b, c)
IsFour(cp) == \E a \in 0 .. 7, b \in 0 .. 63, c \in 0 .. 63, d \in 0 .. 63 : IsFourOf(cp, a, b, c, d)

LEMMA EncodeIs ==
  ASSUME NEW cp, IsCharacter(cp)
  PROVE  IsOne(cp) \/ IsTwo(cp) \/ IsThree(cp) \/ IsFour(cp)
<1>0. cp \in Nat /\ cp >= 1 /\ cp <= 1114111 /\ cp \notin 55296 .. 57343
  BY SMT DEF IsCharacter
<1>5. cp \in Nat
  BY <1>0, SMT
<1>1. CASE cp < 128
  <2>1. Encode(cp) = <<cp>>
    BY <1>1, SMT DEF Encode
  <2>. QED
    BY <1>0, <1>1, <2>1, SMT DEF IsOne
<1>2. CASE ~ cp < 128 /\ cp < 2048
  <2> DEFINE a == cp \div 64
             b == Low(cp)
  <2>1. Encode(cp) = TwoBytesOf(a, b)
    BY <1>2, SMT DEF Encode, TwoBytesOf, Low
  <2>2. a \in Nat /\ b \in 0 .. 63 /\ cp = a * 64 + b
    BY <1>5, SplitOf, SMT
  <2>3. ~ IsRefused(cp, 2)
    BY <1>0, <1>2, SMT DEF IsRefused
  <2> HIDE DEF a, b
  <2>4. a \in 0 .. 31
    BY <1>0, <1>2, <2>2, SMT
  <2>5. IsTwoOf(cp, a, b)
    BY <2>1, <2>2, <2>3, SMT DEF IsTwoOf
  <2>. QED
    BY <2>2, <2>4, <2>5, Zenon DEF IsTwo
<1>3. CASE ~ cp < 128 /\ ~ cp < 2048 /\ cp < 65536
  <2> DEFINE a == cp \div 4096
             b == Mid(cp)
             c == Low(cp)
  <2>1. Encode(cp) = ThreeBytesOf(a, b, c)
    BY <1>3, SMT DEF Encode, ThreeBytesOf, Low, Mid
  <2>2. a \in Nat /\ b \in 0 .. 63 /\ c \in 0 .. 63 /\ cp = (a * 64 + b) * 64 + c
    BY <1>5, SplitOf, SMT
  <2>3. ~ IsRefused(cp, 3)
    BY <1>0, <1>3, SMT DEF IsRefused
  <2> HIDE DEF a, b, c
  <2>4. a \in 0 .. 15
    BY <1>0, <1>3, <2>2, SMT
  <2>5. IsThreeOf(cp, a, b, c)
    BY <2>1, <2>2, <2>3, SMT DEF IsThreeOf
  <2>. QED
    BY <2>2, <2>4, <2>5, Zenon DEF IsThree
<1>4. CASE ~ cp < 128 /\ ~ cp < 2048 /\ ~ cp < 65536
  <2> DEFINE a == Top(cp)
             b == High(cp)
             c == Mid(cp)
             d == Low(cp)
  <2>1. Encode(cp) = FourBytesOf(a, b, c, d)
    BY <1>4, SMT DEF Encode, FourBytesOf, Low, Mid, High, Top
  <2>2. a \in Nat /\ b \in 0 .. 63 /\ c \in 0 .. 63 /\ d \in 0 .. 63 /\ cp = ((a * 64 + b) * 64 + c) * 64 + d
    BY <1>5, SplitOf, SMT
  <2>3. ~ IsRefused(cp, 4)
    BY <1>0, <1>4, SMT DEF IsRefused
  <2> HIDE DEF a, b, c, d
  <2>4. a \in 0 .. 7
    BY <1>0, <2>2, SMT
  <2>5. IsFourOf(cp, a, b, c, d)
    BY <2>1, <2>2, <2>3, SMT DEF IsFourOf
  <2>. QED
    BY <2>2, <2>4, <2>5, Zenon DEF IsFour
<1>. QED
  BY <1>1, <1>2, <1>3, <1>4, SMT

LEMMA EncodingIs ==
  ASSUME NEW cp, IsCharacter(cp)
  PROVE  IsEncoding(Encode(cp))
<1> DEFINE e == Encode(cp)
<1>1. CASE IsOne(cp)
  <2>1. e = <<cp>> /\ cp \in 1 .. 127
    BY <1>1, Zenon DEF IsOne
  <2> HIDE DEF e
  <2>2. e \in Seq(Byte) /\ Len(e) = 1 /\ e[1] = cp
    BY <2>1, SMT DEF Byte
  <2>4. CodepointLen(cp) = 1 /\ ~ IsContinuation(cp)
    BY <2>1, LeadsAre, Zenon
  <2>3. CodepointLen(e[1]) = 1 /\ ~ IsContinuation(e[1])
    BY <2>2, <2>4, SMT
  <2>. QED
    BY <2>2, <2>3, SMT DEF IsEncoding, e
<1>2. CASE IsTwo(cp)
  <2>0. PICK a \in 0 .. 31, b \in 0 .. 63 : IsTwoOf(cp, a, b)
    BY <1>2, Zenon DEF IsTwo
  <2>1. e = <<192 + a, 128 + b>>
    BY <2>0, Zenon DEF IsTwoOf, TwoBytesOf
  <2> HIDE DEF e
  <2>2. e \in Seq(Byte) /\ Len(e) = 2 /\ e[1] = 192 + a /\ e[2] = 128 + b
    BY <2>1, SMT DEF Byte
  <2>5. CodepointLen(192 + a) = 2 /\ ~ IsContinuation(192 + a)
    BY LeadsAre, SMT
  <2>6. IsContinuation(128 + b)
    BY LeadsAre, Zenon
  <2>4. CodepointLen(192 + a) = 2 /\ ~ IsContinuation(192 + a) /\ IsContinuation(128 + b)
    BY <2>5, <2>6, Zenon
  <2>3. CodepointLen(e[1]) = 2 /\ ~ IsContinuation(e[1]) /\ IsContinuation(e[2])
    BY <2>2, <2>4, SMT
  <2>. QED
    BY <2>2, <2>3, SMT DEF IsEncoding, e
<1>3. CASE IsThree(cp)
  <2>0. PICK a \in 0 .. 15, b \in 0 .. 63, c \in 0 .. 63 : IsThreeOf(cp, a, b, c)
    BY <1>3, Zenon DEF IsThree
  <2>1. e = <<224 + a, 128 + b, 128 + c>>
    BY <2>0, Zenon DEF IsThreeOf, ThreeBytesOf
  <2> HIDE DEF e
  <2>5. 224 + a \in Byte /\ 128 + b \in Byte /\ 128 + c \in Byte
    BY SMT DEF Byte
  <2>6. e \in Seq(Byte)
    BY <2>1, <2>5, SMT
  <2>7. Len(e) = 3
    BY <2>1, SMT
  <2>8. e[1] = 224 + a /\ e[2] = 128 + b /\ e[3] = 128 + c
    BY <2>1, SMT
  <2>9. CodepointLen(224 + a) = 3 /\ ~ IsContinuation(224 + a)
    BY LeadsAre, SMT
  <2>4. IsContinuation(128 + b) /\ IsContinuation(128 + c)
    BY LeadsAre, Zenon
  <2>3. CodepointLen(e[1]) = 3 /\ ~ IsContinuation(e[1]) /\ IsContinuation(e[2]) /\ IsContinuation(e[3])
    BY <2>4, <2>8, <2>9, SMT
  <2>. QED
    BY <2>3, <2>6, <2>7, <2>8, SMT DEF IsEncoding, e
<1>4. CASE IsFour(cp)
  <2>0. PICK a \in 0 .. 7, b \in 0 .. 63, c \in 0 .. 63, d \in 0 .. 63 : IsFourOf(cp, a, b, c, d)
    BY <1>4, Zenon DEF IsFour
  <2>1. e = <<240 + a, 128 + b, 128 + c, 128 + d>>
    BY <2>0, Zenon DEF IsFourOf, FourBytesOf
  <2> HIDE DEF e
  <2>5. 240 + a \in Byte /\ 128 + b \in Byte /\ 128 + c \in Byte /\ 128 + d \in Byte
    BY SMT DEF Byte
  <2>6. e \in Seq(Byte)
    BY <2>1, <2>5, SMT
  <2>7. Len(e) = 4
    BY <2>1, SMT
  <2>8. e[1] = 240 + a /\ e[2] = 128 + b /\ e[3] = 128 + c /\ e[4] = 128 + d
    BY <2>1, SMT
  <2>9. CodepointLen(240 + a) = 4 /\ ~ IsContinuation(240 + a)
    BY LeadsAre, SMT
  <2>4. IsContinuation(128 + b) /\ IsContinuation(128 + c) /\ IsContinuation(128 + d)
    BY LeadsAre, Zenon
  <2>3. CodepointLen(e[1]) = 4 /\ ~ IsContinuation(e[1])
        /\ IsContinuation(e[2]) /\ IsContinuation(e[3]) /\ IsContinuation(e[4])
    BY <2>4, <2>8, <2>9, SMT
  <2>. QED
    BY <2>3, <2>6, <2>7, <2>8, SMT DEF IsEncoding, e
<1>. QED
  BY <1>1, <1>2, <1>3, <1>4, EncodeIs, Zenon

(* What is taken out of its bytes again.                                   *)
LEMMA HeldIs ==
  /\ \A a \in 0 .. 31 : (192 + a) % 32 = a
  /\ \A a \in 0 .. 15 : (224 + a) % 16 = a
  /\ \A a \in 0 .. 7 : (240 + a) % 8 = a
  /\ \A b \in 0 .. 63 : (128 + b) % 64 = b
<1>1. \A a \in 0 .. 31 : (192 + a) % 32 = a
  BY SMT
<1>2. \A a \in 0 .. 15 : (224 + a) % 16 = a
  BY SMT
<1>3. \A a \in 0 .. 7 : (240 + a) % 8 = a
  BY SMT
<1>4. \A b \in 0 .. 63 : (128 + b) % 64 = b
  BY SMT
<1>. QED
  BY <1>1, <1>2, <1>3, <1>4, Zenon

StartsWith(s, e) == Len(e) <= Len(s) /\ \A i \in 1 .. Len(e) : s[i] = e[i]

(* A text that starts with the bytes of a character is decoded to it.      *)
LEMMA DecodedIs ==
  ASSUME NEW cp, IsCharacter(cp), NEW s \in Seq(Byte), StartsWith(s, Encode(cp))
  PROVE  NextCodepoint(s) = [cp |-> cp, used |-> Len(Encode(cp))]
<1> DEFINE e == Encode(cp)
           n == CodepointLen(s[1])
           missing == {i \in 2 .. n : ~ IsContinuation(ByteAt(s, i))}
           low(i) == s[i] % 64
           char == IF n = 2 THEN (s[1] % 32) * 64 + low(2)
                   ELSE IF n = 3 THEN ((s[1] % 16) * 64 + low(2)) * 64 + low(3)
                   ELSE (((s[1] % 8) * 64 + low(2)) * 64 + low(3)) * 64 + low(4)
           skip(used) == [cp |-> ReplacementGlyph, used |-> used]
           first == CHOOSE i \in missing : \A j \in missing : i <= j
<1> HIDE DEF e
<1>1. IsEncoding(e)
  BY EncodingIs, Zenon DEF e
<1>2. Len(s) \in Nat /\ s # <<>> /\ Len(e) \in 1 .. 4 /\ Len(e) <= Len(s) /\ \A i \in 1 .. Len(e) : s[i] = e[i]
  <2>1. Len(e) \in 1 .. 4
    BY <1>1, Zenon DEF IsEncoding
  <2>2. Len(e) <= Len(s) /\ \A i \in 1 .. Len(e) : s[i] = e[i]
    BY Zenon DEF StartsWith, e
  <2>3. Len(s) \in Nat
    BY LenProperties, Zenon
  <2>4. Len(s) # 0
    <3>1. \A k \in 1 .. 4, j \in Nat : k <= j => j # 0
      BY SMT
    <3>. QED
      BY <2>1, <2>2, <2>3, <3>1, Zenon
  <2>5. s # <<>>
    BY <2>4, SMT
  <2>. QED
    BY <2>1, <2>2, <2>3, <2>5, Zenon
<1>3. n = Len(e)
  <2>1. 1 \in 1 .. Len(e)
    <3>1. \A k \in 1 .. 4 : 1 \in 1 .. k
      BY SMT
    <3>. QED
      BY <1>2, <3>1, Zenon
  <2>. QED
    BY <1>1, <1>2, <2>1, Zenon DEF IsEncoding
<1>4. NextCodepoint(s) =
        IF n = 1 THEN IF s[1] < 128 THEN [cp |-> s[1], used |-> 1] ELSE skip(1)
        ELSE IF missing # {} THEN skip(first - 1)
        ELSE IF IsRefused(char, n) THEN skip(1)
        ELSE [cp |-> char, used |-> n]
  BY <1>2, Zenon DEF NextCodepoint
<1>5. missing = {}
  <2> SUFFICES ASSUME NEW i \in 2 .. n PROVE IsContinuation(ByteAt(s, i))
    BY Zenon
  <2> HIDE DEF n
  <2>1. i \in 2 .. Len(e)
    BY <1>3, Zenon
  <2>2. i \in 1 .. Len(e) /\ i <= Len(s)
    BY <1>2, <2>1, SMT
  <2>3. ByteAt(s, i) = e[i]
    BY <1>2, <2>2, Zenon DEF ByteAt
  <2>. QED
    BY <1>1, <2>1, <2>3, Zenon DEF IsEncoding
<1> HIDE DEF n, missing, low, char, skip, first
<1>6. CASE IsOne(cp)
  <2>1. e = <<cp>> /\ cp \in 1 .. 127
    BY <1>6, Zenon DEF IsOne, e
  <2>2. n = 1 /\ s[1] = cp /\ cp < 128
    BY <1>2, <1>3, <2>1, SMT
  <2>. QED
    BY <1>3, <1>4, <2>2, SMT DEF e
<1>7. CASE IsTwo(cp)
  <2>0. PICK a \in 0 .. 31, b \in 0 .. 63 : IsTwoOf(cp, a, b)
    BY <1>7, Zenon DEF IsTwo
  <2>1. e = <<192 + a, 128 + b>>
    BY <2>0, Zenon DEF IsTwoOf, TwoBytesOf, e
  <2>2. n = 2 /\ s[1] = 192 + a /\ s[2] = 128 + b
    BY <1>2, <1>3, <2>1, SMT
  <2>6. (192 + a) % 32 = a /\ (128 + b) % 64 = b
    BY HeldIs, Zenon
  <2>3. s[1] % 32 = a /\ low(2) = b
    BY <2>2, <2>6, SMT DEF low
  <2>4. char = cp
    BY <2>0, <2>2, <2>3, SMT DEF char, IsTwoOf
  <2>5. ~ IsRefused(char, n)
    BY <2>0, <2>2, <2>4, Zenon DEF IsTwoOf
  <2>. QED
    BY <1>3, <1>4, <1>5, <2>2, <2>4, <2>5, SMT DEF e
<1>8. CASE IsThree(cp)
  <2>0. PICK a \in 0 .. 15, b \in 0 .. 63, c \in 0 .. 63 : IsThreeOf(cp, a, b, c)
    BY <1>8, Zenon DEF IsThree
  <2>1. e = <<224 + a, 128 + b, 128 + c>>
    BY <2>0, Zenon DEF IsThreeOf, ThreeBytesOf, e
  <2>2. n = 3 /\ s[1] = 224 + a /\ s[2] = 128 + b /\ s[3] = 128 + c
    BY <1>2, <1>3, <2>1, SMT
  <2>6. (224 + a) % 16 = a /\ (128 + b) % 64 = b /\ (128 + c) % 64 = c
    BY HeldIs, Zenon
  <2>3. s[1] % 16 = a /\ low(2) = b /\ low(3) = c
    BY <2>2, <2>6, SMT DEF low
  <2>4. char = cp
    BY <2>0, <2>2, <2>3, SMT DEF char, IsThreeOf
  <2>5. ~ IsRefused(char, n)
    BY <2>0, <2>2, <2>4, Zenon DEF IsThreeOf
  <2>. QED
    BY <1>3, <1>4, <1>5, <2>2, <2>4, <2>5, SMT DEF e
<1>9. CASE IsFour(cp)
  <2>0. PICK a \in 0 .. 7, b \in 0 .. 63, c \in 0 .. 63, d \in 0 .. 63 : IsFourOf(cp, a, b, c, d)
    BY <1>9, Zenon DEF IsFour
  <2>1. e = <<240 + a, 128 + b, 128 + c, 128 + d>>
    BY <2>0, Zenon DEF IsFourOf, FourBytesOf, e
  <2>2. n = 4 /\ s[1] = 240 + a /\ s[2] = 128 + b /\ s[3] = 128 + c /\ s[4] = 128 + d
    BY <1>2, <1>3, <2>1, SMT
  <2>6. (240 + a) % 8 = a /\ (128 + b) % 64 = b /\ (128 + c) % 64 = c /\ (128 + d) % 64 = d
    BY HeldIs, Zenon
  <2>7. s[1] % 8 = a /\ low(2) = b
    BY <2>2, <2>6, SMT DEF low
  <2>8. low(3) = c /\ low(4) = d
    BY <2>2, <2>6, SMT DEF low
  <2>4. char = cp
    <3>1. char = (((s[1] % 8) * 64 + low(2)) * 64 + low(3)) * 64 + low(4)
      BY <2>2, SMT DEF char
    <3>2. cp = ((a * 64 + b) * 64 + c) * 64 + d
      BY <2>0, Zenon DEF IsFourOf
    <3>. QED
      BY <2>7, <2>8, <3>1, <3>2, Zenon
  <2>5. ~ IsRefused(char, n)
    BY <2>0, <2>2, <2>4, Zenon DEF IsFourOf
  <2>. QED
    BY <1>3, <1>4, <1>5, <2>2, <2>4, <2>5, SMT DEF e
<1>. QED
  BY <1>6, <1>7, <1>8, <1>9, EncodeIs, Zenon

(* What is left of a text after some cuts.                                 *)
LEMMA CutIs ==
  ASSUME NEW s, NEW n \in Nat, NEW f, f[0] = s, \A i \in 1 .. n : f[i] = RemoveLastChar(f[i - 1])
  PROVE  TruncateChars(s, n) = f[n]
<1> DEFINE Rounds(g) == [i \in 0 .. n |-> IF i = 0 THEN s ELSE RemoveLastChar(g[i - 1])]
           cut == CHOOSE g : g = Rounds(g)
           w == [i \in 0 .. n |-> f[i]]
           S == {i \in Nat : i <= n => cut[i] = f[i]}
<1>1. TruncateChars(s, n) = cut[n]
  BY Zenon DEF TruncateChars
<1>2. \A i \in 0 .. n : w[i] = f[i]
  BY Zenon
<1>3. ASSUME NEW i \in 0 .. n PROVE f[i] = IF i = 0 THEN s ELSE RemoveLastChar(w[i - 1])
  <2>1. CASE i = 0
    BY <2>1, Zenon
  <2>2. CASE i # 0
    <3>1. i \in 1 .. n /\ i - 1 \in 0 .. n
      BY <2>2, SMT
    <3>. QED
      BY <1>2, <2>2, <3>1, Zenon
  <2>. QED
    BY <2>1, <2>2, Zenon
<1>4. w = Rounds(w)
  BY <1>3, Zenon
<1> HIDE DEF w
<1>5. cut = Rounds(cut)
  BY <1>4, Zenon
<1> HIDE DEF cut
<1>6. \A i \in 0 .. n : cut[i] = IF i = 0 THEN s ELSE RemoveLastChar(cut[i - 1])
  BY <1>5, Zenon
<1>7. 0 \in S
  BY <1>6, SMT
<1>8. ASSUME NEW i \in S PROVE i + 1 \in S
  <2> SUFFICES ASSUME i + 1 <= n PROVE cut[i + 1] = f[i + 1]
    BY SMT
  <2>1. PICK m : m = i + 1
    BY Zenon
  <2>2. i <= n /\ m \in 1 .. n /\ m \in 0 .. n /\ m # 0 /\ m - 1 = i
    BY <2>1, SMT
  <2>3. cut[i] = f[i]
    BY <2>2, Zenon
  <2>4. cut[m] = RemoveLastChar(cut[m - 1])
    BY <1>6, <2>2, Zenon
  <2>5. f[m] = RemoveLastChar(f[m - 1])
    BY <2>2, Zenon
  <2>. QED
    BY <2>1, <2>2, <2>3, <2>4, <2>5, Zenon
<1>9. S = Nat
  <2>1. S \in SUBSET Nat
    BY Zenon
  <2> HIDE DEF S
  <2>. QED
    BY <1>7, <1>8, <2>1, Induction, Zenon
<1>. QED
  BY <1>1, <1>9, SMT

(* A text, and the first m bytes of a character behind it.                 *)
IsTextWith(b, t, e, m) ==
  /\ b \in Seq(Byte) /\ t \in Seq(Byte) /\ m \in 1 .. Len(e)
  /\ Len(b) = Len(t) + m
  /\ \A i \in 1 .. Len(t) : b[i] = t[i]
  /\ \A i \in 1 .. m : b[Len(t) + i] = e[i]

IsLastLead(b, p) ==
  /\ p = 1 \/ ~ IsContinuation(b[p])
  /\ \A q \in p + 1 .. Len(b) : IsContinuation(b[q])

LEMMA LastLeadIs ==
  ASSUME NEW b, Len(b) \in Nat, NEW p \in 1 .. Len(b), ~ IsContinuation(b[p]), IsLastLead(b, p)
  PROVE  LastLead(b) = p
<1>1. LastLead(b) = CHOOSE r \in 1 .. Len(b) : IsLastLead(b, r)
  BY Zenon DEF LastLead, IsLastLead
<1>2. ASSUME NEW r \in 1 .. Len(b), IsLastLead(b, r) PROVE r = p
  <2>1. CASE r < p
    <3>1. p \in r + 1 .. Len(b)
      BY <2>1, SMT
    <3>. QED
      BY <1>2, <3>1, Zenon DEF IsLastLead
  <2>2. CASE p < r
    <3>1. r # 1 /\ r \in p + 1 .. Len(b)
      BY <2>2, SMT
    <3>. QED
      BY <1>2, <3>1, Zenon DEF IsLastLead
  <2>. QED
    BY <2>1, <2>2, SMT
<1>. QED
  BY <1>1, <1>2, Zenon

LEMMA LastIs ==
  ASSUME NEW b, NEW t, NEW e, NEW m, IsEncoding(e), IsTextWith(b, t, e, m)
  PROVE  /\ Len(t) \in Nat /\ b # <<>> /\ LastLead(b) = Len(t) + 1 /\ b[Len(t) + 1] = e[1]
         /\ Len(b) = Len(t) + m /\ m \in 1 .. Len(e) /\ Len(e) \in 1 .. 4
         /\ CodepointLen(e[1]) = Len(e)
         /\ SubSeq(b, 1, Len(t)) = t
<1>1. /\ b \in Seq(Byte) /\ t \in Seq(Byte) /\ m \in 1 .. Len(e) /\ Len(b) = Len(t) + m
      /\ \A i \in 1 .. Len(t) : b[i] = t[i]
      /\ \A i \in 1 .. m : b[Len(t) + i] = e[i]
  BY Zenon DEF IsTextWith
<1>2. /\ Len(e) \in 1 .. 4 /\ CodepointLen(e[1]) = Len(e) /\ ~ IsContinuation(e[1])
      /\ \A i \in 2 .. Len(e) : IsContinuation(e[i])
  BY Zenon DEF IsEncoding
<1>3. Len(t) \in Nat /\ Len(b) \in Nat
  BY <1>1, LenProperties, Zenon
<1>4. 1 \in 1 .. m
  BY <1>1, <1>2, SMT
<1>5. b[Len(t) + 1] = e[1]
  BY <1>1, <1>4, Zenon
<1>6. LastLead(b) = Len(t) + 1
  <2>1. Len(t) + 1 \in 1 .. Len(b)
    BY <1>1, <1>2, <1>3, SMT
  <2>2. ~ IsContinuation(b[Len(t) + 1])
    BY <1>2, <1>5, Zenon
  <2>3. ASSUME NEW q \in (Len(t) + 1) + 1 .. Len(b) PROVE IsContinuation(b[q])
    <3>1. PICK i : i = q - Len(t)
      BY Zenon
    <3>2. i \in 2 .. Len(e) /\ i \in 1 .. m /\ q = Len(t) + i
      BY <1>1, <1>2, <1>3, <3>1, SMT
    <3>. QED
      BY <1>1, <1>2, <3>2, Zenon
  <2>4. IsLastLead(b, Len(t) + 1)
    BY <2>2, <2>3, Zenon DEF IsLastLead
  <2>. QED
    BY <1>3, <2>1, <2>2, <2>4, LastLeadIs, Zenon
<1>7. b # <<>>
  <2>1. Len(b) # 0
    BY <1>1, <1>2, <1>3, SMT
  <2>. QED
    BY <2>1, SMT
<1>8. SubSeq(b, 1, Len(t)) = t
  <2> DEFINE u == SubSeq(b, 1, Len(t))
  <2>1. 1 \in Int /\ Len(t) \in Int /\ \A i \in 1 .. Len(t) : b[i] \in Byte
    <3>1. \A i \in 1 .. Len(t) : t[i] \in Byte
      BY <1>1, ElementOfSeq, Zenon
    <3>. QED
      BY <1>1, <1>3, <3>1, SMT
  <2>2. /\ u \in Seq(Byte)
        /\ Len(u) = IF 1 <= Len(t) THEN Len(t) - 1 + 1 ELSE 0
        /\ \A i \in 1 .. Len(t) - 1 + 1 : u[i] = b[1 + i - 1]
    BY <2>1, SubSeqProperties, SMT
  <2> HIDE DEF u
  <2>3. Len(u) = Len(t) /\ Len(t) - 1 + 1 = Len(t)
    BY <1>3, <2>2, SMT
  <2>4. ASSUME NEW i \in 1 .. Len(u) PROVE u[i] = t[i]
    <3>1. i \in 1 .. Len(t) /\ 1 + i - 1 = i
      BY <1>3, <2>3, SMT
    <3>. QED
      BY <1>1, <2>2, <2>3, <3>1, Zenon
  <2>. QED
    BY <1>1, <2>2, <2>3, <2>4, SeqEqual, Zenon DEF u
<1>. QED
  BY <1>1, <1>2, <1>3, <1>5, <1>6, <1>7, <1>8, Zenon

LEMMA RemovedIs ==
  ASSUME NEW b, NEW t, NEW e, NEW m, IsEncoding(e), IsTextWith(b, t, e, m)
  PROVE  RemoveLastChar(b) = t
<1>1. Len(t) \in Nat /\ b # <<>> /\ LastLead(b) = Len(t) + 1 /\ SubSeq(b, 1, Len(t)) = t
  BY LastIs, Zenon
<1>2. LastLead(b) - 1 = Len(t)
  BY <1>1, SMT
<1>. QED
  BY <1>1, <1>2, Zenon DEF RemoveLastChar

LEMMA BufferIs ==
  ASSUME NEW b, NEW t, NEW e, NEW m, IsEncoding(e), IsTextWith(b, t, e, m)
  PROVE  /\ m = Len(e) => SafeTruncateBuffer(b) = b
         /\ m < Len(e) /\ Len(t) > 0 => SafeTruncateBuffer(b) = t
<1>1. /\ Len(t) \in Nat /\ b # <<>> /\ LastLead(b) = Len(t) + 1 /\ b[Len(t) + 1] = e[1]
      /\ Len(b) = Len(t) + m /\ m \in 1 .. Len(e) /\ Len(e) \in 1 .. 4
      /\ CodepointLen(e[1]) = Len(e)
      /\ SubSeq(b, 1, Len(t)) = t
  BY LastIs, Zenon
<1>2. LastLead(b) - 1 = Len(t)
  BY <1>1, SMT
<1>3. CodepointLen(b[LastLead(b)]) = Len(e)
  BY <1>1, Zenon
<1>4. Len(b) - LastLead(b) + 1 = m
  BY <1>1, SMT
<1>5. CASE m = Len(e)
  <2>1. ~ Len(b) - LastLead(b) + 1 < CodepointLen(b[LastLead(b)])
    BY <1>1, <1>3, <1>4, <1>5, SMT
  <2>. QED
    BY <1>5, <2>1, SMT DEF SafeTruncateBuffer
<1>6. CASE m < Len(e) /\ Len(t) > 0
  <2>1. Len(b) - LastLead(b) + 1 < CodepointLen(b[LastLead(b)]) /\ LastLead(b) > 1
    BY <1>1, <1>3, <1>4, <1>6, SMT
  <2>2. m # Len(e)
    BY <1>1, <1>6, SMT
  <2>. QED
    BY <1>1, <1>2, <2>1, <2>2, Zenon DEF SafeTruncateBuffer
<1>. QED
  BY <1>5, <1>6, Zenon

-----------------------------------------------------------------------------
(* The beginnings of a text, character by character.                       *)
ValidCharacters == {cp \in Nat : IsCharacter(cp)}

IsPrefixes(f, chars) ==
  /\ f \in [0 .. Len(chars) -> Seq(Byte)]
  /\ f[0] = <<>>
  /\ \A i \in 1 .. Len(chars) : f[i] = f[i - 1] \o Encode(chars[i])

LEMMA EncodeBytes ==
  ASSUME NEW chars \in Seq(ValidCharacters), NEW i \in 1 .. Len(chars)
  PROVE  IsCharacter(chars[i]) /\ IsEncoding(Encode(chars[i])) /\ Encode(chars[i]) \in Seq(Byte)
<1>1. chars[i] \in ValidCharacters
  BY ElementOfSeq, Zenon
<1>2. IsCharacter(chars[i])
  BY <1>1, Zenon DEF ValidCharacters
<1>3. IsEncoding(Encode(chars[i]))
  BY <1>2, EncodingIs, Zenon
<1>. QED
  BY <1>2, <1>3, Zenon DEF IsEncoding

LEMMA PrefixesExist ==
  ASSUME NEW chars \in Seq(ValidCharacters)
  PROVE  \E f : IsPrefixes(f, chars)
<1> DEFINE n == Len(chars)
           piece(k) == IF k \in 1 .. n THEN Encode(chars[k]) ELSE <<>>
           V == Seq(Byte)
           next == [k \in Nat |-> [v \in V |-> v \o piece(k)]]
<1>1. n \in Nat
  BY LenProperties, Zenon
<1>2. \A k \in Nat : piece(k) \in V
  <2>1. <<>> \in V
    BY EmptySeq, Zenon
  <2>. QED
    BY <2>1, EncodeBytes, Zenon
<1> HIDE DEF n, piece
<1>3. \A k \in Nat : \A v \in V : next[k][v] = v \o piece(k)
  BY Zenon
<1>4. \A k \in Nat : \A v \in V : v \o piece(k) \in V
  BY <1>2, ConcatProperties, Zenon
<1>5. \A k \in Nat : \A v \in V : next[k][v] \in V
  BY <1>3, <1>4, Zenon
<1>6. <<>> \in V
  BY EmptySeq, Zenon
<1> HIDE DEF V, next
<1>7. PICK g : IsRecursion(V, <<>>, next, g)
  BY <1>5, <1>6, Recursion, Zenon
<1>8. g \in [Nat -> V] /\ g[0] = <<>> /\ \A k \in Nat \ {0} : g[k] = next[k][g[k - 1]]
  BY <1>7, Zenon DEF IsRecursion
<1> DEFINE f == [k \in 0 .. n |-> g[k]]
<1>9. f \in [0 .. n -> V]
  <2>1. \A k \in 0 .. n : k \in Nat
    BY SMT
  <2>. QED
    BY <1>8, <2>1, Zenon
<1>10. f[0] = <<>>
  <2>1. 0 \in 0 .. n
    BY <1>1, SMT
  <2>. QED
    BY <1>8, <2>1, Zenon
<1>11. ASSUME NEW k \in 1 .. n PROVE f[k] = f[k - 1] \o Encode(chars[k])
  <2>1. k \in 0 .. n /\ k - 1 \in 0 .. n /\ k - 1 \in Nat /\ k \in Nat \ {0} /\ k \in Nat
    BY <1>1, SMT
  <2>2. f[k] = g[k] /\ f[k - 1] = g[k - 1]
    BY <2>1, Zenon
  <2>3. g[k - 1] \in V
    BY <1>8, <2>1, Zenon
  <2>4. g[k] = g[k - 1] \o piece(k)
    BY <1>3, <1>8, <2>1, <2>3, Zenon
  <2>5. piece(k) = Encode(chars[k])
    BY Zenon DEF piece
  <2>. QED
    BY <2>2, <2>4, <2>5, Zenon
<1> HIDE DEF f
<1>12. IsPrefixes(f, chars)
  BY <1>9, <1>10, <1>11, Zenon DEF IsPrefixes, V, n
<1>. QED
  BY <1>12, Zenon

LEMMA EncodedIs ==
  ASSUME NEW chars \in Seq(ValidCharacters), NEW f, IsPrefixes(f, chars), NEW k \in 0 .. Len(chars)
  PROVE  Encoded(SubSeq(chars, 1, k)) = f[k]
<1> DEFINE n == Len(chars)
           sub == SubSeq(chars, 1, k)
           seqs == [i \in 1 .. Len(sub) |-> Encode(sub[i])]
           g == [i \in 0 .. k |-> f[i]]
<1>1. n \in Nat /\ k \in Nat /\ k <= n
  <2>1. n \in Nat
    BY LenProperties, Zenon
  <2>. QED
    BY <2>1, SMT
<1>2. Len(sub) = k /\ \A i \in 1 .. k : sub[i] = chars[i]
  <2>1. \A i \in 1 .. k : chars[i] \in ValidCharacters
    <3>1. \A i \in 1 .. k : i \in 1 .. n
      BY <1>1, SMT
    <3>. QED
      BY <3>1, ElementOfSeq, Zenon
  <2> HIDE DEF n
  <2>. QED
    BY <1>1, <2>1, SubSeqProperties, SMT
<1>3. \A i \in 1 .. k : i \in 1 .. n /\ Encode(chars[i]) \in Seq(Byte)
  <2>1. \A i \in 1 .. k : i \in 1 .. n
    BY <1>1, SMT
  <2>. QED
    BY <2>1, EncodeBytes, Zenon
<1>4. Encoded(sub) = FlattenSeq(seqs)
  BY Zenon DEF Encoded
<1> HIDE DEF sub
<1>5. seqs \in Seq(Seq(Byte)) /\ Len(seqs) = k /\ \A i \in 1 .. k : seqs[i] = Encode(chars[i])
  <2>1. seqs = [i \in 1 .. k |-> Encode(sub[i])]
    BY <1>2, Zenon
  <2>2. \A i \in 1 .. k : seqs[i] = Encode(chars[i])
    BY <1>2, <2>1, Zenon
  <2>3. seqs \in [1 .. k -> Seq(Byte)]
    BY <1>2, <1>3, <2>1, Zenon
  <2> HIDE DEF seqs
  <2>4. seqs \in Seq(Seq(Byte)) /\ Len(seqs) = k
    BY <1>1, <2>3, SMT
  <2>. QED
    BY <2>2, <2>4, Zenon
<1> HIDE DEF seqs
<1>6. f \in [0 .. n -> Seq(Byte)] /\ f[0] = <<>> /\ \A i \in 1 .. n : f[i] = f[i - 1] \o Encode(chars[i])
  BY Zenon DEF IsPrefixes
<1>7. \A i \in 0 .. k : g[i] = f[i]
  BY Zenon
<1>8. g \in [0 .. k -> Seq(Byte)]
  <2>1. \A i \in 0 .. k : i \in 0 .. n
    BY <1>1, SMT
  <2>. QED
    BY <1>6, <2>1, Zenon
<1>9. g[0] = <<>>
  <2>1. 0 \in 0 .. k
    BY <1>1, SMT
  <2>. QED
    BY <1>6, <1>7, <2>1, Zenon
<1>10. ASSUME NEW i \in 1 .. k PROVE g[i] = g[i - 1] \o seqs[i]
  <2>1. i \in 0 .. k /\ i - 1 \in 0 .. k
    BY <1>1, SMT
  <2>. QED
    BY <1>3, <1>5, <1>6, <1>7, <2>1, Zenon
<1> HIDE DEF g
<1>11. IsJoined(Byte, g, seqs)
  BY <1>5, <1>8, <1>9, <1>10, Zenon DEF IsJoined
<1>12. FlattenSeq(seqs) = g[k]
  BY <1>5, <1>11, FlattenIs, Zenon
<1>13. k \in 0 .. k
  BY <1>1, SMT
<1>. QED
  BY <1>4, <1>7, <1>12, <1>13, Zenon DEF sub

(* Each goes on with the bytes of the next character.                      *)
LEMMA PrefixIs ==
  ASSUME NEW chars \in Seq(ValidCharacters), NEW f, IsPrefixes(f, chars), NEW i \in 1 .. Len(chars)
  PROVE  IsTextWith(f[i], f[i - 1], Encode(chars[i]), Len(Encode(chars[i])))
<1> DEFINE e == Encode(chars[i])
           t == f[i - 1]
           b == f[i]
<1>1. e \in Seq(Byte) /\ IsEncoding(e)
  BY EncodeBytes, Zenon
<1>2. Len(e) \in 1 .. 4
  BY <1>1, Zenon DEF IsEncoding
<1>3. Len(chars) \in Nat
  BY LenProperties, Zenon
<1>4. i - 1 \in 0 .. Len(chars)
  BY <1>3, SMT
<1>5. t \in Seq(Byte) /\ b = t \o e
  BY <1>4, Zenon DEF IsPrefixes
<1> HIDE DEF e, t, b
<1>6. /\ b \in Seq(Byte) /\ Len(b) = Len(t) + Len(e)
      /\ \A j \in 1 .. Len(t) + Len(e) : b[j] = IF j <= Len(t) THEN t[j] ELSE e[j - Len(t)]
  BY <1>1, <1>5, ConcatProperties, SMT
<1>7. Len(t) \in Nat
  BY <1>5, LenProperties, Zenon
<1>8. ASSUME NEW j \in 1 .. Len(t) PROVE b[j] = t[j]
  <2>1. j \in 1 .. Len(t) + Len(e) /\ j <= Len(t)
    BY <1>2, <1>7, SMT
  <2>. QED
    BY <1>6, <2>1, Zenon
<1>9. ASSUME NEW j \in 1 .. Len(e) PROVE b[Len(t) + j] = e[j]
  <2>1. PICK k : k = Len(t) + j
    BY Zenon
  <2>2. k \in 1 .. Len(t) + Len(e) /\ ~ k <= Len(t) /\ k - Len(t) = j
    BY <1>2, <1>7, <2>1, SMT
  <2>. QED
    BY <1>6, <2>1, <2>2, Zenon
<1>10. Len(e) \in 1 .. Len(e)
  <2>1. \A n \in 1 .. 4 : n \in 1 .. n
    BY SMT
  <2>. QED
    BY <1>2, <2>1, Zenon
<1>11. IsTextWith(b, t, e, Len(e))
  BY <1>5, <1>6, <1>8, <1>9, <1>10, Zenon DEF IsTextWith
<1>. QED
  BY <1>11, Zenon DEF e, t, b

(* The longer starts with the shorter.                                     *)
LEMMA PrefixesStart ==
  ASSUME NEW chars \in Seq(ValidCharacters), NEW f, IsPrefixes(f, chars),
         NEW i \in 0 .. Len(chars), NEW k \in i .. Len(chars)
  PROVE  f[i] \in Seq(Byte) /\ f[k] \in Seq(Byte) /\ StartsWith(f[k], f[i])
<1> DEFINE n == Len(chars)
           S == {j \in Nat : j \in i .. n => StartsWith(f[j], f[i])}
<1>1. n \in Nat /\ i \in Nat
  BY LenProperties, SMT
<1>2. \A j \in 0 .. n : f[j] \in Seq(Byte)
  BY Zenon DEF IsPrefixes
<1>3. \A j \in 0 .. n : Len(f[j]) \in Nat
  BY <1>2, LenProperties, Zenon
<1>4. StartsWith(f[i], f[i])
  <2>1. Len(f[i]) <= Len(f[i])
    BY <1>3, SMT
  <2>. QED
    BY <2>1, Zenon DEF StartsWith
<1>5. ASSUME NEW j \in Nat, j + 1 \in i .. n, j \in i .. n, StartsWith(f[j], f[i]) PROVE StartsWith(f[j + 1], f[i])
  <2>1. PICK m : m = j + 1
    BY Zenon
  <2>2. m \in 1 .. n /\ m - 1 = j /\ j \in 0 .. n /\ m \in 0 .. n
    BY <1>1, <1>5, <2>1, SMT
  <2>3. IsTextWith(f[m], f[j], Encode(chars[m]), Len(Encode(chars[m])))
    BY <2>2, PrefixIs, Zenon
  <2>4. /\ Len(f[m]) = Len(f[j]) + Len(Encode(chars[m])) /\ Len(Encode(chars[m])) \in 1 .. Len(Encode(chars[m]))
        /\ \A p \in 1 .. Len(f[j]) : f[m][p] = f[j][p]
    BY <2>3, Zenon DEF IsTextWith
  <2>5. Len(f[i]) <= Len(f[j]) /\ \A p \in 1 .. Len(f[i]) : f[j][p] = f[i][p]
    BY <1>5, Zenon DEF StartsWith
  <2>6. Len(f[i]) \in Nat /\ Len(f[j]) \in Nat /\ Len(f[m]) \in Nat
    BY <1>3, <2>2, Zenon
  <2>9. IsEncoding(Encode(chars[m]))
    BY <2>2, EncodeBytes, Zenon
  <2>10. Len(Encode(chars[m])) \in 1 .. 4
    BY <2>9, Zenon DEF IsEncoding
  <2>7. Len(f[i]) <= Len(f[m])
    <3>1. \A a, b, c \in Nat, d \in 1 .. 4 : c = a + d /\ b <= a => b <= c
      BY SMT
    <3>. QED
      BY <2>4, <2>5, <2>6, <2>10, <3>1, Zenon
  <2>8. \A p \in 1 .. Len(f[i]) : p \in 1 .. Len(f[j])
    BY <2>5, <2>6, SMT
  <2>. QED
    BY <2>1, <2>4, <2>5, <2>7, <2>8, Zenon DEF StartsWith
<1>6. 0 \in S
  <2>1. 0 \in i .. n => i = 0
    BY <1>1, SMT
  <2>. QED
    BY <1>4, <2>1, SMT
<1>7. ASSUME NEW j \in S PROVE j + 1 \in S
  <2> SUFFICES ASSUME j + 1 \in i .. n PROVE StartsWith(f[j + 1], f[i])
    BY SMT
  <2>1. j \in Nat /\ (j \in i .. n => StartsWith(f[j], f[i]))
    BY Zenon
  <2>2. CASE j \in i .. n
    BY <1>5, <2>1, <2>2, Zenon
  <2>3. CASE j \notin i .. n
    <3>1. j + 1 = i
      BY <1>1, <2>1, <2>3, SMT
    <3>. QED
      BY <1>4, <3>1, Zenon
  <2>. QED
    BY <2>2, <2>3, Zenon
<1>8. S = Nat
  <2>1. S \in SUBSET Nat
    BY Zenon
  <2> HIDE DEF S
  <2>. QED
    BY <1>6, <1>7, <2>1, Induction, Zenon
<1>9. k \in Nat /\ k \in 0 .. n
  BY <1>1, SMT
<1>. QED
  BY <1>2, <1>8, <1>9, Zenon

(* The bytes of a text up to where a beginning of it ends.                 *)
LEMMA StartIs ==
  ASSUME NEW s \in Seq(Byte), NEW t \in Seq(Byte), StartsWith(s, t)
  PROVE  SubSeq(s, 1, Len(t)) = t
<1> DEFINE u == SubSeq(s, 1, Len(t))
<1>1. Len(t) \in Nat /\ Len(s) \in Nat
  BY LenProperties, Zenon
<1>2. Len(t) <= Len(s) /\ \A i \in 1 .. Len(t) : s[i] = t[i]
  BY Zenon DEF StartsWith
<1>3. \A i \in 1 .. Len(t) : s[i] \in Byte
  BY <1>2, ElementOfSeq, Zenon
<1>4. u \in Seq(Byte) /\ Len(u) = Len(t) /\ \A i \in 1 .. Len(t) : u[i] = s[i]
  BY <1>1, <1>3, SubSeqProperties, SMT
<1> HIDE DEF u
<1>5. \A i \in 1 .. Len(u) : u[i] = t[i]
  BY <1>2, <1>4, Zenon
<1>. QED
  BY <1>4, <1>5, SeqEqual, Zenon DEF u

(* How many characters a buffer has room for, and the property of a cut.   *)
Uncut(chars, at) == {k \in 0 .. Len(chars) : Len(Encoded(SubSeq(chars, 1, k))) <= at}
LastUncut(chars, at) == CHOOSE k \in Uncut(chars, at) : \A j \in Uncut(chars, at) : j <= k

CutIsBetween(chars, at) ==
  LET full == Encoded(chars)
      upto(k) == Encoded(SubSeq(chars, 1, k))
      last == LastUncut(chars, at)
  IN  /\ full # <<>> => NextCodepoint(full) = [cp |-> chars[1], used |-> Len(Encode(chars[1]))]
      /\ TruncateChars(full, at) = upto(IF at < Len(chars) THEN Len(chars) - at ELSE 0)
      /\ (last > 0 /\ at <= Len(full)) => SafeTruncateBuffer(SubSeq(full, 1, at)) = upto(last)

LEMMA LastUncutIs ==
  ASSUME NEW chars \in Seq(ValidCharacters), NEW at \in Nat
  PROVE  /\ LastUncut(chars, at) \in Uncut(chars, at)
         /\ \A j \in Uncut(chars, at) : j <= LastUncut(chars, at)
<1> DEFINE W == Uncut(chars, at)
           n == Len(chars)
           D == {n - k : k \in W}
<1>1. n \in Nat
  BY LenProperties, Zenon
<1>2. W \subseteq 0 .. n
  BY Zenon DEF Uncut
<1>3. 0 \in W
  <2>1. PICK f : IsPrefixes(f, chars)
    BY PrefixesExist, Zenon
  <2>2. 0 \in 0 .. n
    BY <1>1, SMT
  <2>3. Encoded(SubSeq(chars, 1, 0)) = f[0]
    BY <2>1, <2>2, EncodedIs, Zenon
  <2>4. f[0] = <<>>
    BY <2>1, Zenon DEF IsPrefixes
  <2>5. Len(<<>>) = 0 /\ 0 <= at
    BY SMT
  <2>. QED
    BY <2>2, <2>3, <2>4, <2>5, Zenon DEF Uncut
<1> HIDE DEF W, n
<1>4. D \in SUBSET Nat /\ D # {}
  BY <1>1, <1>2, <1>3, SMT
<1>5. PICK d \in D : \A e \in D : d <= e
  BY <1>4, LeastOf, Zenon
<1>6. PICK k \in W : d = n - k
  BY <1>5, Zenon
<1>7. ASSUME NEW j \in W PROVE j <= k
  <2>1. d <= n - j
    BY <1>5, Zenon
  <2>. QED
    BY <1>1, <1>2, <1>6, <2>1, SMT
<1>. QED
  BY <1>7, Zenon DEF LastUncut, W

LEMMA CutBetween ==
  ASSUME NEW chars \in Seq(ValidCharacters), NEW at \in Nat \ {0}
  PROVE  CutIsBetween(chars, at)
<1> DEFINE n == Len(chars)
           full == Encoded(chars)
           upto(k) == Encoded(SubSeq(chars, 1, k))
           last == LastUncut(chars, at)
<1>1. n \in Nat
  BY LenProperties, Zenon
<1>2. PICK f : IsPrefixes(f, chars)
  BY PrefixesExist, Zenon
<1>3. \A k \in 0 .. n : upto(k) = f[k]
  BY <1>2, EncodedIs, Zenon
<1>4. n \in 0 .. n /\ 0 \in 0 .. n
  BY <1>1, SMT
<1>5. full = f[n]
  <2>1. SubSeq(chars, 1, Len(chars)) = chars
    BY SubSeqFull, Zenon
  <2>. QED
    BY <1>3, <1>4, <2>1, Zenon
<1>6. \A k \in 0 .. n : f[k] \in Seq(Byte) /\ Len(f[k]) \in Nat
  BY <1>2, LenProperties, Zenon DEF IsPrefixes
<1>7. f[0] = <<>> /\ Len(f[0]) = 0
  <2>1. f[0] = <<>>
    BY <1>2, Zenon DEF IsPrefixes
  <2>. QED
    BY <2>1, SMT
<1>8. \A i \in 0 .. n : \A k \in i .. n : StartsWith(f[k], f[i])
  BY <1>2, PrefixesStart, Zenon
<1>9. \A i \in 1 .. n : IsTextWith(f[i], f[i - 1], Encode(chars[i]), Len(Encode(chars[i])))
  BY <1>2, PrefixIs, Zenon
<1>10. \A i \in 1 .. n : IsEncoding(Encode(chars[i])) /\ IsCharacter(chars[i])
  BY EncodeBytes, Zenon
<1>11. last \in 0 .. n /\ Len(f[last]) <= at /\ \A j \in 0 .. n : Len(f[j]) <= at => j <= last
  <2>1. at \in Nat
    BY SMT
  <2>2. last \in Uncut(chars, at) /\ \A j \in Uncut(chars, at) : j <= last
    BY <2>1, LastUncutIs, Zenon
  <2> HIDE DEF last
  <2>3. \A j \in 0 .. n : j \in Uncut(chars, at) <=> Len(f[j]) <= at
    BY <1>3, Zenon DEF Uncut
  <2>4. last \in 0 .. n
    BY <2>2, Zenon DEF Uncut
  <2>. QED
    BY <2>2, <2>3, <2>4, Zenon
<1>12. full # <<>> => NextCodepoint(full) = [cp |-> chars[1], used |-> Len(Encode(chars[1]))]
  <2> SUFFICES ASSUME full # <<>> PROVE NextCodepoint(full) = [cp |-> chars[1], used |-> Len(Encode(chars[1]))]
    BY Zenon
  <2>1. n # 0
    BY <1>5, <1>7, Zenon
  <2>2. 1 \in 1 .. n /\ 1 \in 0 .. n /\ n \in 1 .. n
    BY <1>1, <2>1, SMT
  <2>3. f[1] = Encode(chars[1])
    <3>1. f[1] = f[1 - 1] \o Encode(chars[1])
      BY <1>2, <2>2, Zenon DEF IsPrefixes
    <3>2. 1 - 1 = 0
      BY SMT
    <3>3. Encode(chars[1]) \in Seq(Byte)
      BY <1>10, <2>2, Zenon DEF IsEncoding
    <3>. QED
      BY <1>7, <3>1, <3>2, <3>3, ConcatEmptySeq, Zenon
  <2>4. StartsWith(full, Encode(chars[1])) /\ full \in Seq(Byte) /\ IsCharacter(chars[1])
    BY <1>4, <1>5, <1>6, <1>8, <1>10, <2>2, <2>3, Zenon
  <2>. QED
    BY <2>4, DecodedIs, Zenon
<1>13. TruncateChars(full, at) = upto(IF at < n THEN n - at ELSE 0)
  <2> DEFINE left(i) == IF i < n THEN n - i ELSE 0
             g == [i \in Nat |-> f[left(i)]]
  <2>1. \A i \in Nat : left(i) \in 0 .. n
    BY <1>1, SMT
  <2>2. \A i \in Nat : g[i] = f[left(i)]
    BY Zenon
  <2>3. left(0) = n
    BY <1>1, SMT
  <2>4. ASSUME NEW i \in 1 .. at PROVE g[i] = RemoveLastChar(g[i - 1])
    <3>1. PICK k : k = left(i - 1)
      BY Zenon
    <3>2. i \in Nat /\ i - 1 \in Nat
      BY SMT
    <3>3. CASE i <= n
      <4>1. k \in 1 .. n /\ left(i) = k - 1
        BY <1>1, <3>1, <3>3, SMT
      <4>2. RemoveLastChar(f[k]) = f[k - 1]
        BY <1>9, <1>10, <4>1, RemovedIs, Zenon
      <4>. QED
        BY <2>2, <3>1, <3>2, <4>1, <4>2, Zenon
    <3>4. CASE ~ i <= n
      <4>1. k = 0 /\ left(i) = 0
        BY <1>1, <3>1, <3>4, SMT
      <4>2. RemoveLastChar(f[0]) = f[0]
        BY <1>7, Zenon DEF RemoveLastChar
      <4>. QED
        BY <2>2, <3>1, <3>2, <4>1, <4>2, Zenon
    <3>. QED
      BY <3>3, <3>4, Zenon
  <2>5. g[0] = full
    <3>1. 0 \in Nat
      BY SMT
    <3>. QED
      BY <1>5, <2>2, <2>3, <3>1, Zenon
  <2>6. at \in Nat
    BY SMT
  <2> HIDE DEF g, full
  <2>7. TruncateChars(full, at) = g[at]
    BY <2>4, <2>5, <2>6, CutIs, Zenon
  <2>. QED
    BY <1>3, <2>1, <2>2, <2>6, <2>7, Zenon
<1>14. (last > 0 /\ at <= Len(full)) => SafeTruncateBuffer(SubSeq(full, 1, at)) = upto(last)
  <2> SUFFICES ASSUME last > 0, at <= Len(full) PROVE SafeTruncateBuffer(SubSeq(full, 1, at)) = upto(last)
    BY Zenon
  <2>0. upto(last) = f[last] /\ full = f[n] /\ full \in Seq(Byte) /\ f[last] \in Seq(Byte)
    BY <1>3, <1>4, <1>5, <1>6, <1>11, Zenon
  <2> HIDE DEF last, full, upto, n
  <2>1. last \in 1 .. n /\ n \in last .. n /\ last \in Nat /\ last - 1 \in 0 .. n
    BY <1>1, <1>11, SMT
  <2>2. StartsWith(full, f[last])
    BY <1>8, <1>11, <2>0, <2>1, Zenon
  <2>3. CASE at = Len(f[last])
    <3>1. SubSeq(full, 1, at) = f[last]
      BY <2>0, <2>2, <2>3, StartIs, Zenon
    <3>2. IsTextWith(f[last], f[last - 1], Encode(chars[last]), Len(Encode(chars[last])))
          /\ IsEncoding(Encode(chars[last]))
      BY <1>9, <1>10, <2>1, Zenon
    <3>3. SafeTruncateBuffer(f[last]) = f[last]
      BY <3>2, BufferIs, Zenon
    <3>. QED
      BY <2>0, <3>1, <3>3, Zenon
  <2>4. CASE at # Len(f[last])
    <3>1. Len(f[last]) \in Nat /\ Len(full) \in Nat /\ Len(f[last]) < at
      BY <1>6, <1>11, <2>0, <2>4, LenProperties, SMT
    <3>2. last # n
      BY <2>0, <3>1, SMT
    <3>3. PICK m : m = last + 1
      BY Zenon
    <3>4. m \in 1 .. n /\ m \in 0 .. n /\ m - 1 = last /\ ~ m <= last /\ n \in m .. n
      BY <1>1, <2>1, <3>2, <3>3, SMT
    <3>5. ~ Len(f[m]) <= at
      BY <1>11, <3>4, Zenon
    <3>6. StartsWith(full, f[m])
      BY <1>8, <2>0, <3>4, Zenon
    <3> DEFINE e == Encode(chars[m])
               t == f[last]
               b == SubSeq(full, 1, at)
    <3>7. IsTextWith(f[m], t, e, Len(e)) /\ IsEncoding(e)
      BY <1>9, <1>10, <3>4, Zenon
    <3> HIDE DEF e, t, b
    <3>8. /\ t \in Seq(Byte) /\ Len(f[m]) = Len(t) + Len(e) /\ Len(e) \in 1 .. 4 /\ Len(t) \in Nat
          /\ \A i \in 1 .. Len(t) : f[m][i] = t[i]
          /\ \A i \in 1 .. Len(e) : f[m][Len(t) + i] = e[i]
      <4>1. Len(e) \in 1 .. 4
        BY <3>7, Zenon DEF IsEncoding
      <4>2. t \in Seq(Byte)
        BY <3>7, Zenon DEF IsTextWith
      <4>. QED
        BY <3>7, <4>1, <4>2, LenProperties, Zenon DEF IsTextWith
    <3>9. PICK c : c = at - Len(t)
      BY Zenon
    <3>10. c \in 1 .. Len(e) /\ c < Len(e) /\ at = Len(t) + c /\ at <= Len(f[m]) /\ Len(f[m]) \in Nat
      <4>1. Len(f[m]) \in Nat
        BY <1>6, <3>4, Zenon
      <4>2. Len(t) < at
        BY <3>1, Zenon DEF t
      <4>. QED
        BY <3>5, <3>8, <3>9, <4>1, <4>2, SMT
    <3>11. Len(f[m]) <= Len(full) /\ \A i \in 1 .. Len(f[m]) : full[i] = f[m][i]
      BY <3>6, Zenon DEF StartsWith
    <3>12. b \in Seq(Byte) /\ Len(b) = at /\ \A i \in 1 .. at : b[i] = full[i]
      <4>1. \A i \in 1 .. at : i \in 1 .. Len(full)
        BY <3>1, SMT
      <4>2. \A i \in 1 .. at : full[i] \in Byte
        BY <2>0, <4>1, ElementOfSeq, Zenon
      <4>. QED
        BY <4>2, SubSeqProperties, SMT DEF b
    <3>13. ASSUME NEW i \in 1 .. at PROVE b[i] = f[m][i]
      <4>1. i \in 1 .. Len(f[m])
        BY <3>10, SMT
      <4>. QED
        BY <3>11, <3>12, <4>1, Zenon
    <3>14. \A i \in 1 .. Len(t) : b[i] = t[i]
      <4>1. \A i \in 1 .. Len(t) : i \in 1 .. at
        BY <3>8, <3>10, SMT
      <4>. QED
        BY <3>8, <3>13, <4>1, Zenon
    <3>15. ASSUME NEW i \in 1 .. c PROVE b[Len(t) + i] = e[i]
      <4>1. Len(t) + i \in 1 .. at /\ i \in 1 .. Len(e)
        BY <3>8, <3>10, SMT
      <4>. QED
        BY <3>8, <3>13, <4>1, Zenon
    <3>16. IsTextWith(b, t, e, c)
      <4>1. Len(b) = Len(t) + c
        BY <3>10, <3>12, Zenon
      <4>. QED
        BY <3>8, <3>10, <3>12, <3>14, <3>15, <4>1, Zenon DEF IsTextWith
    <3>17. Len(t) > 0
      <4>1. last - 1 \in 0 .. n
        BY <2>1, Zenon
      <4>2. IsTextWith(t, f[last - 1], Encode(chars[last]), Len(Encode(chars[last])))
            /\ IsEncoding(Encode(chars[last]))
        BY <1>9, <1>10, <2>1, Zenon DEF t
      <4>3. Len(t) = Len(f[last - 1]) + Len(Encode(chars[last]))
            /\ Len(Encode(chars[last])) \in 1 .. 4 /\ Len(f[last - 1]) \in Nat
        BY <1>6, <4>1, <4>2, Zenon DEF IsTextWith, IsEncoding
      <4>4. \A x \in Nat, y \in 1 .. 4 : x + y > 0
        BY SMT
      <4>. QED
        BY <4>3, <4>4, Zenon
    <3>18. SafeTruncateBuffer(b) = t
      BY <3>7, <3>10, <3>16, <3>17, BufferIs, Zenon
    <3>. QED
      BY <2>0, <3>18, Zenon DEF b, t
  <2>. QED
    BY <2>3, <2>4, Zenon
<1>. QED
  BY <1>12, <1>13, <1>14, Zenon DEF CutIsBetween

-----------------------------------------------------------------------------
(* A text that is decoded is of bytes, and not empty; one that is cut is   *)
(* of characters that have an encoding.                                    *)
IsText(s) == s \in Seq(Byte) /\ s # <<>>
IsToCut(chars, at) == chars \in Seq(ValidCharacters) /\ at \in Nat \ {0}
BytesInv ==
  /\ bytes.op = "decode" => IsText(bytes.text)
  /\ bytes.op = "cut" => IsToCut(bytes.chars, bytes.at)

LEMMA TextIsText ==
  ASSUME NEW lead \in Leads, NEW rest \in BytesOf(Tails, 3)
  PROVE  IsText(<<lead>> \o rest)
<1>1. lead \in Byte /\ Tails \subseteq Byte
  BY BytesAssumption DEF Byte
<1>2. PICK k \in 0 .. 3 : rest \in [1 .. k -> Tails]
  BY DEF BytesOf
<1>3. rest \in [1 .. k -> Byte] /\ k \in Nat
  BY <1>1, <1>2
<1>4. rest \in Seq(Byte)
  <2>1. \E n \in Nat : rest \in [1 .. n -> Byte]
    BY <1>3
  <2>2. rest \in UNION {[1 .. n -> Byte] : n \in Nat}
    BY <2>1, Zenon
  <2>. QED
    BY <2>2, SeqDef, Zenon
<1>5. <<lead>> \in Seq(Byte) /\ Len(<<lead>>) = 1
  BY <1>1
<1>6. <<lead>> \o rest \in Seq(Byte) /\ Len(<<lead>> \o rest) = 1 + Len(rest) /\ Len(rest) \in Nat
  BY <1>4, <1>5, ConcatProperties, LenProperties
<1>7. <<lead>> \o rest # <<>>
  BY <1>6
<1>. QED
  BY <1>6, <1>7 DEF IsText

LEMMA CharsAreValid ==
  ASSUME NEW chars \in BytesOf(Codepoints, MaxChars), NEW n \in 1 .. 4 * MaxChars
  PROVE  IsToCut(chars, n)
<1>1. PICK k \in 0 .. MaxChars : chars \in [1 .. k -> Codepoints]
  BY Zenon DEF BytesOf
<1>2. \A cp \in Codepoints : cp \in ValidCharacters
  BY Utf8Assumption, SMT DEF ValidCharacters, IsCharacter
<1>3. chars \in [1 .. k -> ValidCharacters] /\ k \in Nat
  <2>1. k \in Nat
    BY SMT
  <2>. QED
    BY <1>1, <1>2, <2>1, Zenon
<1>4. chars \in Seq(ValidCharacters)
  <2>1. chars \in UNION {[1 .. i -> ValidCharacters] : i \in Nat}
    BY <1>3, Zenon
  <2>. QED
    BY <2>1, SeqDef, Zenon
<1>5. n \in Nat \ {0}
  <2>1. \A i \in Int : i \in 1 .. 4 * MaxChars => i \in Nat \ {0}
    BY SMT
  <2>. QED
    BY <2>1, SMT
<1>. QED
  BY <1>4, <1>5, Zenon DEF IsToCut

LEMMA TextAlways == GraphicsSpec => []BytesInv
<1>1. GraphicsInit => BytesInv
  BY DEF GraphicsInit, Utf8Init, NoText, BytesInv
<1>2. BytesInv /\ [GraphicsNext]_graphicsVars => BytesInv'
  <2> SUFFICES ASSUME BytesInv, [GraphicsNext]_graphicsVars PROVE BytesInv'
    OBVIOUS
  <2>1. CASE bytes' = bytes
    BY <2>1 DEF BytesInv
  <2>2. CASE ReadText
    <3>1. CASE \E lead \in Leads, rest \in BytesOf(Tails, 3) : bytes' = [op |-> "decode", text |-> <<lead>> \o rest]
      <4>1. PICK lead \in Leads, rest \in BytesOf(Tails, 3) : bytes' = [op |-> "decode", text |-> <<lead>> \o rest]
        BY <3>1, Zenon
      <4>2. PICK s : s = <<lead>> \o rest
        BY Zenon
      <4>3. IsText(s)
        BY <4>2, TextIsText, Zenon
      <4>4. bytes' = [op |-> "decode", text |-> s]
        BY <4>1, <4>2, Zenon
      <4>5. bytes'.op = "decode" /\ bytes'.text = s
        BY <4>4, SMT
      <4>. QED
        BY <4>3, <4>5, SMT DEF BytesInv
    <3>2. CASE \E chars \in BytesOf(Codepoints, MaxChars), n \in 1 .. 4 * MaxChars :
                 bytes' = [op |-> "cut", chars |-> chars, at |-> n]
      <4>1. PICK chars \in BytesOf(Codepoints, MaxChars), n \in 1 .. 4 * MaxChars :
              bytes' = [op |-> "cut", chars |-> chars, at |-> n]
        BY <3>2, Zenon
      <4>2. IsToCut(chars, n)
        BY CharsAreValid, Zenon
      <4>3. bytes'.op = "cut" /\ bytes'.chars = chars /\ bytes'.at = n
        BY <4>1, SMT
      <4>. QED
        BY <4>2, <4>3, SMT DEF BytesInv
    <3>. QED
      BY <2>2, <3>1, <3>2, Zenon DEF ReadText
  <2>3. bytes' = bytes \/ ReadText
    BY Zenon DEF GraphicsNext, graphicsVars, Download, TakeScreenshot, ReadBitmap, DrawOnce, TakeText,
                      UseFonts, UseInflate
  <2>. QED
    BY <2>1, <2>2, <2>3
<1>. QED
  BY <1>1, <1>2, PTL DEF GraphicsSpec

(* Decoding never passes the end of a text, and what it takes for a        *)
(* character is that character's one encoding (Utf8.cpp:11-57).            *)
THEOREM OnlyEncodingsAreEverDecoded == GraphicsSpec => []OnlyEncodingsAreDecoded
<1>1. BytesInv => OnlyEncodingsAreDecoded
  <2> SUFFICES ASSUME BytesInv, bytes.op = "decode" PROVE OnlyEncodingsAreDecoded
    BY DEF OnlyEncodingsAreDecoded
  <2>1. bytes.text \in Seq(Byte) /\ bytes.text # <<>>
    BY DEF BytesInv, IsText
  <2>2. PICK next : next = NextCodepoint(bytes.text)
    OBVIOUS
  <2>3. /\ next.used \in 1 .. Len(bytes.text)
        /\ next.cp = ReplacementGlyph \/ SubSeq(bytes.text, 1, next.used) = Encode(next.cp)
    BY <2>1, <2>2, DecodedIsEncoded
  <2>. QED
    BY <2>2, <2>3 DEF OnlyEncodingsAreDecoded
<1>. QED
  BY <1>1, TextAlways, PTL

(* A text of valid characters is decoded to its first, characters are      *)
(* taken off its end whole, and a buffer that ends within a character is   *)
(* cut back to the end of the one before (Utf8.cpp:11-94).                 *)
THEOREM TextIsAlwaysCutBetweenCharacters == GraphicsSpec => []TextIsCutBetweenCharacters
<1>1. BytesInv => TextIsCutBetweenCharacters
  <2> SUFFICES ASSUME BytesInv, bytes.op = "cut" PROVE TextIsCutBetweenCharacters
    BY Zenon DEF TextIsCutBetweenCharacters
  <2>1. bytes.chars \in Seq(ValidCharacters) /\ bytes.at \in Nat \ {0}
    BY Zenon DEF BytesInv, IsToCut
  <2>2. CutIsBetween(bytes.chars, bytes.at)
    BY <2>1, CutBetween, Zenon
  <2>. QED
    BY <2>2, Zenon DEF CutIsBetween, TextIsCutBetweenCharacters, LastUncut, Uncut
<1>. QED
  BY <1>1, TextAlways, PTL

-----------------------------------------------------------------------------
(***************************************************************************)
(* Text: measuring goes along with drawing, for every font and text.       *)
(***************************************************************************)
(* What the tables of a font are: a kern is between characters that have a *)
(* glyph.                                                                  *)
GlyphRecords == [width : Nat, height : Nat, left : Int, top : Int, advance : Int, ink : Seq(0 .. 3)]

IsFont(font) ==
  /\ \A c \in DOMAIN font.glyph : font.glyph[c] \in GlyphRecords
  /\ \A c, d : <<c, d>> \in DOMAIN font.kern =>
       font.kern[<<c, d>>] \in Int /\ HasGlyph(font, c) /\ HasGlyph(font, d)
  /\ \A p \in DOMAIN font.ligature : font.ligature[p] # NoCharacter
  /\ font.ascender \in Int

(* A character that has a glyph, if only the replacement, shows as one of  *)
(* the font.                                                               *)
LEMMA GlyphIs ==
  ASSUME NEW font, IsFont(font), NEW c, HasGlyph(font, c)
  PROVE  Glyph(font, c) \in GlyphRecords
<1>1. IF c \in DOMAIN font.glyph THEN TRUE ELSE Replacement \in DOMAIN font.glyph
  BY Zenon DEF HasGlyph
<1>. QED
  BY <1>1, Zenon DEF IsFont, Glyph

(* There is no kern at a character without a glyph.                        *)
LEMMA KernIs ==
  ASSUME NEW font, IsFont(font), NEW c, NEW d
  PROVE  /\ Kern(font, c, d) \in Int
         /\ ~ HasGlyph(font, c) \/ ~ HasGlyph(font, d) => Kern(font, c, d) = 0
<1>1. 0 \in Int
  BY SMT
<1>. QED
  BY <1>1, Zenon DEF IsFont, Kern

(* Rounding gives whole pixels, and none for none.                         *)
LEMMA ToPixelIs ==
  /\ \A n \in Int : ToPixel(n) \in Int
  /\ ToPixel(0) = 0
  BY SMT DEF ToPixel

(* The states of a walk.                                                   *)
Spots(A) == [c : A, glyph : GlyphRecords, x : Int, y : Int]
States(A) ==
  [x : Int, left : Int, width : Int, top : Int, advance : Int, prev : A \cup {NoCharacter},
   placed : Seq(Spots(A))]

(* A step along a text is a whole number of pixels.                        *)
LEMMA StepIs ==
  ASSUME NEW font, IsFont(font), NEW A, NEW s \in States(A), NEW c
  PROVE  StepOf(font, s, c) \in Int
<1>1. s.advance \in Int
  BY SMT DEF States
<1>2. 0 \in Int
  BY SMT
<1>3. s.advance + Kern(font, s.prev, c) \in Int
  BY <1>1, KernIs, SMT
<1>. QED
  BY <1>2, <1>3, ToPixelIs, Zenon DEF StepOf

(* The states of a walk stay within their sets, whatever is placed: no     *)
(* base, ...                                                               *)
LEMMA NoBaseIsState ==
  ASSUME NEW A, NEW x \in Int, NEW prev \in A \cup {NoCharacter}, NEW placed \in Seq(Spots(A))
  PROVE  NoBase(x, prev, placed) \in States(A)
  BY SMT DEF NoBase, States

(* ... the start, ...                                                      *)
LEMMA StartIsState ==
  ASSUME NEW A
  PROVE  Start \in States(A)
<1>1. <<>> \in Seq(Spots(A))
  BY EmptySeq, Zenon
<1>2. NoCharacter \in A \cup {NoCharacter} /\ 0 \in Int
  BY SMT
<1>. QED
  BY <1>1, <1>2, NoBaseIsState, Zenon DEF Start

(* ... a glyph, ...                                                        *)
LEMMA PlaceIs ==
  ASSUME NEW A, NEW s \in States(A), NEW c \in A, NEW glyph \in GlyphRecords, NEW x \in Int, NEW y \in Int
  PROVE  /\ Place(s, c, glyph, x, y) \in States(A)
         /\ Place(s, c, glyph, x, y)
              = [s EXCEPT !.placed = Append(s.placed, [c |-> c, glyph |-> glyph, x |-> x, y |-> y])]
<1> DEFINE spot == [c |-> c, glyph |-> glyph, x |-> x, y |-> y]
<1>1. spot \in Spots(A)
  BY SMT DEF Spots
<1> HIDE DEF spot
<1>2. s.placed \in Seq(Spots(A))
  BY SMT DEF States
<1>3. Append(s.placed, spot) \in Seq(Spots(A))
  BY <1>1, <1>2, AppendProperties, Zenon
<1>4. Place(s, c, glyph, x, y) = [s EXCEPT !.placed = Append(s.placed, spot)]
  BY Zenon DEF Place, spot
<1>5. [s EXCEPT !.placed = Append(s.placed, spot)] \in States(A)
  <2>1. \A q \in Seq(Spots(A)) : [s EXCEPT !.placed = q] \in States(A)
    BY SMT DEF States
  <2>. QED
    BY <1>3, <2>1, Zenon
<1>. QED
  BY <1>4, <1>5, Zenon DEF spot

(* ... a mark over its base, ...                                           *)
LEMMA MarkIsState ==
  ASSUME NEW font, IsFont(font), NEW A, NEW s \in States(A), NEW c \in A, HasGlyph(font, c)
  PROVE  PlaceMark(font, s, c) \in States(A)
<1> DEFINE mark == Glyph(font, c)
<1>1. mark \in GlyphRecords
  BY GlyphIs, Zenon
<1>2. PlaceMark(font, s, c)
        = Place(s, c, mark, CenterOver(s.x, s.left, s.width, mark), RaiseAboveBase(mark, s.top))
  BY Zenon DEF PlaceMark
<1> HIDE DEF mark
<1>3. mark.width \in Int /\ mark.left \in Int /\ mark.top \in Int /\ mark.height \in Int
  BY <1>1, SMT DEF GlyphRecords
<1>4. s.x \in Int /\ s.left \in Int /\ s.width \in Int /\ s.top \in Int
  BY SMT DEF States
<1>5. CenterOver(s.x, s.left, s.width, mark) \in Int
  BY <1>3, <1>4, SMT DEF CenterOver
<1>6. RaiseAboveBase(mark, s.top) \in Int
  BY <1>3, <1>4, SMT DEF RaiseAboveBase
<1>7. PICK x \in Int, y \in Int :
        x = CenterOver(s.x, s.left, s.width, mark) /\ y = RaiseAboveBase(mark, s.top)
  BY <1>5, <1>6, Zenon
<1>8. Place(s, c, mark, x, y) \in States(A)
  BY <1>1, PlaceIs, Zenon
<1>. QED
  BY <1>2, <1>7, <1>8, Zenon

(* A base that is placed.                                                  *)
LEMMA BaseIsState ==
  ASSUME NEW A, NEW s \in States(A), NEW c \in A, NEW glyph \in GlyphRecords, NEW x \in Int
  PROVE  PlaceBase(s, c, glyph, x) \in States(A)
<1>1. 0 \in Int
  BY SMT
<1>2. PICK p \in States(A) : p = Place(s, c, glyph, x, 0)
  BY <1>1, PlaceIs, Zenon
<1>3. glyph.width \in Int /\ glyph.left \in Int /\ glyph.top \in Int /\ glyph.advance \in Int
  BY SMT DEF GlyphRecords
<1>4. p.placed \in Seq(Spots(A)) /\ c \in A \cup {NoCharacter}
  BY SMT DEF States
<1>. QED
  BY <1>2, <1>3, <1>4, SMT DEF PlaceBase, States

Hows == {"draw", "turned", "bounds", "advance"}

(* A mark and a base that are drawn turned.                                *)
LEMMA TurnedIsState ==
  ASSUME NEW font, IsFont(font), NEW A, NEW s \in States(A), NEW c \in A
  PROVE  TurnedStep(font, s, c) \in States(A)
<1>1. PICK y \in Int : y = s.x - StepOf(font, s, c)
  <2>1. s.x \in Int
    BY SMT DEF States
  <2>. QED
    BY <2>1, StepIs, SMT
<1>2. PICK glyph : glyph = Glyph(font, c)
  BY Zenon
<1>3. CASE IsCombining(c) /\ HasGlyph(font, c)
  <2>1. glyph \in GlyphRecords
    BY <1>2, <1>3, GlyphIs, Zenon
  <2>2. glyph.width \in Int /\ glyph.left \in Int /\ glyph.top \in Int /\ glyph.height \in Int
    BY <2>1, SMT DEF GlyphRecords
  <2>3. s.x \in Int /\ s.left \in Int /\ s.width \in Int /\ s.top \in Int
    BY SMT DEF States
  <2>4. CenterOverRotated90CW(s.x, s.left, s.width, glyph) \in Int
    BY <2>2, <2>3, SMT DEF CenterOverRotated90CW
  <2>5. RaiseAboveBase(glyph, s.top) \in Int
    BY <2>2, <2>3, SMT DEF RaiseAboveBase
  <2>6. PICK u \in Int, v \in Int :
          u = - RaiseAboveBase(glyph, s.top) /\ v = CenterOverRotated90CW(s.x, s.left, s.width, glyph)
    <3>1. - RaiseAboveBase(glyph, s.top) \in Int
      BY <2>5, SMT
    <3>. QED
      BY <2>4, <3>1, Zenon
  <2>7. TurnedStep(font, s, c) = Place(s, c, glyph, u, v)
    BY <1>2, <1>3, <2>6, Zenon DEF TurnedStep
  <2>8. PICK p \in States(A) : p = Place(s, c, glyph, u, v)
    BY <2>1, PlaceIs, Zenon
  <2>. QED
    BY <2>7, <2>8, Zenon
<1>4. CASE IsCombining(c) /\ ~ HasGlyph(font, c)
  BY <1>4, Zenon DEF TurnedStep
<1>5. CASE ~ IsCombining(c) /\ HasGlyph(font, c)
  <2>1. glyph \in GlyphRecords
    BY <1>2, <1>5, GlyphIs, Zenon
  <2>2. PICK b \in States(A) : b = PlaceBase(s, c, glyph, y)
    BY <2>1, BaseIsState, Zenon
  <2>3. 0 \in Int
    BY SMT
  <2>4. PICK p \in States(A) : p = Place(s, c, glyph, 0, y)
    BY <2>1, <2>3, PlaceIs, Zenon
  <2>5. p.placed \in Seq(Spots(A))
    BY SMT DEF States
  <2>6. PICK q \in Seq(Spots(A)) : q = p.placed
    BY <2>5, Zenon
  <2>7. [b EXCEPT !.placed = q] \in States(A)
    <3>1. \A t \in States(A), r \in Seq(Spots(A)) : [t EXCEPT !.placed = r] \in States(A)
      BY Zenon DEF States
    <3>. QED
      BY <3>1, Zenon
  <2>8. TurnedStep(font, s, c) = [b EXCEPT !.placed = q]
    BY <1>1, <1>2, <1>5, <2>2, <2>4, <2>6, Zenon DEF TurnedStep
  <2>. QED
    BY <2>7, <2>8, Zenon
<1>6. CASE ~ IsCombining(c) /\ ~ HasGlyph(font, c)
  <2>1. TurnedStep(font, s, c) = NoBase(y, c, s.placed)
    BY <1>1, <1>6, Zenon DEF TurnedStep
  <2>2. s.placed \in Seq(Spots(A))
    BY SMT DEF States
  <2>3. c \in A \cup {NoCharacter}
    BY Zenon
  <2>. QED
    BY <2>1, <2>2, <2>3, NoBaseIsState, Zenon
<1>. QED
  BY <1>3, <1>4, <1>5, <1>6, Zenon

(* ... so every step, of drawing, of measuring and of advancing.           *)
LEMMA StepIsState ==
  ASSUME NEW font, IsFont(font), NEW A, NEW s \in States(A), NEW c \in A, NEW how \in Hows
  PROVE  StepBy(how, font, s, c) \in States(A)
<1>1. PICK x \in Int : x = s.x + StepOf(font, s, c)
  <2>1. s.x \in Int
    BY SMT DEF States
  <2>. QED
    BY <2>1, StepIs, SMT
<1>2. c \in A \cup {NoCharacter} /\ NoCharacter \in A \cup {NoCharacter} /\ 0 \in Int
  BY SMT
<1>3. \A y \in Int, p \in A \cup {NoCharacter} : NoBase(y, p, s.placed) \in States(A)
  <2>1. s.placed \in Seq(Spots(A))
    BY SMT DEF States
  <2>. QED
    BY <2>1, NoBaseIsState, Zenon
<1>4. CASE how = "draw"
  <2>1. StepBy(how, font, s, c) = DrawStep(font, s, c)
    BY <1>4, SMT DEF StepBy
  <2>2. CASE IsCombining(c)
    BY <1>4, <2>1, <2>2, MarkIsState, Zenon DEF DrawStep
  <2>3. CASE ~ IsCombining(c) /\ HasGlyph(font, c)
    <3>1. DrawStep(font, s, c) = PlaceBase(s, c, Glyph(font, c), x)
      BY <1>1, <2>3, Zenon DEF DrawStep
    <3>2. Glyph(font, c) \in GlyphRecords
      BY <2>3, GlyphIs, Zenon
    <3>. QED
      BY <2>1, <3>1, <3>2, BaseIsState, Zenon
  <2>4. CASE ~ IsCombining(c) /\ ~ HasGlyph(font, c)
    <3>1. DrawStep(font, s, c) = NoBase(x, c, s.placed)
      BY <1>1, <2>4, Zenon DEF DrawStep
    <3>. QED
      BY <1>2, <1>3, <2>1, <3>1, Zenon
  <2>. QED
    BY <2>2, <2>3, <2>4, Zenon
<1>5. CASE how = "bounds"
  <2>1. StepBy(how, font, s, c) = BoundsStep(font, s, c)
    BY <1>5, SMT DEF StepBy
  <2>2. CASE HasGlyph(font, c) /\ IsCombining(c)
    BY <2>1, <2>2, MarkIsState, Zenon DEF BoundsStep
  <2>3. CASE HasGlyph(font, c) /\ ~ IsCombining(c)
    <3>1. BoundsStep(font, s, c) = PlaceBase(s, c, Glyph(font, c), x)
      BY <1>1, <2>3, Zenon DEF BoundsStep
    <3>2. Glyph(font, c) \in GlyphRecords
      BY <2>3, GlyphIs, Zenon
    <3>. QED
      BY <2>1, <3>1, <3>2, BaseIsState, Zenon
  <2>4. CASE ~ HasGlyph(font, c)
    <3>1. PICK y \in Int : y = s.x + ToPixel(s.advance)
      <4>1. s.x \in Int /\ s.advance \in Int
        BY SMT DEF States
      <4>2. ToPixel(s.advance) \in Int
        BY <4>1, ToPixelIs, Zenon
      <4>. QED
        BY <4>1, <4>2, SMT
    <3>2. NoBase(y, NoCharacter, s.placed) \in States(A)
      BY <1>2, <1>3, Zenon
    <3>3. BoundsStep(font, s, c) = IF IsCombining(c) THEN s ELSE NoBase(y, NoCharacter, s.placed)
      BY <2>4, <3>1, Zenon DEF BoundsStep
    <3>. QED
      BY <2>1, <3>2, <3>3, Zenon
  <2>. QED
    BY <2>2, <2>3, <2>4, Zenon
<1>6. CASE how = "advance"
  <2>1. StepBy(how, font, s, c) = AdvanceStep(font, s, c)
    BY <1>6, SMT DEF StepBy
  <2>2. PICK a \in Int : a = IF HasGlyph(font, c) THEN Glyph(font, c).advance ELSE 0
    <3>1. \A g \in GlyphRecords : g.advance \in Int
      BY SMT DEF GlyphRecords
    <3>2. HasGlyph(font, c) => Glyph(font, c).advance \in Int
      BY <3>1, GlyphIs, Zenon
    <3>. QED
      BY <1>2, <3>2, Zenon
  <2>5. PICK b \in States(A) : b = NoBase(x, c, s.placed)
    BY <1>2, <1>3, Zenon
  <2>3. [b EXCEPT !.advance = a] \in States(A)
    <3>1. \A t \in States(A), m \in Int : [t EXCEPT !.advance = m] \in States(A)
      BY Zenon DEF States
    <3>. QED
      BY <2>2, <2>5, <3>1, Zenon
  <2>4. AdvanceStep(font, s, c) = IF IsCombining(c) THEN s ELSE [b EXCEPT !.advance = a]
    BY <1>1, <2>2, <2>5, Zenon DEF AdvanceStep
  <2>. QED
    BY <2>1, <2>3, <2>4, Zenon
<1>7. CASE how = "turned"
  <2>1. StepBy(how, font, s, c) = TurnedStep(font, s, c)
    BY <1>7, SMT DEF StepBy
  <2>. QED
    BY <2>1, TurnedIsState, Zenon
<1>. QED
  BY <1>4, <1>5, <1>6, <1>7, Zenon DEF Hows

-----------------------------------------------------------------------------
(* The states of a walk along some letters, one by one.                    *)
IsWalk(how, font, A, letters, w) ==
  /\ w \in [0 .. Len(letters) -> States(A)]
  /\ w[0] = Start
  /\ \A n \in 1 .. Len(letters) : w[n] = StepBy(how, font, w[n - 1], letters[n])

(* What WalkAlong() returns is the last of the states of a walk, for it is *)
(* recursive along the letters.                                            *)
LEMMA WalkIs ==
  ASSUME NEW font, IsFont(font), NEW A, NEW letters \in Seq(A), NEW how \in Hows
  PROVE  \E w : IsWalk(how, font, A, letters, w) /\ WalkAlong(how, font, letters) = w[Len(letters)]
<1> DEFINE N == Len(letters)
           V == States(A)
           next == [n \in Nat |-> [v \in V |-> IF n \in 1 .. N THEN StepBy(how, font, v, letters[n]) ELSE v]]
           Rounds(g) == [n \in 0 .. N |-> IF n = 0 THEN Start ELSE StepBy(how, font, g[n - 1], letters[n])]
           w == CHOOSE g : g = Rounds(g)
<1>1. N \in Nat
  BY LenProperties, Zenon
<1>2. \A n \in 1 .. N : letters[n] \in A
  BY ElementOfSeq, Zenon
<1> HIDE DEF N
<1>3. ASSUME NEW n \in Nat, NEW v \in V
      PROVE  next[n][v] = IF n \in 1 .. N THEN StepBy(how, font, v, letters[n]) ELSE v
  BY Zenon
<1>4. \A n \in Nat : \A v \in V : next[n][v] \in V
  BY <1>2, <1>3, StepIsState, Zenon
<1>5. Start \in V
  BY StartIsState, Zenon
<1> HIDE DEF V, next
<1>6. PICK f : IsUpTo(V, Start, next, N, f)
  BY <1>1, <1>4, <1>5, UpToExists, Zenon
<1>7. f \in [0 .. N -> V] /\ f[0] = Start
  BY <1>6, Zenon DEF IsUpTo
<1>8. ASSUME NEW n \in 1 .. N PROVE f[n] = StepBy(how, font, f[n - 1], letters[n])
  <2>1. f[n] = next[n][f[n - 1]]
    BY <1>6, Zenon DEF IsUpTo
  <2>2. n \in Nat /\ n - 1 \in 0 .. N
    BY <1>1, SMT
  <2>3. f[n - 1] \in V
    BY <1>7, <2>2, Zenon
  <2>. QED
    BY <1>3, <2>1, <2>2, <2>3, Zenon
<1>9. f = Rounds(f)
  <2>1. \A n \in 0 .. N : n # 0 => n \in 1 .. N
    BY <1>1, SMT
  <2>2. \A n \in 0 .. N : f[n] = IF n = 0 THEN Start ELSE StepBy(how, font, f[n - 1], letters[n])
    BY <1>7, <1>8, <2>1, Zenon
  <2>. QED
    BY <1>7, <2>2, Zenon
<1>10. w = Rounds(w)
  BY <1>9, Zenon
<1> HIDE DEF w
<1>11. \A n \in 0 .. N : w[n] = IF n = 0 THEN Start ELSE StepBy(how, font, w[n - 1], letters[n])
  BY <1>10, Zenon
<1>12. 0 \in 0 .. N /\ \A n \in 1 .. N : n \in 0 .. N /\ n # 0
  BY <1>1, SMT
<1>13. w[0] = Start /\ \A n \in 1 .. N : w[n] = StepBy(how, font, w[n - 1], letters[n])
  BY <1>11, <1>12, Zenon
<1> DEFINE S == {n \in Nat : n <= N => w[n] \in V}
<1>14. 0 \in S
  BY <1>5, <1>13, SMT
<1>15. ASSUME NEW n \in S PROVE n + 1 \in S
  <2> SUFFICES ASSUME n + 1 <= N PROVE w[n + 1] \in V
    BY SMT
  <2>1. PICK m : m = n + 1
    BY Zenon
  <2>2. m \in 1 .. N /\ m - 1 = n /\ n <= N
    BY <1>1, <2>1, SMT
  <2>3. w[n] \in V
    BY <2>2, Zenon
  <2>4. w[m] = StepBy(how, font, w[n], letters[m])
    BY <1>13, <2>2, Zenon
  <2>. QED
    BY <1>2, <2>1, <2>2, <2>3, <2>4, StepIsState, Zenon DEF V
<1>16. S = Nat
  <2>1. S \in SUBSET Nat
    BY Zenon
  <2> HIDE DEF S
  <2>. QED
    BY <1>14, <1>15, <2>1, Induction, Zenon
<1>17. w \in [0 .. N -> V]
  <2>1. \A n \in 0 .. N : n \in Nat /\ n <= N
    BY <1>1, SMT
  <2>2. \A n \in 0 .. N : w[n] \in V
    BY <1>16, <2>1, Zenon
  <2>3. w = [n \in 0 .. N |-> w[n]]
    BY <1>10, Zenon
  <2>. QED
    BY <2>2, <2>3, Zenon
<1>18. IsWalk(how, font, A, letters, w)
  BY <1>13, <1>17, Zenon DEF IsWalk, V, N
<1>19. WalkAlong(how, font, letters) = w[N]
  BY Zenon DEF WalkAlong, w, N
<1>. QED
  BY <1>18, <1>19, Zenon DEF N

(* The characters a text may come to hold when ligatures are taken.        *)
LettersOf(font, B) == B \cup {font.ligature[p] : p \in DOMAIN font.ligature}

(* What a text is after a ligature has only characters of the text and     *)
(* ligatures of the font.                                                  *)
LEMMA TakeInIs ==
  ASSUME NEW font, NEW B, NEW taken \in Seq(LettersOf(font, B)), NEW c \in B
  PROVE  TakeIn(font, taken, c) \in Seq(LettersOf(font, B))
<1> DEFINE A == LettersOf(font, B)
<1>1. c \in A /\ \A p \in DOMAIN font.ligature : font.ligature[p] \in A
  BY Zenon DEF LettersOf
<1> HIDE DEF A
<1>2. taken \in Seq(A)
  BY Zenon DEF A
<1>3. Append(taken, c) \in Seq(A)
  BY <1>1, <1>2, AppendProperties, Zenon
<1>4. taken # <<>> => Front(taken) \in Seq(A)
  <2>1. taken # <<>> => Len(taken) \in Nat /\ Len(taken) # 0
    BY <1>2, EmptySeq, LenProperties, SMT
  <2>2. \A i \in 1 .. Len(taken) : taken[i] \in A
    BY <1>2, ElementOfSeq, Zenon
  <2>3. taken # <<>> => 1 \in 1 .. Len(taken) + 1 /\ Len(taken) - 1 \in 0 .. Len(taken)
    BY <2>1, SMT
  <2>4. taken # <<>> => SubSeq(taken, 1, Len(taken) - 1) \in Seq(A)
    BY <1>2, <2>1, <2>2, <2>3, SubSeqProperties, SMT
  <2>. QED
    BY <2>4, Zenon DEF Front
<1>5. ASSUME taken # <<>>, <<Last(taken), c>> \in DOMAIN font.ligature
      PROVE  Append(Front(taken), font.ligature[<<Last(taken), c>>]) \in Seq(A)
  BY <1>1, <1>4, <1>5, AppendProperties, Zenon
<1>. QED
  BY <1>3, <1>5, Zenon DEF TakeIn, A

(* So has a text with all its ligatures taken.                             *)
LEMMA LigatedIs ==
  ASSUME NEW font, NEW B, NEW string \in Seq(B)
  PROVE  Ligated(font, string) \in Seq(LettersOf(font, B))
<1> DEFINE N == Len(string)
           V == Seq(LettersOf(font, B))
           next == [n \in Nat |-> [v \in V |-> IF n \in 1 .. N THEN TakeIn(font, v, string[n]) ELSE v]]
           Rounds(g) == [n \in 0 .. N |-> IF n = 0 THEN <<>> ELSE TakeIn(font, g[n - 1], string[n])]
           w == CHOOSE g : g = Rounds(g)
<1>1. N \in Nat
  BY LenProperties, Zenon
<1>2. \A n \in 1 .. N : string[n] \in B
  BY ElementOfSeq, Zenon
<1> HIDE DEF N
<1>3. ASSUME NEW n \in Nat, NEW v \in V
      PROVE  next[n][v] = IF n \in 1 .. N THEN TakeIn(font, v, string[n]) ELSE v
  BY Zenon
<1>4. \A n \in Nat : \A v \in V : next[n][v] \in V
  BY <1>2, <1>3, TakeInIs, Zenon
<1>5. <<>> \in V
  BY EmptySeq, Zenon
<1> HIDE DEF V, next
<1>6. PICK f : IsUpTo(V, <<>>, next, N, f)
  BY <1>1, <1>4, <1>5, UpToExists, Zenon
<1>7. f \in [0 .. N -> V] /\ f[0] = <<>>
  BY <1>6, Zenon DEF IsUpTo
<1>8. ASSUME NEW n \in 1 .. N PROVE f[n] = TakeIn(font, f[n - 1], string[n])
  <2>1. f[n] = next[n][f[n - 1]]
    BY <1>6, Zenon DEF IsUpTo
  <2>2. n \in Nat /\ n - 1 \in 0 .. N
    BY <1>1, SMT
  <2>3. f[n - 1] \in V
    BY <1>7, <2>2, Zenon
  <2>. QED
    BY <1>3, <2>1, <2>2, <2>3, Zenon
<1>9. f = Rounds(f)
  <2>1. \A n \in 0 .. N : n # 0 => n \in 1 .. N
    BY <1>1, SMT
  <2>2. \A n \in 0 .. N : f[n] = IF n = 0 THEN <<>> ELSE TakeIn(font, f[n - 1], string[n])
    BY <1>7, <1>8, <2>1, Zenon
  <2>. QED
    BY <1>7, <2>2, Zenon
<1>10. w = Rounds(w)
  BY <1>9, Zenon
<1> HIDE DEF w
<1>11. \A n \in 0 .. N : w[n] = IF n = 0 THEN <<>> ELSE TakeIn(font, w[n - 1], string[n])
  BY <1>10, Zenon
<1>12. 0 \in 0 .. N /\ N \in 0 .. N /\ \A n \in 1 .. N : n \in 0 .. N /\ n # 0
  BY <1>1, SMT
<1> DEFINE S == {n \in Nat : w[n] \in V}
<1>13. 0 \in S
  BY <1>5, <1>11, <1>12, SMT
<1>14. ASSUME NEW n \in 1 .. N, n - 1 \in S PROVE n \in S
  <2>1. w[n] = TakeIn(font, w[n - 1], string[n]) /\ w[n - 1] \in V
    BY <1>11, <1>12, <1>14, Zenon
  <2>2. n \in Nat
    BY SMT
  <2>. QED
    BY <1>2, <2>1, <2>2, TakeInIs, Zenon DEF V
<1>15. 0 .. N \subseteq S
  <2> HIDE DEF S
  <2>. QED
    BY <1>1, <1>13, <1>14, InductionUpTo, Zenon
<1>16. w[N] \in V
  BY <1>12, <1>15, Zenon
<1>17. Ligated(font, string) = w[N]
  BY Zenon DEF Ligated, w, N
<1>. QED
  BY <1>16, <1>17, Zenon DEF V

-----------------------------------------------------------------------------
(* Measuring goes along with drawing.                                      *)
Along(font, b, d) ==
  /\ b.placed = d.placed /\ b.x = d.x /\ b.left = d.left /\ b.width = d.width /\ b.top = d.top
  /\ b.advance = d.advance
  /\ d.prev = NoCharacter => d.advance = 0
  /\ b.prev = d.prev \/ (b.prev = NoCharacter /\ d.advance = 0 /\ ~ HasGlyph(font, d.prev))

(* Measuring and drawing start alike.                                      *)
LEMMA StartsAlong ==
  ASSUME NEW font
  PROVE  Along(font, Start, Start)
<1>1. Start.advance = 0
  BY Zenon DEF Start, NoBase
<1>. QED
  BY <1>1, Zenon DEF Along

(* Both step to the same pixel, although measuring has forgotten the       *)
(* character before a base without a glyph.                                *)
LEMMA StepsAre ==
  ASSUME NEW font, IsFont(font), NEW A, NEW b \in States(A), NEW d \in States(A), NEW c, Along(font, b, d)
  PROVE  /\ b.x + StepOf(font, b, c) = d.x + StepOf(font, d, c)
         /\ ~ HasGlyph(font, c) => b.x + ToPixel(b.advance) = d.x + StepOf(font, d, c)
<1>1. d.x \in Int /\ d.advance \in Int
  BY SMT DEF States
<1>2. b.x = d.x /\ b.advance = d.advance
  BY Zenon DEF Along
<1>3. Kern(font, d.prev, c) \in Int
  BY KernIs, Zenon
<1>4. StepOf(font, d, c) = IF d.prev = NoCharacter THEN 0 ELSE ToPixel(d.advance + Kern(font, d.prev, c))
  BY Zenon DEF StepOf
<1>5. d.advance + 0 = d.advance /\ 0 + 0 = 0
  BY <1>1, SMT
<1>6. StepOf(font, b, c) = StepOf(font, d, c)
  <2>1. CASE b.prev = d.prev
    BY <1>2, <2>1, Zenon DEF StepOf
  <2>2. CASE b.prev = NoCharacter /\ d.advance = 0 /\ ~ HasGlyph(font, d.prev)
    <3>1. StepOf(font, b, c) = 0
      BY <2>2, Zenon DEF StepOf
    <3>2. Kern(font, d.prev, c) = 0
      BY <2>2, KernIs, Zenon
    <3>. QED
      BY <1>4, <1>5, <2>2, <3>1, <3>2, ToPixelIs, Zenon
  <2>. QED
    BY <2>1, <2>2, Zenon DEF Along
<1>7. ASSUME ~ HasGlyph(font, c) PROVE StepOf(font, d, c) = ToPixel(d.advance)
  <2>1. Kern(font, d.prev, c) = 0
    BY <1>7, KernIs, Zenon
  <2>2. d.prev = NoCharacter => d.advance = 0
    BY Zenon DEF Along
  <2>. QED
    BY <1>4, <1>5, <2>1, <2>2, ToPixelIs, Zenon
<1>. QED
  BY <1>2, <1>6, <1>7, Zenon

(* The fields of a state.                                                  *)
Holds(s, x, left, width, top, advance, prev, placed) ==
  /\ s.x = x /\ s.left = left /\ s.width = width /\ s.top = top
  /\ s.advance = advance /\ s.prev = prev /\ s.placed = placed

(* The fields of a state, one by one.                                      *)
LEMMA NoBaseHolds ==
  ASSUME NEW x, NEW prev, NEW placed
  PROVE  Holds(NoBase(x, prev, placed), x, 0, 0, 0, 0, prev, placed)
  BY SMT DEF Holds, NoBase

LEMMA BaseHolds ==
  ASSUME NEW s, NEW c, NEW glyph, NEW x
  PROVE  Holds(PlaceBase(s, c, glyph, x), x, glyph.left, glyph.width, glyph.top, glyph.advance, c,
               Place(s, c, glyph, x, 0).placed)
<1>1. PICK q : q = Place(s, c, glyph, x, 0).placed
  BY Zenon
<1>2. PlaceBase(s, c, glyph, x) =
        [x |-> x, left |-> glyph.left, width |-> glyph.width, top |-> glyph.top,
         advance |-> glyph.advance, prev |-> c, placed |-> q]
  BY <1>1, Zenon DEF PlaceBase
<1>3. Holds(PlaceBase(s, c, glyph, x), x, glyph.left, glyph.width, glyph.top, glyph.advance, c, q)
  BY <1>2, SMT DEF Holds
<1>. QED
  BY <1>1, <1>3, Zenon

LEMMA PlaceHolds ==
  ASSUME NEW A, NEW s \in States(A), NEW c, NEW glyph, NEW x, NEW y
  PROVE  Holds(Place(s, c, glyph, x, y), s.x, s.left, s.width, s.top, s.advance, s.prev,
               Append(s.placed, [c |-> c, glyph |-> glyph, x |-> x, y |-> y]))
<1>1. PICK q : q = Append(s.placed, [c |-> c, glyph |-> glyph, x |-> x, y |-> y])
  BY Zenon
<1>2. Place(s, c, glyph, x, y) = [s EXCEPT !.placed = q]
  BY <1>1, Zenon DEF Place
<1>3. Holds([s EXCEPT !.placed = q], s.x, s.left, s.width, s.top, s.advance, s.prev, q)
  BY SMT DEF States, Holds
<1>. QED
  BY <1>1, <1>2, <1>3, Zenon

(* A step of getTextBounds() goes along with one of drawText()             *)
(* (GfxRenderer.cpp:215-274, EpdFont.cpp:7-72).                            *)
LEMMA BoundsGoAlong ==
  ASSUME NEW font, IsFont(font), NEW A, NEW b \in States(A), NEW d \in States(A), NEW c \in A, c # NoCharacter,
         Along(font, b, d)
  PROVE  Along(font, StepBy("bounds", font, b, c), StepBy("draw", font, d, c))
<1>0. StepBy("bounds", font, b, c) = BoundsStep(font, b, c) /\ StepBy("draw", font, d, c) = DrawStep(font, d, c)
  BY SMT DEF StepBy
<1>1. /\ b.placed = d.placed /\ b.x = d.x /\ b.left = d.left /\ b.width = d.width /\ b.top = d.top
      /\ b.advance = d.advance
  BY Zenon DEF Along
<1>7. /\ b.x + StepOf(font, b, c) = d.x + StepOf(font, d, c)
      /\ ~ HasGlyph(font, c) => b.x + ToPixel(b.advance) = d.x + StepOf(font, d, c)
  BY StepsAre
<1>2. PICK x : x = b.x + StepOf(font, b, c) /\ x = d.x + StepOf(font, d, c)
  BY <1>7, Zenon
<1>3. CASE IsCombining(c) /\ ~ HasGlyph(font, c)
  BY <1>0, <1>3, Zenon DEF DrawStep, BoundsStep
<1>4. CASE IsCombining(c) /\ HasGlyph(font, c)
  <2>1. PICK mark, u, v : /\ mark = Glyph(font, c) /\ u = CenterOver(d.x, d.left, d.width, mark)
                          /\ v = RaiseAboveBase(mark, d.top)
    BY Zenon
  <2>2. DrawStep(font, d, c) = Place(d, c, mark, u, v) /\ BoundsStep(font, b, c) = Place(b, c, mark, u, v)
    BY <1>1, <1>4, <2>1, Zenon DEF DrawStep, BoundsStep, PlaceMark
  <2>3. PICK q : q = Append(d.placed, [c |-> c, glyph |-> mark, x |-> u, y |-> v])
    BY Zenon
  <2>4. Holds(Place(d, c, mark, u, v), d.x, d.left, d.width, d.top, d.advance, d.prev, q)
    BY <2>3, PlaceHolds, Zenon
  <2>5. Holds(Place(b, c, mark, u, v), b.x, b.left, b.width, b.top, b.advance, b.prev, q)
    BY <1>1, <2>3, PlaceHolds, Zenon
  <2>. QED
    BY <1>0, <2>2, <2>4, <2>5, Zenon DEF Along, Holds
<1>5. CASE ~ IsCombining(c) /\ HasGlyph(font, c)
  <2>1. PICK glyph : glyph = Glyph(font, c)
    BY Zenon
  <2>2. DrawStep(font, d, c) = PlaceBase(d, c, glyph, x) /\ BoundsStep(font, b, c) = PlaceBase(b, c, glyph, x)
    BY <1>2, <1>5, <2>1, Zenon DEF DrawStep, BoundsStep
  <2>3. PICK q : q = Append(d.placed, [c |-> c, glyph |-> glyph, x |-> x, y |-> 0])
    BY Zenon
  <2>4. Holds(Place(d, c, glyph, x, 0), d.x, d.left, d.width, d.top, d.advance, d.prev, q)
    BY <2>3, PlaceHolds, Zenon
  <2>5. Holds(Place(b, c, glyph, x, 0), b.x, b.left, b.width, b.top, b.advance, b.prev, q)
    BY <1>1, <2>3, PlaceHolds, Zenon
  <2>8. Place(d, c, glyph, x, 0).placed = q /\ Place(b, c, glyph, x, 0).placed = q
    BY <2>4, <2>5, Zenon DEF Holds
  <2>6. Holds(PlaceBase(d, c, glyph, x), x, glyph.left, glyph.width, glyph.top, glyph.advance, c, q)
    <3>1. Holds(PlaceBase(d, c, glyph, x), x, glyph.left, glyph.width, glyph.top, glyph.advance, c,
                Place(d, c, glyph, x, 0).placed)
      BY BaseHolds, Zenon
    <3>. QED
      BY <2>8, <3>1, Zenon
  <2>7. Holds(PlaceBase(b, c, glyph, x), x, glyph.left, glyph.width, glyph.top, glyph.advance, c, q)
    <3>1. Holds(PlaceBase(b, c, glyph, x), x, glyph.left, glyph.width, glyph.top, glyph.advance, c,
                Place(b, c, glyph, x, 0).placed)
      BY BaseHolds, Zenon
    <3>. QED
      BY <2>8, <3>1, Zenon
  <2>. QED
    BY <1>0, <2>2, <2>6, <2>7, Zenon DEF Along, Holds
<1>6. CASE ~ IsCombining(c) /\ ~ HasGlyph(font, c)
  <2>1. b.x + ToPixel(b.advance) = x
    BY <1>2, <1>6, <1>7, Zenon
  <2>2. DrawStep(font, d, c) = NoBase(x, c, d.placed) /\ BoundsStep(font, b, c) = NoBase(x, NoCharacter, b.placed)
    BY <1>2, <1>6, <2>1, Zenon DEF DrawStep, BoundsStep
  <2>. QED
    <3>1. Holds(NoBase(x, c, d.placed), x, 0, 0, 0, 0, c, d.placed)
      BY NoBaseHolds, Zenon
    <3>2. Holds(NoBase(x, NoCharacter, b.placed), x, 0, 0, 0, 0, NoCharacter, b.placed)
      BY NoBaseHolds, Zenon
    <3>. QED
      BY <1>0, <1>1, <1>6, <2>2, <3>1, <3>2, Zenon DEF Along, Holds
<1>. QED
  BY <1>3, <1>4, <1>5, <1>6, Zenon

(* And so does the advance.                                                *)
AsFar(a, d) == a.x = d.x /\ a.advance = d.advance /\ a.prev = d.prev

LEMMA AdvanceGoesAlong ==
  ASSUME NEW font, IsFont(font), NEW A, NEW a \in States(A), NEW d \in States(A), NEW c \in A, AsFar(a, d)
  PROVE  AsFar(StepBy("advance", font, a, c), StepBy("draw", font, d, c))
<1>0. StepBy("advance", font, a, c) = AdvanceStep(font, a, c) /\ StepBy("draw", font, d, c) = DrawStep(font, d, c)
  BY SMT DEF StepBy
<1>1. a.x = d.x /\ a.advance = d.advance /\ a.prev = d.prev
  BY Zenon DEF AsFar
<1>2. PICK x : x = a.x + StepOf(font, a, c) /\ x = d.x + StepOf(font, d, c)
  BY <1>1, Zenon DEF StepOf
<1>3. CASE IsCombining(c)
  <2>1. PICK mark, u, v : /\ mark = Glyph(font, c) /\ u = CenterOver(d.x, d.left, d.width, mark)
                          /\ v = RaiseAboveBase(mark, d.top)
    BY Zenon
  <2>2. DrawStep(font, d, c) = IF HasGlyph(font, c) THEN Place(d, c, mark, u, v) ELSE d
    BY <1>3, <2>1, Zenon DEF DrawStep, PlaceMark
  <2>3. Place(d, c, mark, u, v).x = d.x /\ Place(d, c, mark, u, v).advance = d.advance
        /\ Place(d, c, mark, u, v).prev = d.prev
    <3>1. Holds(Place(d, c, mark, u, v), d.x, d.left, d.width, d.top, d.advance, d.prev,
               Append(d.placed, [c |-> c, glyph |-> mark, x |-> u, y |-> v]))
      BY PlaceHolds, Zenon
    <3>. QED
      BY <3>1, Zenon DEF Holds
  <2>4. AdvanceStep(font, a, c) = a
    BY <1>3, Zenon DEF AdvanceStep
  <2>. QED
    BY <1>0, <1>1, <2>2, <2>3, <2>4, Zenon DEF AsFar
<1>4. CASE ~ IsCombining(c)
  <2>1. PICK glyph, n : glyph = Glyph(font, c) /\ n = NoBase(x, c, a.placed)
    BY Zenon
  <2>2. DrawStep(font, d, c) = IF HasGlyph(font, c) THEN PlaceBase(d, c, glyph, x) ELSE NoBase(x, c, d.placed)
    BY <1>2, <1>4, <2>1, Zenon DEF DrawStep
  <2>3. PICK w : w = IF HasGlyph(font, c) THEN glyph.advance ELSE 0
    BY Zenon
  <2>4. AdvanceStep(font, a, c) = [n EXCEPT !.advance = w]
    BY <1>2, <1>4, <2>1, <2>3, Zenon DEF AdvanceStep
  <2>5. [n EXCEPT !.advance = w].advance = w /\ [n EXCEPT !.advance = w].x = x /\ [n EXCEPT !.advance = w].prev = c
    BY <2>1, SMT DEF NoBase
  <2>6. Holds(PlaceBase(d, c, glyph, x), x, glyph.left, glyph.width, glyph.top, glyph.advance, c,
              Place(d, c, glyph, x, 0).placed)
    BY BaseHolds, Zenon
  <2>7. Holds(NoBase(x, c, d.placed), x, 0, 0, 0, 0, c, d.placed)
    BY NoBaseHolds, Zenon
  <2>8. CASE HasGlyph(font, c)
    <3>1. w = glyph.advance /\ DrawStep(font, d, c) = PlaceBase(d, c, glyph, x)
      BY <2>2, <2>3, <2>8, Zenon
    <3>2. /\ PlaceBase(d, c, glyph, x).x = x /\ PlaceBase(d, c, glyph, x).advance = glyph.advance
          /\ PlaceBase(d, c, glyph, x).prev = c
      BY <2>6, Zenon DEF Holds
    <3>. QED
      BY <1>0, <2>4, <2>5, <3>1, <3>2, Zenon DEF AsFar
  <2>9. CASE ~ HasGlyph(font, c)
    <3>1. w = 0 /\ DrawStep(font, d, c) = NoBase(x, c, d.placed)
      BY <2>2, <2>3, <2>9, Zenon
    <3>2. /\ NoBase(x, c, d.placed).x = x /\ NoBase(x, c, d.placed).advance = 0
          /\ NoBase(x, c, d.placed).prev = c
      BY <2>7, Zenon DEF Holds
    <3>. QED
      BY <1>0, <2>4, <2>5, <3>1, <3>2, Zenon DEF AsFar
  <2>. QED
    BY <2>8, <2>9, Zenon
<1>. QED
  BY <1>3, <1>4, Zenon

(* Turning: what is placed at (x, y) along the line is placed at (-y, -x)  *)
(* along the turned one, whose places fall.                                *)
RowIsTurned(u, v) ==
  /\ Len(u) = Len(v)
  /\ \A i \in 1 .. Len(v) : /\ u[i].glyph = v[i].glyph
                            /\ u[i].x = - v[i].y
                            /\ u[i].y = - v[i].x

Turns(t, d) ==
  /\ t.x = - d.x /\ t.left = d.left /\ t.width = d.width /\ t.top = d.top
  /\ t.advance = d.advance /\ t.prev = d.prev
  /\ RowIsTurned(t.placed, d.placed)

LEMMA StartsTurned == Turns(Start, Start)
<1>1. Start = [x |-> 0, left |-> 0, width |-> 0, top |-> 0, advance |-> 0, prev |-> NoCharacter, placed |-> <<>>]
  BY Zenon DEF Start, NoBase
<1>2. Start.x = 0 /\ Start.placed = <<>>
  BY <1>1, Zenon
<1>3. 0 = - 0
  <2>1. \A n \in Int : - n = 0 - n
    BY SMT
  <2>2. 0 \in Int /\ 0 - 0 = 0
    BY SMT
  <2>. QED
    BY <2>1, <2>2, Zenon
<1>4. RowIsTurned(<<>>, <<>>)
  BY SMT DEF RowIsTurned
<1>. QED
  BY <1>2, <1>3, <1>4, Zenon DEF Turns

LEMMA RowStaysTurned ==
  ASSUME NEW A, NEW u \in Seq(Spots(A)), NEW v \in Seq(Spots(A)), RowIsTurned(u, v),
         NEW c \in A, NEW glyph \in GlyphRecords, NEW x \in Int, NEW y \in Int,
         NEW tx \in Int, tx = - y, NEW ty \in Int, ty = - x
  PROVE  RowIsTurned(Append(u, [c |-> c, glyph |-> glyph, x |-> tx, y |-> ty]),
                     Append(v, [c |-> c, glyph |-> glyph, x |-> x, y |-> y]))
<1>0. \A a, b \in Int : [c |-> c, glyph |-> glyph, x |-> a, y |-> b] \in Spots(A)
  BY Zenon DEF Spots
<1>1. PICK e \in Spots(A) : e = [c |-> c, glyph |-> glyph, x |-> tx, y |-> ty]
  BY <1>0, Zenon
<1>2. PICK f \in Spots(A) : f = [c |-> c, glyph |-> glyph, x |-> x, y |-> y]
  BY <1>0, Zenon
<1>3. e.glyph = f.glyph /\ e.x = - f.y /\ e.y = - f.x
  BY <1>1, <1>2, SMT
<1>4. /\ Len(u) \in Nat /\ Len(v) = Len(u)
      /\ \A i \in 1 .. Len(v) : u[i].glyph = v[i].glyph /\ u[i].x = - v[i].y /\ u[i].y = - v[i].x
  BY LenProperties, Zenon DEF RowIsTurned
<1>5. PICK n \in Nat : n = Len(u) /\ n = Len(v)
  BY <1>4, Zenon
<1>6. /\ Len(Append(u, e)) = n + 1 /\ Append(u, e)[n + 1] = e
      /\ \A i \in 1 .. n : Append(u, e)[i] = u[i]
  <2>1. /\ Len(Append(u, e)) = Len(u) + 1
        /\ \A i \in 1 .. Len(u) : Append(u, e)[i] = u[i]
        /\ Append(u, e)[Len(u) + 1] = e
    BY AppendProperties
  <2>. QED
    BY <1>5, <2>1, Zenon
<1>7. /\ Len(Append(v, f)) = n + 1 /\ Append(v, f)[n + 1] = f
      /\ \A i \in 1 .. n : Append(v, f)[i] = v[i]
  <2>1. /\ Len(Append(v, f)) = Len(v) + 1
        /\ \A i \in 1 .. Len(v) : Append(v, f)[i] = v[i]
        /\ Append(v, f)[Len(v) + 1] = f
    BY AppendProperties
  <2>. QED
    BY <1>5, <2>1, Zenon
<1>8. \A i \in 1 .. n + 1 : i \in 1 .. n \/ i = n + 1
  BY SMT
<1>9. RowIsTurned(Append(u, e), Append(v, f))
  BY <1>3, <1>4, <1>5, <1>6, <1>7, <1>8, Zenon DEF RowIsTurned
<1>. QED
  BY <1>1, <1>2, <1>9, Zenon

(* A mark that is centred over its base is so when both are turned: each   *)
(* term of its place changes sign.                                         *)
LEMMA CentreTurns ==
  ASSUME NEW x \in Int, NEW left \in Int, NEW width \in Int, NEW mark \in GlyphRecords
  PROVE  CenterOverRotated90CW(- x, left, width, mark) = - CenterOver(x, left, width, mark)
<1>1. mark.width \in Int /\ mark.left \in Int
  BY SMT DEF GlyphRecords
<1>2. PICK w \in Int, l \in Int : w = mark.width \div 2 /\ l = mark.left
  BY <1>1, SMT
<1>3. PICK h \in Int : h = width \div 2
  BY SMT
<1>4. CenterOverRotated90CW(- x, left, width, mark) = - x - left - h + w + l
  BY <1>2, <1>3, Zenon DEF CenterOverRotated90CW
<1>5. CenterOver(x, left, width, mark) = x + left + h - w - l
  BY <1>2, <1>3, Zenon DEF CenterOver
<1>. QED
  BY <1>4, <1>5, SMT

(* A step of drawTextRotated90CW() is one of drawText(), turned            *)
(* (GfxRenderer.cpp:215-274, 1106-1161).                                   *)
LEMMA TurnedGoesAlong ==
  ASSUME NEW font, IsFont(font), NEW A, NEW t \in States(A), NEW d \in States(A), NEW c \in A, Turns(t, d)
  PROVE  Turns(StepBy("turned", font, t, c), StepBy("draw", font, d, c))
<1>0. StepBy("turned", font, t, c) = TurnedStep(font, t, c) /\ StepBy("draw", font, d, c) = DrawStep(font, d, c)
  BY SMT DEF StepBy
<1>1. /\ t.x = - d.x /\ t.left = d.left /\ t.width = d.width /\ t.top = d.top
      /\ t.advance = d.advance /\ t.prev = d.prev /\ RowIsTurned(t.placed, d.placed)
  BY Zenon DEF Turns
<1>2. /\ d.x \in Int /\ d.left \in Int /\ d.width \in Int /\ d.top \in Int /\ t.x \in Int
      /\ d.placed \in Seq(Spots(A)) /\ t.placed \in Seq(Spots(A))
  BY SMT DEF States
<1>3. PICK n \in Int : n = StepOf(font, d, c) /\ n = StepOf(font, t, c)
  <2>1. StepOf(font, d, c) = StepOf(font, t, c)
    BY <1>1, Zenon DEF StepOf
  <2>. QED
    BY <2>1, StepIs, Zenon
<1>4. PICK x \in Int, y \in Int : x = d.x + n /\ y = t.x - n /\ y = - x /\ x = d.x + StepOf(font, d, c)
                                /\ y = t.x - StepOf(font, t, c)
  <2>1. d.x + n \in Int /\ t.x - n \in Int /\ t.x - n = - (d.x + n)
    BY <1>1, <1>2, SMT
  <2>. QED
    BY <1>3, <2>1, Zenon
<1>5. PICK glyph : glyph = Glyph(font, c)
  BY Zenon
<1>6. CASE IsCombining(c) /\ ~ HasGlyph(font, c)
  BY <1>0, <1>6, Zenon DEF TurnedStep, DrawStep
<1>7. CASE IsCombining(c) /\ HasGlyph(font, c)
  <2>1. glyph \in GlyphRecords
    BY <1>5, <1>7, GlyphIs, Zenon
  <2>2. glyph.width \in Int /\ glyph.left \in Int /\ glyph.top \in Int /\ glyph.height \in Int
    BY <2>1, SMT DEF GlyphRecords
  <2>3. CenterOver(d.x, d.left, d.width, glyph) \in Int /\ RaiseAboveBase(glyph, d.top) \in Int
    <3>1. d.x \in Int /\ d.left \in Int /\ d.width \in Int /\ d.top \in Int
      BY <1>2, Zenon
    <3>2. CenterOver(d.x, d.left, d.width, glyph) \in Int
      BY <2>2, <3>1, SMT DEF CenterOver
    <3>3. RaiseAboveBase(glyph, d.top) \in Int
      BY <2>2, <3>1, SMT DEF RaiseAboveBase
    <3>. QED
      BY <3>2, <3>3, Zenon
  <2>4. PICK u \in Int, v \in Int : u = CenterOver(d.x, d.left, d.width, glyph) /\ v = RaiseAboveBase(glyph, d.top)
    BY <2>3, Zenon
  <2>5. PICK tu \in Int, tv \in Int : tu = - v /\ tv = - u
    <3>1. - v \in Int /\ - u \in Int
      BY <2>4, SMT
    <3>. QED
      BY <3>1, Zenon
  <2>6. CenterOverRotated90CW(t.x, t.left, t.width, glyph) = tv
    <3>1. d.x \in Int /\ t.x \in Int /\ t.x = - d.x /\ d.left \in Int /\ d.width \in Int
      BY <1>1, <1>2, Zenon
    <3>2. CenterOverRotated90CW(t.x, d.left, d.width, glyph) = - CenterOver(d.x, d.left, d.width, glyph)
      <4>1. CenterOverRotated90CW(- d.x, d.left, d.width, glyph) = - CenterOver(d.x, d.left, d.width, glyph)
        BY <2>1, <3>1, CentreTurns
      <4>. QED
        BY <3>1, <4>1, Zenon
    <3>. QED
      BY <1>1, <2>4, <2>5, <3>2, Zenon
  <2>7. - RaiseAboveBase(glyph, t.top) = tu
    BY <1>1, <2>4, <2>5, Zenon
  <2>8. DrawStep(font, d, c) = Place(d, c, glyph, u, v)
    BY <1>5, <1>7, <2>4, Zenon DEF DrawStep, PlaceMark
  <2>9. TurnedStep(font, t, c) = Place(t, c, glyph, tu, tv)
    BY <1>5, <1>7, <2>6, <2>7, Zenon DEF TurnedStep
  <2>10. PICK q, r : /\ q = Append(d.placed, [c |-> c, glyph |-> glyph, x |-> u, y |-> v])
                     /\ r = Append(t.placed, [c |-> c, glyph |-> glyph, x |-> tu, y |-> tv])
    BY Zenon
  <2>11. RowIsTurned(r, q)
    BY <1>1, <1>2, <2>1, <2>5, <2>10, RowStaysTurned, Zenon
  <2>12. Holds(Place(d, c, glyph, u, v), d.x, d.left, d.width, d.top, d.advance, d.prev, q)
    BY <2>10, PlaceHolds, Zenon
  <2>13. Holds(Place(t, c, glyph, tu, tv), t.x, t.left, t.width, t.top, t.advance, t.prev, r)
    BY <2>10, PlaceHolds, Zenon
  <2>. QED
    BY <1>0, <1>1, <2>8, <2>9, <2>11, <2>12, <2>13, Zenon DEF Turns, Holds
<1>8. CASE ~ IsCombining(c) /\ HasGlyph(font, c)
  <2>1. glyph \in GlyphRecords
    BY <1>5, <1>8, GlyphIs, Zenon
  <2>2. PICK z \in Int : z = 0 /\ z = - z
    BY SMT
  <2>3. PICK q, r : /\ q = Append(d.placed, [c |-> c, glyph |-> glyph, x |-> x, y |-> z])
                    /\ r = Append(t.placed, [c |-> c, glyph |-> glyph, x |-> z, y |-> y])
    BY Zenon
  <2>4. RowIsTurned(r, q)
    BY <1>1, <1>2, <1>4, <2>1, <2>2, <2>3, RowStaysTurned, Zenon
  <2>5. Place(d, c, glyph, x, 0).placed = q
    <3>1. Holds(Place(d, c, glyph, x, z), d.x, d.left, d.width, d.top, d.advance, d.prev, q)
      BY <2>3, PlaceHolds, Zenon
    <3>. QED
      BY <2>2, <3>1, Zenon DEF Holds
  <2>6. Place(t, c, glyph, 0, y).placed = r
    <3>1. Holds(Place(t, c, glyph, z, y), t.x, t.left, t.width, t.top, t.advance, t.prev, r)
      BY <2>3, PlaceHolds, Zenon
    <3>. QED
      BY <2>2, <3>1, Zenon DEF Holds
  <2>7. Holds(PlaceBase(d, c, glyph, x), x, glyph.left, glyph.width, glyph.top, glyph.advance, c, q)
    BY <2>5, BaseHolds, Zenon
  <2>8. PICK b \in States(A) : b = PlaceBase(t, c, glyph, y)
    BY <2>1, BaseIsState, Zenon
  <2>9. Holds(b, y, glyph.left, glyph.width, glyph.top, glyph.advance, c, b.placed)
    <3>1. Holds(PlaceBase(t, c, glyph, y), y, glyph.left, glyph.width, glyph.top, glyph.advance, c,
                Place(t, c, glyph, y, 0).placed)
      BY BaseHolds, Zenon
    <3>. QED
      BY <2>8, <3>1, Zenon DEF Holds
  <2>10. DrawStep(font, d, c) = PlaceBase(d, c, glyph, x)
    BY <1>4, <1>5, <1>8, Zenon DEF DrawStep
  <2>11. TurnedStep(font, t, c) = [b EXCEPT !.placed = r]
    BY <1>4, <1>5, <1>8, <2>6, <2>8, Zenon DEF TurnedStep
  <2>12. Holds([b EXCEPT !.placed = r], b.x, b.left, b.width, b.top, b.advance, b.prev, r)
    BY SMT DEF States, Holds
  <2>13. Holds(TurnedStep(font, t, c), y, glyph.left, glyph.width, glyph.top, glyph.advance, c, r)
    BY <2>9, <2>11, <2>12, Zenon DEF Holds
  <2>14. Holds(DrawStep(font, d, c), x, glyph.left, glyph.width, glyph.top, glyph.advance, c, q)
    BY <2>7, <2>10, Zenon
  <2>. QED
    BY <1>0, <1>4, <2>4, <2>13, <2>14, Zenon DEF Turns, Holds
<1>9. CASE ~ IsCombining(c) /\ ~ HasGlyph(font, c)
  <2>1. DrawStep(font, d, c) = NoBase(x, c, d.placed) /\ TurnedStep(font, t, c) = NoBase(y, c, t.placed)
    BY <1>4, <1>9, Zenon DEF DrawStep, TurnedStep
  <2>2. Holds(NoBase(x, c, d.placed), x, 0, 0, 0, 0, c, d.placed)
    BY NoBaseHolds, Zenon
  <2>3. Holds(NoBase(y, c, t.placed), y, 0, 0, 0, 0, c, t.placed)
    BY NoBaseHolds, Zenon
  <2>. QED
    BY <1>0, <1>1, <1>4, <2>1, <2>2, <2>3, Zenon DEF Turns, Holds
<1>. QED
  BY <1>6, <1>7, <1>8, <1>9, Zenon

(* So do walks along the same letters, letter by letter.                   *)
LEMMA WalksGoAlong ==
  ASSUME NEW font, IsFont(font), NEW A, NoCharacter \notin A, NEW letters \in Seq(A),
         NEW b, IsWalk("bounds", font, A, letters, b), NEW a, IsWalk("advance", font, A, letters, a),
         NEW d, IsWalk("draw", font, A, letters, d), NEW t, IsWalk("turned", font, A, letters, t)
  PROVE  /\ Along(font, b[Len(letters)], d[Len(letters)])
         /\ AsFar(a[Len(letters)], d[Len(letters)])
         /\ Turns(t[Len(letters)], d[Len(letters)])
<1> DEFINE N == Len(letters)
           S == {n \in 0 .. N : Along(font, b[n], d[n]) /\ AsFar(a[n], d[n]) /\ Turns(t[n], d[n])}
<1>1. N \in Nat
  BY LenProperties, Zenon
<1>2. \A n \in 1 .. N : letters[n] \in A /\ letters[n] # NoCharacter
  BY ElementOfSeq, Zenon
<1>3. \A n \in 0 .. N : b[n] \in States(A) /\ a[n] \in States(A) /\ d[n] \in States(A) /\ t[n] \in States(A)
  BY Zenon DEF IsWalk
<1>4. /\ b[0] = Start /\ a[0] = Start /\ d[0] = Start /\ t[0] = Start
      /\ \A n \in 1 .. N : /\ b[n] = StepBy("bounds", font, b[n - 1], letters[n])
                           /\ a[n] = StepBy("advance", font, a[n - 1], letters[n])
                           /\ d[n] = StepBy("draw", font, d[n - 1], letters[n])
                           /\ t[n] = StepBy("turned", font, t[n - 1], letters[n])
  BY Zenon DEF IsWalk
<1> HIDE DEF N
<1>5. 0 \in S
  <2>1. 0 \in 0 .. N
    BY <1>1, SMT
  <2>. QED
    BY <1>4, <2>1, StartsAlong, StartsTurned, Zenon DEF AsFar
<1>6. ASSUME NEW n \in 1 .. N, n - 1 \in S PROVE n \in S
  <2>1. n - 1 \in 0 .. N /\ n \in 0 .. N
    BY <1>1, SMT
  <2>2. PICK m \in 0 .. N : m = n - 1
    BY <2>1, Zenon
  <2>3. b[m] \in States(A) /\ a[m] \in States(A) /\ d[m] \in States(A) /\ t[m] \in States(A)
    BY <1>3, Zenon
  <2>4. Along(font, b[m], d[m]) /\ AsFar(a[m], d[m]) /\ Turns(t[m], d[m])
    BY <1>6, <2>2, Zenon
  <2>5. PICK c \in A : c = letters[n] /\ c # NoCharacter
    BY <1>2, Zenon
  <2>6. Along(font, StepBy("bounds", font, b[m], c), StepBy("draw", font, d[m], c))
    BY <2>3, <2>4, <2>5, BoundsGoAlong, Zenon
  <2>7. AsFar(StepBy("advance", font, a[m], c), StepBy("draw", font, d[m], c))
    BY <2>3, <2>4, AdvanceGoesAlong, Zenon
  <2>8. Turns(StepBy("turned", font, t[m], c), StepBy("draw", font, d[m], c))
    BY <2>3, <2>4, TurnedGoesAlong, Zenon
  <2>. QED
    BY <1>4, <2>1, <2>2, <2>5, <2>6, <2>7, <2>8, Zenon
<1> HIDE DEF S
<1>7. 0 .. N \subseteq S
  BY <1>1, <1>5, <1>6, InductionUpTo, Zenon
<1>8. N \in 0 .. N
  BY <1>1, SMT
<1>9. N \in S
  BY <1>7, <1>8, Zenon
<1>. QED
  BY <1>9, Zenon DEF S, N

(* No ligature makes the zero that ends a text.                            *)
LEMMA NoneOfTheLetters ==
  ASSUME NEW font, IsFont(font), NEW B, NoCharacter \notin B
  PROVE  NoCharacter \notin LettersOf(font, B)
  BY Zenon DEF LettersOf, IsFont

(* And they end alike.                                                     *)
LEMMA WalksEndAlong ==
  ASSUME NEW font, IsFont(font), NEW B, NoCharacter \notin B, NEW string \in Seq(B)
  PROVE  /\ Along(font, Walk("bounds", font, string), Walk("draw", font, string))
         /\ AsFar(Walk("advance", font, string), Walk("draw", font, string))
         /\ Turns(Walk("turned", font, string), Walk("draw", font, string))
         /\ \A how \in Hows : Walk(how, font, string) \in States(LettersOf(font, B))
<1>1. PICK A : A = LettersOf(font, B)
  BY Zenon
<1>2. NoCharacter \notin A
  BY <1>1, NoneOfTheLetters, Zenon
<1>3. PICK letters \in Seq(A) : letters = Ligated(font, string)
  BY <1>1, LigatedIs, Zenon
<1>4. "bounds" \in Hows /\ "draw" \in Hows /\ "advance" \in Hows /\ "turned" \in Hows
  BY Zenon DEF Hows
<1>5. PICK b : IsWalk("bounds", font, A, letters, b) /\ WalkAlong("bounds", font, letters) = b[Len(letters)]
  BY <1>4, WalkIs, Zenon
<1>6. PICK d : IsWalk("draw", font, A, letters, d) /\ WalkAlong("draw", font, letters) = d[Len(letters)]
  BY <1>4, WalkIs, Zenon
<1>7. PICK a : IsWalk("advance", font, A, letters, a) /\ WalkAlong("advance", font, letters) = a[Len(letters)]
  BY <1>4, WalkIs, Zenon
<1>8. \A how \in Hows : Walk(how, font, string) \in States(A)
  <2>1. Len(letters) \in 0 .. Len(letters)
    BY LenProperties, SMT
  <2>2. ASSUME NEW how \in Hows PROVE WalkAlong(how, font, letters) \in States(A)
    <3>1. PICK w : IsWalk(how, font, A, letters, w) /\ WalkAlong(how, font, letters) = w[Len(letters)]
      BY WalkIs, Zenon
    <3>. QED
      BY <2>1, <3>1, Zenon DEF IsWalk
  <2>. QED
    BY <1>3, <2>2, Zenon DEF Walk
<1>10. PICK t : IsWalk("turned", font, A, letters, t) /\ WalkAlong("turned", font, letters) = t[Len(letters)]
  BY <1>4, WalkIs, Zenon
<1>9. /\ Along(font, b[Len(letters)], d[Len(letters)]) /\ AsFar(a[Len(letters)], d[Len(letters)])
      /\ Turns(t[Len(letters)], d[Len(letters)])
  BY <1>2, <1>5, <1>6, <1>7, <1>10, WalksGoAlong, Zenon
<1>. QED
  BY <1>1, <1>3, <1>5, <1>6, <1>7, <1>8, <1>9, <1>10, Zenon DEF Walk

(* The pixels that are turned.                                             *)
LEMMA TurnedIs ==
  ASSUME NEW family, NEW style, IsFont(FaceFor(family, style)),
         family.regular.ascender \in Int, NEW B, NoCharacter \notin B, NEW string \in Seq(B), NEW mode
  PROVE  DrawTextRotated90CW(family, style, mode, 0, 0, string)
           = {<<q[2] + FaceFor(family, style).ascender - family.regular.ascender, - q[1]>> :
                q \in DrawText(family, style, mode, 0, 0, string)}
<1> DEFINE Standing(p, g) == <<0 + p.x + p.glyph.left + g[1],
                               0 + family.regular.ascender - p.y - p.glyph.top + g[2]>>
           Turned(p, g) == <<0 + p.x + FaceFor(family, style).ascender - p.glyph.top + g[2],
                             0 + p.y - p.glyph.left - g[1]>>
           Turn(q) == <<q[2] + FaceFor(family, style).ascender - family.regular.ascender, - q[1]>>
           InkAt(p) == InkedSpots(FaceFor(family, style), mode, p.glyph)
           Standings(p) == {Standing(p, g) : g \in InkAt(p)}
           Turneds(p) == {Turned(p, g) : g \in InkAt(p)}
           upright == Walk("draw", FaceFor(family, style), string).placed
           turned == Walk("turned", FaceFor(family, style), string).placed
           up == DrawText(family, style, mode, 0, 0, string)
           round == DrawTextRotated90CW(family, style, mode, 0, 0, string)
<1>0. PICK r \in Int, h \in Int : r = family.regular.ascender /\ h = FaceFor(family, style).ascender
  BY Zenon DEF IsFont
<1>1. PICK A : A = LettersOf(FaceFor(family, style), B)
  BY Zenon
<1>2. PICK end \in States(A), tend \in States(A) :
        /\ end = Walk("draw", FaceFor(family, style), string)
        /\ tend = Walk("turned", FaceFor(family, style), string)
        /\ Turns(tend, end)
  BY <1>1, WalksEndAlong, Zenon DEF Hows
<1>3. PICK dp \in Seq(Spots(A)), tp \in Seq(Spots(A)) : dp = end.placed /\ tp = tend.placed
  BY SMT DEF States
<1>4. PICK n : n = Len(dp) /\ n = Len(tp) /\ \A i \in 1 .. n : tp[i].glyph = dp[i].glyph /\ tp[i].x = - dp[i].y
                                                            /\ tp[i].y = - dp[i].x
  BY <1>2, <1>3, Zenon DEF Turns, RowIsTurned
<1>5. \A i \in 1 .. n : dp[i] \in Spots(A) /\ tp[i] \in Spots(A)
  BY <1>4, ElementOfSeq, Zenon
<1>6. /\ \A e : e \in ToSet(dp) <=> \E i \in 1 .. n : e = dp[i]
      /\ \A e : e \in ToSet(tp) <=> \E i \in 1 .. n : e = tp[i]
  <2>1. DOMAIN dp = 1 .. n /\ DOMAIN tp = 1 .. n
    BY <1>4, LenProperties, Zenon
  <2>. QED
    BY <2>1, Zenon DEF ToSet
<1>7. ASSUME NEW i \in 1 .. n, NEW g \in InkAt(dp[i])
      PROVE  Turned(tp[i], g) = Turn(Standing(dp[i], g))
  <2>1. g \in (0 .. dp[i].glyph.width - 1) \X (0 .. dp[i].glyph.height - 1)
    BY <1>7, Zenon DEF InkedSpots
  <2>2. PICK d \in Spots(A) : d = dp[i]
    BY <1>5, Zenon
  <2>3. PICK glyph \in GlyphRecords : glyph = d.glyph
    <3>1. d.glyph \in GlyphRecords
      BY Zenon DEF Spots
    <3>. QED
      BY <3>1, Zenon
  <2>4. d.x \in Int /\ d.y \in Int
    BY Zenon DEF Spots
  <2>12. glyph.left \in Int /\ glyph.top \in Int /\ glyph.width \in Nat /\ glyph.height \in Nat
    BY Zenon DEF GlyphRecords
  <2>13. g \in (0 .. glyph.width - 1) \X (0 .. glyph.height - 1)
    BY <2>1, <2>2, <2>3, Zenon
  <2>14. g[1] \in Int /\ g[2] \in Int
    BY <2>12, <2>13, SMT
  <2>5. PICK u \in Int, v \in Int : u = g[1] /\ v = g[2]
    BY <2>14, Zenon
  <2>6. PICK x \in Int, y \in Int, l \in Int, t \in Int :
          x = dp[i].x /\ y = dp[i].y /\ l = dp[i].glyph.left /\ t = dp[i].glyph.top
    BY <2>2, <2>3, <2>4, <2>12, Zenon
  <2>7. /\ 0 + (- y) + h - t + v = 0 + r - y - t + v + h - r
        /\ 0 + (- x) - l - u = - (0 + x + l + u)
    BY SMT
  <2>8. tp[i].x = - y /\ tp[i].y = - x /\ tp[i].glyph.left = l /\ tp[i].glyph.top = t
    BY <1>4, <2>6, Zenon
  <2>9. Turned(tp[i], g) = <<0 + (- y) + h - t + v, 0 + (- x) - l - u>>
    BY <1>0, <2>5, <2>8, Zenon
  <2>10. Standing(dp[i], g) = <<0 + x + l + u, 0 + r - y - t + v>>
    BY <1>0, <2>5, <2>6, Zenon
  <2>11. \A a, b : Turn(<<a, b>>) = <<b + h - r, - a>>
    BY <1>0, Zenon
  <2> HIDE DEF Standing, Turned, Turn
  <2>. QED
    BY <2>7, <2>9, <2>10, <2>11, Zenon
<1>8. up = UNION {Standings(p) : p \in ToSet(upright)}
  BY Zenon DEF DrawText
<1>9. round = UNION {Turneds(p) : p \in ToSet(turned)}
  BY Zenon DEF DrawTextRotated90CW
<1>10. upright = dp /\ turned = tp
  BY <1>2, <1>3, Zenon
<1> HIDE DEF Standing, Turned, Turn, InkAt, up, round, upright, turned
<1>11. \A p, q : /\ q \in Standings(p) <=> \E g \in InkAt(p) : q = Standing(p, g)
                 /\ q \in Turneds(p) <=> \E g \in InkAt(p) : q = Turned(p, g)
  BY Zenon
<1> HIDE DEF Standings, Turneds
<1>12. \A q : q \in up <=> \E i \in 1 .. n : \E g \in InkAt(dp[i]) : q = Standing(dp[i], g)
  <2>1. \A q : q \in up <=> \E p \in ToSet(dp) : q \in Standings(p)
    <3>1. PICK placed : placed = ToSet(dp)
      BY Zenon
    <3>2. up = UNION {Standings(p) : p \in placed}
      BY <1>8, <1>10, <3>1, Zenon
    <3>3. \A q : q \in up <=> \E p \in placed : q \in Standings(p)
      BY <3>2, SMT
    <3>. QED
      BY <3>1, <3>3, SMT
  <2>2. \A q : q \in up <=> \E i \in 1 .. n : q \in Standings(dp[i])
    BY <1>6, <2>1, Zenon
  <2> DEFINE ShowsUp(q, i) == \E g \in InkAt(dp[i]) : q = Standing(dp[i], g)
  <2>3. \A q, i : q \in Standings(dp[i]) <=> ShowsUp(q, i)
    BY <1>11, Zenon
  <2> HIDE DEF ShowsUp
  <2>4. \A q : q \in up <=> \E i \in 1 .. n : ShowsUp(q, i)
    BY <2>2, <2>3, Zenon
  <2>. QED
    BY <2>4, Zenon DEF ShowsUp
<1>13. \A q : q \in round <=> \E i \in 1 .. n : \E g \in InkAt(tp[i]) : q = Turned(tp[i], g)
  <2>1. \A q : q \in round <=> \E p \in ToSet(tp) : q \in Turneds(p)
    <3>1. PICK placed : placed = ToSet(tp)
      BY Zenon
    <3>2. round = UNION {Turneds(p) : p \in placed}
      BY <1>9, <1>10, <3>1, Zenon
    <3>3. \A q : q \in round <=> \E p \in placed : q \in Turneds(p)
      BY <3>2, SMT
    <3>. QED
      BY <3>1, <3>3, SMT
  <2>2. \A q : q \in round <=> \E i \in 1 .. n : q \in Turneds(tp[i])
    BY <1>6, <2>1, Zenon
  <2> DEFINE ShowsUp(q, i) == \E g \in InkAt(tp[i]) : q = Turned(tp[i], g)
  <2>3. \A q, i : q \in Turneds(tp[i]) <=> ShowsUp(q, i)
    BY <1>11, Zenon
  <2> HIDE DEF ShowsUp
  <2>4. \A q : q \in round <=> \E i \in 1 .. n : ShowsUp(q, i)
    BY <2>2, <2>3, Zenon
  <2>. QED
    BY <2>4, Zenon DEF ShowsUp
<1>14. \A i \in 1 .. n : InkAt(tp[i]) = InkAt(dp[i])
  BY <1>4, Zenon DEF InkAt
<1>15. \A q : q \in round <=> \E i \in 1 .. n : \E g \in InkAt(dp[i]) : q = Turn(Standing(dp[i], g))
  <2>1. \A i \in 1 .. n : \A g \in InkAt(dp[i]) : Turned(tp[i], g) = Turn(Standing(dp[i], g))
    BY <1>7, Zenon
  <2>2. \A q : \A i \in 1 .. n :
          (\E g \in InkAt(tp[i]) : q = Turned(tp[i], g)) <=> (\E g \in InkAt(dp[i]) : q = Turn(Standing(dp[i], g)))
    <3> TAKE q
    <3> TAKE i \in 1 .. n
    <3>1. PICK ink : ink = InkAt(dp[i]) /\ ink = InkAt(tp[i])
      BY <1>14, Zenon
    <3>2. \A g \in ink : Turned(tp[i], g) = Turn(Standing(dp[i], g))
      BY <2>1, <3>1, Zenon
    <3>3. (\E g \in ink : q = Turned(tp[i], g)) <=> (\E g \in ink : q = Turn(Standing(dp[i], g)))
      BY <3>2, Zenon
    <3>. QED
      BY <3>1, <3>3, Zenon
  <2> DEFINE Round(q, i) == \E g \in InkAt(tp[i]) : q = Turned(tp[i], g)
             Up(q, i) == \E g \in InkAt(dp[i]) : q = Turn(Standing(dp[i], g))
  <2>3. \A q : q \in round <=> \E i \in 1 .. n : Round(q, i)
    BY <1>13, Zenon
  <2>4. \A q : \A i \in 1 .. n : Round(q, i) <=> Up(q, i)
    BY <2>2, Zenon
  <2> HIDE DEF Round, Up
  <2>5. \A q : q \in round <=> \E i \in 1 .. n : Up(q, i)
    BY <2>3, <2>4, Zenon
  <2>. QED
    BY <2>5, Zenon DEF Up
<1>16. \A q : q \in round <=> \E e \in up : q = Turn(e)
  BY <1>12, <1>15, Zenon
<1>17. round = {Turn(q) : q \in up}
  BY <1>16, Zenon
<1>. QED
  BY <1>17, Zenon DEF Turn, up, round

(* Every text is drawn where it was measured, in every font: the box that  *)
(* getTextBounds() gives, getTextAdvanceX() and the turned text agree with *)
(* what drawText() draws, whatever ligatures, kerns, marks and missing     *)
(* glyphs there are, but for the height of a box with a raised mark        *)
(* (EpdFont.cpp:7-72, GfxRenderer.cpp:215-274, 1046-1161).                 *)
THEOREM AnyFontDrawsAsItMeasures ==
  ASSUME NEW family, NEW style, IsFont(FaceFor(family, style)), family.regular.ascender \in Int,
         NEW B, NoCharacter \notin B, NEW string \in Seq(B)
  PROVE  IsDrawnAsMeasured(family, style, string)
<1>0. PICK font : font = FaceFor(family, style) /\ IsFont(font)
  BY Zenon
<1>1. /\ Along(font, Walk("bounds", font, string), Walk("draw", font, string))
      /\ AsFar(Walk("advance", font, string), Walk("draw", font, string))
  BY <1>0, WalksEndAlong, Zenon
<1>2. Walk("bounds", font, string).placed = Walk("draw", font, string).placed
  BY <1>1, Zenon DEF Along
<1>3. TextAdvanceX(font, string)
        = Walk("draw", font, string).x + ToPixel(Walk("draw", font, string).advance)
  BY <1>1, Zenon DEF TextAdvanceX, AsFar
<1>4. \A mode : DrawTextRotated90CW(family, style, mode, 0, 0, string)
                  = {<<q[2] + FaceFor(family, style).ascender - family.regular.ascender, - q[1]>> :
                       q \in DrawText(family, style, mode, 0, 0, string)}
  BY TurnedIs, Zenon
<1>5. PICK boxes : boxes = ToSet(Walk("draw", font, string).placed)
  BY Zenon
<1>6. PICK l, r, b, t :
        /\ l = Min({2} \cup {2 + p.x + p.glyph.left : p \in boxes})
        /\ r = Max({2} \cup {2 + p.x + p.glyph.left + p.glyph.width : p \in boxes})
        /\ b = Min({2} \cup {2 - p.y + p.glyph.top - p.glyph.height : p \in boxes})
        /\ t = Max({2} \cup {2 - p.y + p.glyph.top : p \in boxes})
  BY Zenon
<1>7. TextBounds(font, string, 2, 2) = [minX |-> l, maxX |-> r, minY |-> b, maxY |-> t]
  BY <1>2, <1>5, <1>6, Zenon DEF TextBounds
<1>8. /\ TextBounds(font, string, 2, 2).minX = l /\ TextBounds(font, string, 2, 2).maxX = r
      /\ TextBounds(font, string, 2, 2).minY = b /\ TextBounds(font, string, 2, 2).maxY = t
  BY <1>7, SMT
<1>9. ASSUME \A p \in boxes : p.y = 0
      PROVE  /\ b = Min({2} \cup {2 + p.glyph.top - p.glyph.height : p \in boxes})
             /\ t = Max({2} \cup {2 + p.glyph.top : p \in boxes})
  <2>1. 2 - 0 = 2
    BY SMT
  <2>2. \A p \in boxes : 2 - p.y = 2
    BY <1>9, <2>1, Zenon
  <2>3. {2 - p.y + p.glyph.top - p.glyph.height : p \in boxes} = {2 + p.glyph.top - p.glyph.height : p \in boxes}
    BY <2>2, Zenon
  <2>4. {2 - p.y + p.glyph.top : p \in boxes} = {2 + p.glyph.top : p \in boxes}
    BY <2>2, Zenon
  <2>. QED
    BY <1>6, <2>3, <2>4, Zenon
<1>10. /\ boxes = ToSet(Walk("draw", FaceFor(family, style), string).placed)
       /\ TextBounds(font, string, 2, 2) = TextBounds(FaceFor(family, style), string, 2, 2)
       /\ TextAdvanceX(FaceFor(family, style), string)
            = Walk("draw", FaceFor(family, style), string).x + ToPixel(Walk("draw", FaceFor(family, style), string).advance)
  BY <1>0, <1>3, <1>5, Zenon
<1> DEFINE face == FaceFor(family, style)
           spots == ToSet(Walk("draw", face, string).placed)
           bounds == TextBounds(face, string, 2, 2)
<1>11. boxes = spots /\ TextBounds(font, string, 2, 2) = bounds
  BY <1>10, Zenon
<1> HIDE DEF spots, bounds
<1>12. /\ bounds.minX = Min({2} \cup {2 + p.x + p.glyph.left : p \in spots})
       /\ bounds.maxX = Max({2} \cup {2 + p.x + p.glyph.left + p.glyph.width : p \in spots})
  BY <1>6, <1>8, <1>11, Zenon
<1>13. (\A p \in spots : p.y = 0) =>
         /\ bounds.minY = Min({2} \cup {2 + p.glyph.top - p.glyph.height : p \in spots})
         /\ bounds.maxY = Max({2} \cup {2 + p.glyph.top : p \in spots})
  BY <1>8, <1>9, <1>11, Zenon
<1>14. \A mode \in {"BW", "GRAYSCALE_MSB", "GRAYSCALE_LSB"} :
         DrawTextRotated90CW(family, style, mode, 0, 0, string)
           = {<<q[2] + face.ascender - family.regular.ascender, - q[1]>> :
                q \in DrawText(family, style, mode, 0, 0, string)}
  BY <1>4, Zenon
<1>15. TextAdvanceX(face, string) = Walk("draw", face, string).x + ToPixel(Walk("draw", face, string).advance)
  BY <1>10, Zenon
<1>. QED
  BY <1>12, <1>13, <1>14, <1>15, Zenon DEF IsDrawnAsMeasured, spots, bounds

-----------------------------------------------------------------------------
(* The fonts that are tried are fonts.                                     *)
LEMMA BoxIs ==
  ASSUME NEW w \in Nat, NEW h \in Nat, NEW l \in Int, NEW t \in Int, NEW a \in Int
  PROVE  Box(w, h, l, t, a) \in GlyphRecords
<1>1. <<1, 2, 3, 0, 1>> \in Seq(0 .. 3)
  BY SMT
<1>2. PICK i \in Seq(0 .. 3) : i = <<1, 2, 3, 0, 1>>
  BY <1>1, Zenon
<1>3. [width |-> w, height |-> h, left |-> l, top |-> t, advance |-> a, ink |-> i] \in GlyphRecords
  BY SMT DEF GlyphRecords
<1>. QED
  BY <1>2, <1>3, Zenon DEF Box

Glyphed == {"f", "i", "fi", "V", "acute", "cedilla", Space, Ellipsis, Replacement}

(* Every glyph of the fonts that are tried is one.                         *)
LEMMA GlyphsAreRecords == \A c \in Glyphed : GlyphOf(c) \in GlyphRecords
<1>0. \A w, h \in Nat, l, t, a \in Int : Box(w, h, l, t, a) \in GlyphRecords
  BY BoxIs, Zenon
<1>1. GlyphOf("f") \in GlyphRecords
  <2>1. GlyphOf("f") = Box(3, 5, -1, 5, 45)
    BY SMT DEF GlyphOf, Space, Ellipsis, Replacement
  <2>2. Box(3, 5, -1, 5, 45) \in GlyphRecords
    BY <1>0, SMTT(30)
  <2>. QED
    BY <2>1, <2>2, Zenon
<1>2. GlyphOf("i") \in GlyphRecords
  <2>1. GlyphOf("i") = Box(1, 4, 1, 4, 40)
    BY SMT DEF GlyphOf, Space, Ellipsis, Replacement
  <2>2. Box(1, 4, 1, 4, 40) \in GlyphRecords
    BY <1>0, SMTT(30)
  <2>. QED
    BY <2>1, <2>2, Zenon
<1>3. GlyphOf("fi") \in GlyphRecords
  <2>1. GlyphOf("fi") = Box(4, 5, 0, 5, 71)
    BY SMT DEF GlyphOf, Space, Ellipsis, Replacement
  <2>2. Box(4, 5, 0, 5, 71) \in GlyphRecords
    BY <1>0, SMTT(30)
  <2>. QED
    BY <2>1, <2>2, Zenon
<1>4. GlyphOf("V") \in GlyphRecords
  <2>1. GlyphOf("V") = Box(5, 4, 0, 4, 88)
    BY SMT DEF GlyphOf, Space, Ellipsis, Replacement
  <2>2. Box(5, 4, 0, 4, 88) \in GlyphRecords
    BY <1>0, SMTT(30)
  <2>. QED
    BY <2>1, <2>2, Zenon
<1>5. GlyphOf("acute") \in GlyphRecords
  <2>1. GlyphOf("acute") = Box(2, 2, 1, 6, 0)
    BY SMT DEF GlyphOf, Space, Ellipsis, Replacement
  <2>2. Box(2, 2, 1, 6, 0) \in GlyphRecords
    BY <1>0, SMTT(30)
  <2>. QED
    BY <2>1, <2>2, Zenon
<1>6. GlyphOf("cedilla") \in GlyphRecords
  <2>1. GlyphOf("cedilla") = Box(3, 2, 0, 0, 0)
    BY SMT DEF GlyphOf, Space, Ellipsis, Replacement
  <2>2. Box(3, 2, 0, 0, 0) \in GlyphRecords
    BY <1>0, SMTT(30)
  <2>. QED
    BY <2>1, <2>2, Zenon
<1>7. GlyphOf(Space) \in GlyphRecords
  <2>1. GlyphOf(Space) = Box(0, 0, 0, 0, 56)
    BY SMT DEF GlyphOf, Space, Ellipsis, Replacement
  <2>2. Box(0, 0, 0, 0, 56) \in GlyphRecords
    BY <1>0, SMTT(30)
  <2>. QED
    BY <2>1, <2>2, Zenon
<1>8. GlyphOf(Ellipsis) \in GlyphRecords
  <2>1. GlyphOf(Ellipsis) = Box(5, 1, 0, 1, 96)
    BY SMT DEF GlyphOf, Space, Ellipsis, Replacement
  <2>2. Box(5, 1, 0, 1, 96) \in GlyphRecords
    BY <1>0, SMTT(30)
  <2>. QED
    BY <2>1, <2>2, Zenon
<1>9. GlyphOf(Replacement) \in GlyphRecords
  <2>1. GlyphOf(Replacement) = Box(4, 6, 1, 6, 104)
    BY SMT DEF GlyphOf, Space, Ellipsis, Replacement
  <2>2. Box(4, 6, 1, 6, 104) \in GlyphRecords
    <3>1. PICK w \in Nat, h \in Nat, l \in Int, a \in Int : w = 4 /\ h = 6 /\ l = 1 /\ a = 104
      BY SMT
    <3>2. h \in Int
      BY SMT
    <3>3. Box(w, h, l, h, a) \in GlyphRecords
      BY <3>2, BoxIs, Zenon
    <3>. QED
      BY <3>1, <3>3, SMT
  <2>. QED
    BY <2>1, <2>2, Zenon
<1>. QED
  BY <1>1, <1>2, <1>3, <1>4, <1>5, <1>6, <1>7, <1>8, <1>9, Zenon DEF Glyphed

(* The font with all that a font may have.                                 *)
LEMMA FullIsAFont == IsFont(Full)
<1>1. /\ Full.ascender = 6 /\ Full.glyph = [c \in Glyphed |-> GlyphOf(c)]
      /\ Full.ligature = [p \in {<<"f", "i">>} |-> "fi"]
      /\ Full.kern = [p \in {<<"V", "i">>, <<"V", "fi">>, <<"i", "V">>} |->
                        CASE p = <<"V", "i">> -> -25 [] p = <<"V", "fi">> -> -17 [] p = <<"i", "V">> -> 9]
  BY SMT DEF Full, Glyphed
<1>2. \A c \in DOMAIN Full.glyph : Full.glyph[c] \in GlyphRecords
  BY <1>1, GlyphsAreRecords, Zenon
<1>3. \A c \in Glyphed : HasGlyph(Full, c)
  BY <1>1, Zenon DEF HasGlyph
<1>4. ASSUME NEW c, NEW d, <<c, d>> \in DOMAIN Full.kern
      PROVE  Full.kern[<<c, d>>] \in Int /\ HasGlyph(Full, c) /\ HasGlyph(Full, d)
  <2>1. <<c, d>> \in {<<"V", "i">>, <<"V", "fi">>, <<"i", "V">>}
    BY <1>1, <1>4, Zenon
  <2>2. c \in Glyphed /\ d \in Glyphed
    BY <2>1, SMT DEF Glyphed
  <2>3. Full.kern[<<c, d>>] \in Int
    BY <1>1, <2>1, SMT
  <2>. QED
    BY <1>3, <2>2, <2>3, Zenon
<1>5. \A p \in DOMAIN Full.ligature : Full.ligature[p] # NoCharacter
  BY <1>1, SMT DEF NoCharacter
<1>6. Full.ascender \in Int
  BY <1>1, SMT
<1>. QED
  BY <1>2, <1>4, <1>5, <1>6, Zenon DEF IsFont

(* The font without ligatures or replacement.                              *)
LEMMA BareIsAFont == IsFont(Bare)
<1> DEFINE G == {"f", "i", "V", "acute", Space, Ellipsis}
<1>1. /\ Bare.ascender = 5 /\ Bare.glyph = [c \in G |-> GlyphOf(c)] /\ Bare.ligature = << >>
      /\ Bare.kern = [p \in {<<"V", "i">>} |-> -25]
  BY SMT DEF Bare
<1>2. \A c \in DOMAIN Bare.glyph : Bare.glyph[c] \in GlyphRecords
  <2>1. G \subseteq Glyphed
    BY Zenon DEF Glyphed
  <2>2. DOMAIN Bare.glyph = G /\ \A c \in G : Bare.glyph[c] = GlyphOf(c)
    BY <1>1, Zenon
  <2> HIDE DEF G
  <2>. QED
    BY <2>1, <2>2, GlyphsAreRecords, Zenon
<1>3. \A c \in G : HasGlyph(Bare, c)
  BY <1>1, Zenon DEF HasGlyph
<1>4. ASSUME NEW c, NEW d, <<c, d>> \in DOMAIN Bare.kern
      PROVE  Bare.kern[<<c, d>>] \in Int /\ HasGlyph(Bare, c) /\ HasGlyph(Bare, d)
  <2>1. <<c, d>> = <<"V", "i">>
    BY <1>1, <1>4, Zenon
  <2>2. c = "V" /\ d = "i"
    BY <2>1, SMT
  <2>3. Bare.kern[<<c, d>>] \in Int
    BY <1>1, <2>1, SMT
  <2>. QED
    BY <1>3, <2>2, <2>3, Zenon
<1>5. \A p \in DOMAIN Bare.ligature : Bare.ligature[p] # NoCharacter
  BY <1>1, SMT
<1>6. Bare.ascender \in Int
  BY <1>1, SMT
<1>. QED
  BY <1>2, <1>4, <1>5, <1>6, Zenon DEF IsFont

(* So every style has a font for its face.                                 *)
LEMMA FacesAreFonts ==
  ASSUME NEW style
  PROVE  IsFont(FaceFor(Family, style))
<1>1. DOMAIN Family = {"regular", "bold"} /\ Family.regular = Full /\ Family.bold = Bare
  BY SMT DEF Family
<1>2. "boldItalic" \notin DOMAIN Family /\ "italic" \notin DOMAIN Family
  BY <1>1, Zenon
<1>3. FaceFor(Family, style) = IF "bold" \in style THEN Bare ELSE Full
  BY <1>1, <1>2, Zenon DEF FaceFor
<1>. QED
  BY <1>3, FullIsAFont, BareIsAFont, Zenon

-----------------------------------------------------------------------------
(***************************************************************************)
(* Text: lines that fit, for every font, text, width and number of lines.  *)
(***************************************************************************)
(* The least and the greatest of some numbers in a row.                    *)
RowOf(f, N, x) == {x} \cup {f[i] : i \in 1 .. N}

LEMMA ExtremesAre ==
  ASSUME NEW N \in Nat, NEW f \in [1 .. N -> Int], NEW x \in Int
  PROVE  Min(RowOf(f, N, x)) \in Int /\ Max(RowOf(f, N, x)) \in Int
<1> DEFINE S == {n \in Nat : /\ \E m \in RowOf(f, n, x) : m \in Int /\ \A k \in RowOf(f, n, x) : m <= k
                             /\ \E m \in RowOf(f, n, x) : m \in Int /\ \A k \in RowOf(f, n, x) : k <= m}
<1>1. 0 \in S
  <2>1. \A k : k \in RowOf(f, 0, x) <=> k = x
    <3>1. \A i : i \notin 1 .. 0
      BY SMT
    <3>. QED
      BY <3>1, Zenon DEF RowOf
  <2>2. x <= x /\ x \in Int /\ 0 \in Nat
    BY SMT
  <2>3. x \in RowOf(f, 0, x)
    BY <2>1, Zenon
  <2>4. (\A k \in RowOf(f, 0, x) : x <= k) /\ (\A k \in RowOf(f, 0, x) : k <= x)
    BY <2>1, <2>2, Zenon
  <2>. QED
    BY <2>2, <2>3, <2>4, Zenon
<1>2. ASSUME NEW n \in 1 .. N, n - 1 \in S PROVE n \in S
  <2>1. PICK p \in Nat : p = n - 1 /\ p \in S
    BY <1>2, SMT
  <2>2. \A i : i \in 1 .. n <=> i \in 1 .. p \/ i = n
    BY <2>1, SMT
  <2>3. \A k : k \in RowOf(f, n, x) <=> k \in RowOf(f, p, x) \/ k = f[n]
    BY <2>2, Zenon DEF RowOf
  <2>4. f[n] \in Int /\ n \in Nat
    BY SMT
  <2>5. PICK a \in RowOf(f, p, x) : a \in Int /\ \A k \in RowOf(f, p, x) : a <= k
    BY <2>1, Zenon
  <2>6. PICK b \in RowOf(f, p, x) : b \in Int /\ \A k \in RowOf(f, p, x) : k <= b
    BY <2>1, Zenon
  <2>7. PICK v \in Int : v = f[n]
    BY <2>4, Zenon
  <2>8. v <= v
    BY SMT
  <2>9. \A k \in RowOf(f, p, x) : k \in Int
    <3>1. \A i \in 1 .. p : i \in 1 .. N
      BY <2>1, SMT
    <3>. QED
      BY <3>1, Zenon DEF RowOf
  <2>10. \E m \in RowOf(f, n, x) : m \in Int /\ \A k \in RowOf(f, n, x) : m <= k
    <3>1. CASE a <= v
      BY <2>3, <2>5, <2>7, <3>1, Zenon
    <3>2. CASE ~ a <= v
      <4>1. \A k \in RowOf(f, p, x) : v <= k
        BY <2>5, <2>9, <3>2, SMT
      <4>. QED
        BY <2>3, <2>7, <2>8, <4>1, Zenon
    <3>. QED
      BY <3>1, <3>2, Zenon
  <2>11. \E m \in RowOf(f, n, x) : m \in Int /\ \A k \in RowOf(f, n, x) : k <= m
    <3>1. CASE v <= b
      BY <2>3, <2>6, <2>7, <3>1, Zenon
    <3>2. CASE ~ v <= b
      <4>1. \A k \in RowOf(f, p, x) : k <= v
        BY <2>6, <2>9, <3>2, SMT
      <4>. QED
        BY <2>3, <2>7, <2>8, <4>1, Zenon
    <3>. QED
      BY <3>1, <3>2, Zenon
  <2>. QED
    BY <2>4, <2>10, <2>11, Zenon
<1>3. 0 .. N \subseteq S
  <2> HIDE DEF S
  <2>. QED
    BY <1>1, <1>2, InductionUpTo, Zenon
<1>4. N \in 0 .. N
  BY SMT
<1>5. N \in S
  BY <1>3, <1>4, Zenon
<1>6. PICK T : T = RowOf(f, N, x)
  BY Zenon
<1>7. \A a, b : a <= b <=> b >= a
  OBVIOUS
<1>8. \E m \in T : m \in Int /\ \A k \in T : m <= k
  BY <1>5, <1>6, Zenon
<1>9. \E m \in T : m \in Int /\ \A k \in T : m >= k
  BY <1>5, <1>6, <1>7, Zenon
<1>10. \A k \in T : k \in Int
  BY <1>6, Zenon DEF RowOf
<1>. QED
  BY <1>6, <1>8, <1>9, <1>10, Zenon DEF Min, Max

(* A set of numbers, one for each that is placed.                          *)
HasExtremes(q, g, x) ==
  Min({x} \cup {g[p] : p \in ToSet(q)}) \in Int /\ Max({x} \cup {g[p] : p \in ToSet(q)}) \in Int

LEMMA ExtremesOfPlaced ==
  ASSUME NEW P, NEW q \in Seq(P), NEW g \in [P -> Int], NEW x \in Int
  PROVE  HasExtremes(q, g, x)
<1>1. Len(q) \in Nat /\ DOMAIN q = 1 .. Len(q) /\ \A i \in 1 .. Len(q) : q[i] \in P
  BY LenProperties, ElementOfSeq, Zenon
<1> DEFINE f == [i \in 1 .. Len(q) |-> g[q[i]]]
           T == {x} \cup {g[p] : p \in ToSet(q)}
<1>2. f \in [1 .. Len(q) -> Int]
  BY <1>1, Zenon
<1>3. \A k : k \in T <=> k \in RowOf(f, Len(q), x)
  <2>1. \A p : p \in ToSet(q) <=> \E i \in 1 .. Len(q) : p = q[i]
    BY <1>1, Zenon DEF ToSet
  <2>2. \A i \in 1 .. Len(q) : f[i] = g[q[i]]
    BY Zenon
  <2> HIDE DEF f
  <2>3. ASSUME NEW k \in T PROVE k \in RowOf(f, Len(q), x)
    <3>1. CASE k = x
      BY <3>1, Zenon DEF RowOf
    <3>2. CASE k # x
      <4>1. PICK p \in ToSet(q) : k = g[p]
        BY <2>3, <3>2, Zenon
      <4>2. PICK i \in 1 .. Len(q) : p = q[i]
        BY <2>1, <4>1, Zenon
      <4>. QED
        BY <2>2, <4>1, <4>2, Zenon DEF RowOf
    <3>. QED
      BY <3>1, <3>2, Zenon
  <2>4. ASSUME NEW k \in RowOf(f, Len(q), x) PROVE k \in T
    <3>1. CASE k = x
      BY <3>1, Zenon
    <3>2. CASE k # x
      <4>1. PICK i \in 1 .. Len(q) : k = f[i]
        BY <2>4, <3>2, Zenon DEF RowOf
      <4>2. q[i] \in ToSet(q) /\ k = g[q[i]]
        BY <2>1, <2>2, <4>1, Zenon
      <4>. QED
        BY <4>2, Zenon
    <3>. QED
      BY <3>1, <3>2, Zenon
  <2>. QED
    BY <2>3, <2>4, Zenon
<1>4. T = RowOf(f, Len(q), x)
  BY <1>3, Zenon
<1>5. Min(RowOf(f, Len(q), x)) \in Int /\ Max(RowOf(f, Len(q), x)) \in Int
  BY <1>1, <1>2, ExtremesAre, Zenon
<1>. QED
  BY <1>4, <1>5, Zenon DEF HasExtremes

LEMMA WidthIs ==
  ASSUME NEW font, IsFont(font), NEW B, NoCharacter \notin B, NEW string \in Seq(B)
  PROVE  TextWidth(font, string) \in Int
<1>1. PICK P : P = Spots(LettersOf(font, B))
  BY Zenon
<1>2. PICK q \in Seq(P) : q = Walk("bounds", font, string).placed
  <2>1. PICK A : A = LettersOf(font, B)
    BY Zenon
  <2>2. PICK s \in States(A) : s = Walk("bounds", font, string)
    BY <2>1, WalksEndAlong, Zenon DEF Hows
  <2>3. s.placed \in Seq(Spots(A))
    BY SMT DEF States
  <2>. QED
    BY <1>1, <2>1, <2>2, <2>3, Zenon
<1> DEFINE left == [p \in P |-> 0 + p.x + p.glyph.left]
           right == [p \in P |-> 0 + p.x + p.glyph.left + p.glyph.width]
<1>3. left \in [P -> Int] /\ right \in [P -> Int]
  <2>1. \A p \in P : p.x \in Int /\ p.glyph.left \in Int /\ p.glyph.width \in Int
    BY <1>1, SMT DEF Spots, GlyphRecords
  <2>2. \A p \in P : 0 + p.x + p.glyph.left \in Int /\ 0 + p.x + p.glyph.left + p.glyph.width \in Int
    BY <2>1, SMT
  <2>. QED
    BY <2>2, Zenon
<1>4. \A p \in ToSet(q) : p \in P
  <2>1. DOMAIN q = 1 .. Len(q) /\ \A i \in 1 .. Len(q) : q[i] \in P
    BY LenProperties, ElementOfSeq, Zenon
  <2>. QED
    BY <2>1, Zenon DEF ToSet
<1>5. /\ \A p \in ToSet(q) : left[p] = 0 + p.x + p.glyph.left
      /\ \A p \in ToSet(q) : right[p] = 0 + p.x + p.glyph.left + p.glyph.width
  BY <1>4, Zenon
<1>6. PICK b, t : TextBounds(font, string, 0, 0)
        = [minX |-> Min({0} \cup {0 + p.x + p.glyph.left : p \in ToSet(q)}),
           maxX |-> Max({0} \cup {0 + p.x + p.glyph.left + p.glyph.width : p \in ToSet(q)}),
           minY |-> b, maxY |-> t]
  BY <1>2, Zenon DEF TextBounds
<1> HIDE DEF left, right
<1>7. {0 + p.x + p.glyph.left : p \in ToSet(q)} = {left[p] : p \in ToSet(q)}
  BY <1>5, Zenon
<1>8. {0 + p.x + p.glyph.left + p.glyph.width : p \in ToSet(q)} = {right[p] : p \in ToSet(q)}
  BY <1>5, Zenon
<1>9. Min({0} \cup {left[p] : p \in ToSet(q)}) \in Int /\ Max({0} \cup {right[p] : p \in ToSet(q)}) \in Int
  <2>1. PICK z \in Int : z = 0
    BY SMT
  <2>2. HasExtremes(q, left, z) /\ HasExtremes(q, right, z)
    BY <1>3, ExtremesOfPlaced, Zenon
  <2>. QED
    BY <2>1, <2>2, Zenon DEF HasExtremes
<1>10. PICK l \in Int, r \in Int :
         TextBounds(font, string, 0, 0) = [minX |-> l, maxX |-> r, minY |-> b, maxY |-> t]
  BY <1>6, <1>7, <1>8, <1>9, Zenon
<1>11. Extent([minX |-> l, maxX |-> r, minY |-> b, maxY |-> t]) \in Int
  BY SMT DEF Extent
<1>. QED
  BY <1>10, <1>11, Zenon DEF TextWidth

(* A text that was shortened.                                              *)
IsShort(font, t, maxWidth) ==
  Last(t) = Ellipsis /\ (t = <<Ellipsis>> \/ TextWidth(font, t) <= maxWidth)

LEMMA TruncatedIs ==
  ASSUME NEW font, IsFont(font), NEW C, NoCharacter \notin C, Ellipsis \in C,
         NEW s \in Seq(C), NEW maxWidth \in Nat
  PROVE  /\ TruncatedText(font, s, maxWidth) \in Seq(C)
         /\ IF TextWidth(font, s) <= maxWidth THEN TruncatedText(font, s, maxWidth) = s
            ELSE IsShort(font, TruncatedText(font, s, maxWidth), maxWidth)
<1> DEFINE cut(k) == Append(SubSeq(s, 1, k), Ellipsis)
           fits == {k \in 0 .. Len(s) : k = 0 \/ TextWidth(font, cut(k)) < maxWidth}
<1>1. TruncatedText(font, s, maxWidth) = IF TextWidth(font, s) <= maxWidth THEN s ELSE cut(Max(fits))
  BY Zenon DEF TruncatedText
<1>2. Len(s) \in Nat
  BY LenProperties, Zenon
<1>3. fits \subseteq 0 .. Len(s) /\ fits # {}
  <2>1. 0 \in 0 .. Len(s)
    BY <1>2, SMT
  <2>. QED
    BY <2>1, Zenon
<1>4. \A k \in fits : k = 0 \/ TextWidth(font, cut(k)) < maxWidth
  BY Zenon
<1>5. ASSUME NEW k \in 0 .. Len(s)
      PROVE  cut(k) \in Seq(C) /\ Last(cut(k)) = Ellipsis /\ (k = 0 => cut(k) = <<Ellipsis>>)
  <2>1. \A i \in 1 .. k : i \in 1 .. Len(s)
    BY <1>2, SMT
  <2>2. \A i \in 1 .. k : s[i] \in C
    BY <2>1, ElementOfSeq, Zenon
  <2>3. SubSeq(s, 1, k) \in Seq(C)
    BY <2>2, SubSeqProperties, SMT
  <2>4. PICK t \in Seq(C) : t = SubSeq(s, 1, k)
    BY <2>3, Zenon
  <2>5. /\ Append(t, Ellipsis) \in Seq(C) /\ Len(Append(t, Ellipsis)) = Len(t) + 1
        /\ Append(t, Ellipsis)[Len(t) + 1] = Ellipsis
    BY AppendProperties, Zenon
  <2>6. Last(cut(k)) = Ellipsis
    BY <2>4, <2>5, Zenon DEF Last
  <2>7. k = 0 => t = <<>>
    BY <2>4, SubSeqEmpty, SMT
  <2>8. Append(<<>>, Ellipsis) = <<Ellipsis>>
    BY SMT
  <2>. QED
    BY <2>4, <2>5, <2>6, <2>7, <2>8, Zenon
<1> HIDE DEF fits, cut
<1>6. PICK k \in fits : k = Max(fits)
  BY <1>2, <1>3, GreatestOf, Zenon
<1>7. k \in 0 .. Len(s)
  BY <1>3, Zenon
<1>8. TextWidth(font, cut(k)) \in Int
  BY <1>5, <1>7, WidthIs, Zenon
<1>9. TextWidth(font, cut(k)) < maxWidth => TextWidth(font, cut(k)) <= maxWidth
  BY <1>8, SMT
<1>10. IsShort(font, cut(k), maxWidth)
  BY <1>4, <1>5, <1>7, <1>9, Zenon DEF IsShort
<1>. QED
  BY <1>1, <1>5, <1>6, <1>7, <1>10, Zenon

-----------------------------------------------------------------------------
(* The words of a text, character by character.                            *)
Kept(words, c) == IF c = Space THEN words ELSE Append(words, c)
AreWords(f, C, string) ==
  /\ f \in [0 .. Len(string) -> Seq(C)]
  /\ f[0] = <<>>
  /\ \A n \in 1 .. Len(string) : f[n] = Kept(f[n - 1], string[n])

(* A character more.                                                       *)
LEMMA KeptIs ==
  ASSUME NEW C, NEW words \in Seq(C), NEW c \in C
  PROVE  Kept(words, c) \in Seq(C)
  BY AppendProperties, Zenon DEF Kept

(* Words() keeps the characters of a text one by one, but for the spaces.  *)
LEMMA WordsAre ==
  ASSUME NEW C, NEW string \in Seq(C)
  PROVE  \E f : AreWords(f, C, string) /\ Words(string) = f[Len(string)]
<1> DEFINE N == Len(string)
           V == Seq(C)
           next == [n \in Nat |-> [v \in V |-> IF n \in 1 .. N THEN Kept(v, string[n]) ELSE v]]
           Rounds(g) == [n \in 0 .. N |-> IF n = 0 THEN <<>>
                                          ELSE IF string[n] = Space THEN g[n - 1] ELSE Append(g[n - 1], string[n])]
           w == CHOOSE g : g = Rounds(g)
<1>1. N \in Nat
  BY LenProperties, Zenon
<1>2. \A n \in 1 .. N : string[n] \in C
  BY ElementOfSeq, Zenon
<1> HIDE DEF N
<1>3. ASSUME NEW n \in Nat, NEW v \in V
      PROVE  next[n][v] = IF n \in 1 .. N THEN Kept(v, string[n]) ELSE v
  BY Zenon
<1>4. \A n \in Nat : \A v \in V : next[n][v] \in V
  BY <1>2, <1>3, KeptIs, Zenon
<1>5. <<>> \in V
  BY EmptySeq, Zenon
<1> HIDE DEF V, next
<1>6. PICK f : IsUpTo(V, <<>>, next, N, f)
  BY <1>1, <1>4, <1>5, UpToExists, Zenon
<1>7. f \in [0 .. N -> V] /\ f[0] = <<>>
  BY <1>6, Zenon DEF IsUpTo
<1>8. ASSUME NEW n \in 1 .. N PROVE f[n] = Kept(f[n - 1], string[n])
  <2>1. f[n] = next[n][f[n - 1]]
    BY <1>6, Zenon DEF IsUpTo
  <2>2. n \in Nat /\ n - 1 \in 0 .. N
    BY <1>1, SMT
  <2>3. f[n - 1] \in V
    BY <1>7, <2>2, Zenon
  <2>. QED
    BY <1>3, <2>1, <2>2, <2>3, Zenon
<1>9. f = Rounds(f)
  <2>1. \A n \in 0 .. N : n # 0 => n \in 1 .. N
    BY <1>1, SMT
  <2>2. \A n \in 0 .. N : f[n] = IF n = 0 THEN <<>>
                                 ELSE IF string[n] = Space THEN f[n - 1] ELSE Append(f[n - 1], string[n])
    BY <1>7, <1>8, <2>1, Zenon DEF Kept
  <2>. QED
    BY <1>7, <2>2, Zenon
<1>10. w = Rounds(w)
  BY <1>9, Zenon
<1> HIDE DEF w
<1>11. \A n \in 0 .. N : w[n] = IF n = 0 THEN <<>>
                                ELSE IF string[n] = Space THEN w[n - 1] ELSE Append(w[n - 1], string[n])
  BY <1>10, Zenon
<1>12. 0 \in 0 .. N /\ N \in 0 .. N /\ \A n \in 1 .. N : n \in 0 .. N /\ n # 0
  BY <1>1, SMT
<1>13. w[0] = <<>> /\ \A n \in 1 .. N : w[n] = Kept(w[n - 1], string[n])
  BY <1>11, <1>12, Zenon DEF Kept
<1> DEFINE S == {n \in Nat : w[n] \in V}
<1>14. 0 \in S
  BY <1>5, <1>13, SMT
<1>15. ASSUME NEW n \in 1 .. N, n - 1 \in S PROVE n \in S
  <2>1. w[n] = Kept(w[n - 1], string[n]) /\ w[n - 1] \in V
    BY <1>13, <1>15, Zenon
  <2>2. n \in Nat
    BY SMT
  <2>. QED
    BY <1>2, <2>1, <2>2, KeptIs, Zenon DEF V
<1>16. 0 .. N \subseteq S
  <2> HIDE DEF S
  <2>. QED
    BY <1>1, <1>14, <1>15, InductionUpTo, Zenon
<1>17. w \in [0 .. N -> V]
  <2>1. w = [n \in 0 .. N |-> w[n]]
    BY <1>10, Zenon
  <2>2. \A n \in 0 .. N : w[n] \in V
    BY <1>16, Zenon
  <2>. QED
    BY <2>1, <2>2, Zenon
<1>18. AreWords(w, C, string)
  BY <1>13, <1>17, Zenon DEF AreWords, V, N
<1>19. Words(string) = w[N]
  BY Zenon DEF Words, w, N
<1>. QED
  BY <1>18, <1>19, Zenon DEF N

IsKeptAfter(a, b, c) == Kept(a \o b, c) = a \o Kept(b, c)

(* What is kept after other characters.                                    *)
LEMMA KeptAfter ==
  ASSUME NEW C, NEW a \in Seq(C), NEW b \in Seq(C), NEW c \in C
  PROVE  IsKeptAfter(a, b, c)
<1>1. a \o b \in Seq(C)
  BY ConcatProperties, Zenon
<1>5. <<c>> \in Seq(C)
  BY SMT
<1>2. PICK d \in Seq(C) : d = <<c>>
  BY <1>5, Zenon
<1>3. Append(a \o b, c) = (a \o b) \o d /\ Append(b, c) = b \o d
  <2>1. \A e \in Seq(C) : Append(e, c) = e \o <<c>>
    BY AppendIsConcat, Zenon
  <2>. QED
    BY <1>1, <1>2, <2>1, Zenon
<1>4. (a \o b) \o d = a \o (b \o d)
  BY ConcatAssociative, SMT
<1>. QED
  BY <1>3, <1>4, Zenon DEF Kept, IsKeptAfter

(* The words of two texts in a row are those of the one and then of the    *)
(* other.                                                                  *)
LEMMA WordsOfBoth ==
  ASSUME NEW C, NEW s \in Seq(C), NEW t \in Seq(C)
  PROVE  /\ Words(s \o t) = Words(s) \o Words(t)
         /\ Words(s) \in Seq(C)
<1>1. s \o t \in Seq(C)
  BY ConcatProperties, Zenon
<1>2. PICK f : AreWords(f, C, s \o t) /\ Words(s \o t) = f[Len(s \o t)]
  BY <1>1, WordsAre, Zenon
<1>3. PICK g : AreWords(g, C, s) /\ Words(s) = g[Len(s)]
  BY WordsAre, Zenon
<1>4. PICK h : AreWords(h, C, t) /\ Words(t) = h[Len(t)]
  BY WordsAre, Zenon
<1>5. PICK k \in Nat, l \in Nat : k = Len(s) /\ l = Len(t)
  BY LenProperties, Zenon
<1>6. Len(s \o t) = k + l /\ \A i \in 1 .. k + l : (s \o t)[i] = IF i <= k THEN s[i] ELSE t[i - k]
  BY <1>5, ConcatProperties, Zenon
<1>7. /\ f[0] = <<>> /\ g[0] = <<>> /\ h[0] = <<>>
      /\ \A n \in 1 .. k + l : f[n] = Kept(f[n - 1], (s \o t)[n])
      /\ \A n \in 1 .. k : g[n] = Kept(g[n - 1], s[n])
      /\ \A n \in 1 .. l : h[n] = Kept(h[n - 1], t[n])
      /\ \A n \in 0 .. k : g[n] \in Seq(C)
      /\ \A n \in 0 .. l : h[n] \in Seq(C)
  BY <1>2, <1>3, <1>4, <1>5, <1>6, Zenon DEF AreWords
<1>8. 0 \in 0 .. k /\ k \in 0 .. k /\ 0 \in 0 .. l /\ l \in 0 .. l
  BY SMT
<1> DEFINE S == {n \in Nat : f[n] = g[n]}
           T == {n \in Nat : f[k + n] = g[k] \o h[n]}
<1>9. 0 \in S
  BY <1>7, Zenon
<1>10. ASSUME NEW n \in 1 .. k, n - 1 \in S PROVE n \in S
  <2>1. n \in 1 .. k + l /\ n <= k /\ n \in Nat
    BY SMT
  <2>2. (s \o t)[n] = s[n]
    BY <1>6, <2>1, Zenon
  <2>3. f[n - 1] = g[n - 1]
    BY <1>10, Zenon
  <2>. QED
    BY <1>7, <2>1, <2>2, <2>3, Zenon
<1>11. 0 .. k \subseteq S
  <2> HIDE DEF S
  <2>. QED
    BY <1>9, <1>10, InductionUpTo, Zenon
<1>12. f[k] = g[k]
  BY <1>8, <1>11, Zenon
<1>13. 0 \in T
  <2>1. k + 0 = k
    BY SMT
  <2>2. g[k] \o <<>> = g[k]
    BY <1>7, <1>8, ConcatEmptySeq, Zenon
  <2>. QED
    <3>1. 0 \in Nat
      BY SMT
    <3>. QED
      BY <1>7, <1>12, <2>1, <2>2, <3>1, Zenon
<1>14. ASSUME NEW n \in 1 .. l, n - 1 \in T PROVE n \in T
  <2>1. PICK m \in Nat : m = k + n
    BY SMT
  <2>2. m \in 1 .. k + l /\ ~ m <= k /\ m - k = n /\ m - 1 = k + (n - 1) /\ n \in Nat /\ n - 1 \in 0 .. l
    BY <2>1, SMT
  <2>3. f[m] = Kept(f[m - 1], t[n])
    BY <1>6, <1>7, <2>2, Zenon
  <2>4. f[m - 1] = g[k] \o h[n - 1]
    BY <1>14, <2>2, Zenon
  <2>5. t[n] \in C
    BY <1>5, ElementOfSeq, Zenon
  <2>6. Kept(g[k] \o h[n - 1], t[n]) = g[k] \o Kept(h[n - 1], t[n])
    <3>1. PICK a \in Seq(C), b \in Seq(C), c \in C : a = g[k] /\ b = h[n - 1] /\ c = t[n]
      BY <1>7, <1>8, <2>2, <2>5, Zenon
    <3>2. IsKeptAfter(a, b, c)
      BY KeptAfter, Zenon
    <3>. QED
      BY <3>1, <3>2, Zenon DEF IsKeptAfter
  <2>. QED
    BY <1>7, <2>1, <2>2, <2>3, <2>4, <2>6, Zenon
<1>15. 0 .. l \subseteq T
  <2> HIDE DEF T
  <2>. QED
    BY <1>13, <1>14, InductionUpTo, Zenon
<1>16. f[k + l] = g[k] \o h[l]
  BY <1>8, <1>15, Zenon
<1>. QED
  BY <1>2, <1>3, <1>4, <1>5, <1>6, <1>7, <1>8, <1>16, Zenon

(* There are none in a space.                                              *)
LEMMA WordsOfNone == Words(<<>>) = <<>> /\ Words(<<Space>>) = <<>>
<1>1. PICK C : C = {Space}
  BY Zenon
<1>2. <<>> \in Seq(C) /\ <<Space>> \in Seq(C) /\ Len(<<>>) = 0 /\ Len(<<Space>>) = 1 /\ <<Space>>[1] = Space
  BY <1>1, SMT
<1>3. PICK f : AreWords(f, C, <<>>) /\ Words(<<>>) = f[Len(<<>>)]
  BY <1>2, WordsAre, Zenon
<1>4. PICK g : AreWords(g, C, <<Space>>) /\ Words(<<Space>>) = g[Len(<<Space>>)]
  BY <1>2, WordsAre, Zenon
<1>5. Words(<<>>) = <<>>
  BY <1>2, <1>3, Zenon DEF AreWords
<1>6. 1 \in 1 .. 1 /\ 1 - 1 = 0
  BY SMT
<1>7. g[0] = <<>> /\ g[1] = Kept(g[0], Space)
  BY <1>2, <1>4, <1>6, Zenon DEF AreWords
<1>. QED
  BY <1>2, <1>4, <1>5, <1>7, Zenon DEF Kept

(* Joining a line and a word with a space loses neither.                   *)
(* (GfxRenderer.cpp:936).                                                  *)
LEMMA JoinedIs ==
  ASSUME NEW C, Space \in C, NEW line \in Seq(C), NEW rest \in Seq(C)
  PROVE  Joined(line, rest) \in Seq(C) /\ Words(Joined(line, rest)) = Words(line) \o Words(rest)
<1>1. CASE line = <<>>
  <2>1. Words(rest) \in Seq(C)
    BY WordsOfBoth, Zenon
  <2>2. <<>> \o Words(rest) = Words(rest)
    BY <2>1, ConcatEmptySeq, Zenon
  <2>. QED
    BY <1>1, <2>2, WordsOfNone, Zenon DEF Joined
<1>2. CASE line # <<>>
  <2>0. <<Space>> \in Seq(C)
    BY SMT
  <2>1. PICK sp \in Seq(C) : sp = <<Space>>
    BY <2>0, Zenon
  <2>2. line \o sp \in Seq(C) /\ (line \o sp) \o rest \in Seq(C)
    BY ConcatProperties, Zenon
  <2>3. Words((line \o sp) \o rest) = Words(line \o sp) \o Words(rest)
    BY <2>2, WordsOfBoth, Zenon
  <2>4. Words(line \o sp) = Words(line) \o Words(sp) /\ Words(line) \in Seq(C)
    BY WordsOfBoth, Zenon
  <2>5. Words(line) \o <<>> = Words(line)
    BY <2>4, ConcatEmptySeq, Zenon
  <2>6. Words(line \o sp) = Words(line)
    BY <2>1, <2>4, <2>5, WordsOfNone, Zenon
  <2>7. Joined(line, rest) = (line \o sp) \o rest
    BY <1>2, <2>1, Zenon DEF Joined
  <2>. QED
    BY <2>2, <2>3, <2>6, <2>7, Zenon
<1>. QED
  BY <1>1, <1>2, Zenon

(* What a piece of a text is.                                              *)
Piece(C, s, a, b) ==
  /\ SubSeq(s, a, b) \in Seq(C)
  /\ Len(SubSeq(s, a, b)) = IF a <= b THEN b - a + 1 ELSE 0
  /\ \A i \in 1 .. b - a + 1 : SubSeq(s, a, b)[i] = s[a + i - 1]

(* A piece of a text, character by character.                              *)
LEMMA PieceIs ==
  ASSUME NEW C, NEW s \in Seq(C), NEW a \in Int, NEW b \in Int, a >= 1, b <= Len(s)
  PROVE  Piece(C, s, a, b)
<1>1. \A i \in 1 .. Len(s) : s[i] \in C
  BY ElementOfSeq, Zenon
<1>2. \A i \in a .. b : i \in 1 .. Len(s)
  BY LenProperties, SMT
<1>3. \A i \in a .. b : s[i] \in C
  BY <1>1, <1>2, Zenon
<1>. QED
  BY <1>3, SubSeqProperties, SMT DEF Piece

(* A word is taken off the text: it and what follows it are all its words, *)
(* and what follows is shorter.                                            *)
LEMMA FirstAndRest ==
  ASSUME NEW C, Space \in C, NEW s \in Seq(C), s # <<>>
  PROVE  /\ FirstWord(s) \in Seq(C) /\ RestOf(s) \in Seq(C) /\ Len(RestOf(s)) < Len(s)
         /\ Words(s) = Words(FirstWord(s)) \o Words(RestOf(s))
<1> DEFINE S == {k \in 1 .. Len(s) : s[k] = Space} \cup {Len(s) + 1}
<1>1. PICK n \in Nat \ {0} : n = Len(s)
  BY EmptySeq, LenProperties, Zenon
<1>2. S \in SUBSET Nat /\ n + 1 \in S
  BY <1>1, SMT
<1>3. PICK e \in S : e = WordEnd(s)
  <2>1. S # {}
    BY <1>2, Zenon
  <2> HIDE DEF S
  <2>2. Min(S) \in S
    BY <1>2, <2>1, SmallestOf, Zenon
  <2>. QED
    BY <2>2, Zenon DEF WordEnd, S
<1>4. (e \in 1 .. n /\ s[e] = Space) \/ e = n + 1
  BY <1>1, SMT
<1> HIDE DEF S
<1>5. e \in 1 .. n + 1
  BY <1>4, SMT
<1>6. \A i \in 1 .. n : s[i] \in C
  BY <1>1, ElementOfSeq, Zenon
<1>8. e - 1 \in Int /\ e + 1 \in Int /\ n \in Int /\ 1 \in Int /\ e - 1 <= n /\ e + 1 >= 1 /\ n <= n
  BY <1>5, SMT
<1>9. Piece(C, s, 1, e - 1)
  BY <1>1, <1>8, PieceIs, SMT
<1>10. Piece(C, s, e + 1, n)
  BY <1>1, <1>8, PieceIs, SMT
<1>11. /\ SubSeq(s, 1, e - 1) \in Seq(C)
       /\ Len(SubSeq(s, 1, e - 1)) = IF 1 <= e - 1 THEN (e - 1) - 1 + 1 ELSE 0
       /\ \A i \in 1 .. (e - 1) - 1 + 1 : SubSeq(s, 1, e - 1)[i] = s[1 + i - 1]
  BY <1>9, Zenon DEF Piece
<1>12. /\ SubSeq(s, e + 1, n) \in Seq(C)
       /\ Len(SubSeq(s, e + 1, n)) = IF e + 1 <= n THEN n - (e + 1) + 1 ELSE 0
       /\ \A i \in 1 .. n - (e + 1) + 1 : SubSeq(s, e + 1, n)[i] = s[(e + 1) + i - 1]
  BY <1>10, Zenon DEF Piece
<1>13. PICK w \in Seq(C), r \in Seq(C) : w = SubSeq(s, 1, e - 1) /\ r = SubSeq(s, e + 1, n)
  BY <1>11, <1>12, Zenon
<1>14. Len(w) = e - 1 /\ \A i \in 1 .. e - 1 : w[i] = s[i]
  BY <1>5, <1>11, <1>13, SMT
<1>15. Len(r) = (IF e <= n THEN n - e ELSE 0) /\ \A i \in 1 .. n - e : r[i] = s[e + i]
  BY <1>5, <1>12, <1>13, SMT
<1>16. FirstWord(s) = w /\ RestOf(s) = r
  BY <1>1, <1>3, <1>13, Zenon DEF FirstWord, RestOf
<1>17. Len(r) < n
  BY <1>5, <1>15, SMT
<1>18. CASE e = n + 1
  <2>1. r = <<>>
    BY <1>15, <1>18, SMT
  <2>2. w = s
    <3>1. Len(w) = Len(s) /\ \A i \in 1 .. Len(w) : w[i] = s[i]
      BY <1>1, <1>14, <1>18, SMT
    <3>. QED
      BY <3>1, SeqEqual, Zenon
  <2>3. Words(s) \o <<>> = Words(s)
    BY WordsOfBoth, ConcatEmptySeq, Zenon
  <2>. QED
    BY <1>1, <1>13, <1>16, <1>17, <2>1, <2>2, <2>3, WordsOfNone, Zenon
<1>19. CASE e \in 1 .. n /\ s[e] = Space
  <2>0. <<Space>> \in Seq(C) /\ Len(<<Space>>) = 1 /\ <<Space>>[1] = Space
    BY SMT
  <2>9. PICK sp \in Seq(C) : sp = <<Space>> /\ Len(sp) = 1 /\ sp[1] = Space
    BY <2>0, Zenon
  <2>1. s = (w \o sp) \o r
    <3>2. /\ w \o sp \in Seq(C) /\ Len(w \o sp) = Len(w) + 1
          /\ \A i \in 1 .. Len(w) + 1 : (w \o sp)[i] = IF i <= Len(w) THEN w[i] ELSE sp[i - Len(w)]
      BY <2>9, ConcatProperties, Zenon
    <3>3. /\ (w \o sp) \o r \in Seq(C) /\ Len((w \o sp) \o r) = Len(w \o sp) + Len(r)
          /\ \A i \in 1 .. Len(w \o sp) + Len(r) :
               ((w \o sp) \o r)[i] = IF i <= Len(w \o sp) THEN (w \o sp)[i] ELSE r[i - Len(w \o sp)]
      BY <3>2, ConcatProperties, Zenon
    <3>4. PICK u \in Seq(C), v \in Seq(C) : u = w \o sp /\ v = u \o r
      BY <3>2, <3>3, Zenon
    <3>5. Len(u) = e /\ Len(v) = n
      BY <1>14, <1>15, <1>19, <3>2, <3>3, <3>4, SMT
    <3>6. \A i \in 1 .. e : u[i] = s[i]
      <4>1. \A i \in 1 .. e - 1 : u[i] = s[i]
        BY <1>14, <1>19, <3>2, <3>4, SMT
      <4>2. u[e] = sp[1]
        <5>1. e \in 1 .. Len(w) + 1 /\ ~ e <= Len(w) /\ e - Len(w) = 1
          BY <1>14, <1>19, SMT
        <5>. QED
          BY <3>2, <3>4, <5>1, Zenon
      <4>3. \A i \in 1 .. e : i \in 1 .. e - 1 \/ i = e
        BY <1>19, SMT
      <4>. QED
        BY <1>19, <2>9, <4>1, <4>2, <4>3, Zenon
    <3>7. ASSUME NEW i \in 1 .. n PROVE v[i] = s[i]
      <4>1. CASE i <= e
        <5>1. i \in 1 .. e /\ i \in 1 .. Len(w \o sp) + Len(r)
          BY <1>19, <3>3, <3>4, <3>5, <4>1, SMT
        <5>2. v[i] = u[i]
          BY <3>3, <3>4, <3>5, <4>1, <5>1, Zenon
        <5>. QED
          BY <3>6, <5>1, <5>2, Zenon
      <4>2. CASE ~ i <= e
        <5>1. i \in 1 .. Len(w \o sp) + Len(r) /\ i - e \in 1 .. n - e /\ e + (i - e) = i
          BY <1>19, <3>3, <3>4, <3>5, <4>2, SMT
        <5>2. v[i] = r[i - e]
          BY <3>3, <3>4, <3>5, <4>2, <5>1, Zenon
        <5>. QED
          BY <1>15, <5>1, <5>2, Zenon
      <4>. QED
        BY <4>1, <4>2, Zenon
    <3>8. v = s
      <4>1. \A i \in 1 .. Len(v) : v[i] = s[i]
        BY <3>5, <3>7, Zenon
      <4>. QED
        BY <1>1, <3>5, <4>1, SeqEqual, Zenon
    <3>. QED
      BY <3>4, <3>8, Zenon
  <2>2. w \o sp \in Seq(C)
    BY ConcatProperties, Zenon
  <2>3. Words((w \o sp) \o r) = Words(w \o sp) \o Words(r)
    BY <2>2, WordsOfBoth, Zenon
  <2>4. Words(w \o sp) = Words(w) \o Words(sp) /\ Words(w) \in Seq(C)
    BY WordsOfBoth, Zenon
  <2>5. Words(w) \o <<>> = Words(w)
    BY <2>4, ConcatEmptySeq, Zenon
  <2>6. Words(w \o sp) = Words(w)
    BY <2>4, <2>5, <2>9, WordsOfNone, Zenon
  <2>. QED
    BY <1>1, <1>13, <1>16, <1>17, <2>1, <2>3, <2>6, Zenon
<1>. QED
  BY <1>4, <1>5, <1>18, <1>19, Zenon

-----------------------------------------------------------------------------
(* The lines of a wrapped text so far, and the words still to come.        *)
Fitting(font, lines, maxWidth) ==
  \A i \in 1 .. Len(lines) : lines[i] = <<Ellipsis>> \/ TextWidth(font, lines[i]) <= maxWidth
SaysSo(lines) == \E i \in 1 .. Len(lines) : Last(lines[i]) = Ellipsis
Tells(lines, string, todo) == SaysSo(lines) \/ Words(FlattenSeq(lines)) \o todo = Words(string)

(* One more line that fits.                                                *)
LEMMA OneMoreLine ==
  ASSUME NEW font, NEW C, NEW lines \in Seq(Seq(C)), NEW line \in Seq(C), NEW maxWidth,
         Fitting(font, lines, maxWidth), line = <<Ellipsis>> \/ TextWidth(font, line) <= maxWidth
  PROVE  /\ Append(lines, line) \in Seq(Seq(C)) /\ Len(Append(lines, line)) = Len(lines) + 1
         /\ Fitting(font, Append(lines, line), maxWidth)
         /\ SaysSo(lines) \/ Last(line) = Ellipsis => SaysSo(Append(lines, line))
<1>1. PICK more \in Seq(Seq(C)) : more = Append(lines, line)
  BY AppendProperties, Zenon
<1>2. /\ Len(more) = Len(lines) + 1 /\ more[Len(lines) + 1] = line
      /\ \A i \in 1 .. Len(lines) : more[i] = lines[i]
  BY <1>1, AppendProperties, SMT
<1>3. PICK n \in Nat : n = Len(lines)
  BY LenProperties, Zenon
<1>4. (\A i \in 1 .. n + 1 : i \in 1 .. n \/ i = n + 1) /\ (\A i \in 1 .. n : i \in 1 .. n + 1)
      /\ n + 1 \in 1 .. n + 1
  BY SMT
<1>5. Fitting(font, more, maxWidth)
  <2> SUFFICES ASSUME NEW i \in 1 .. n + 1 PROVE more[i] = <<Ellipsis>> \/ TextWidth(font, more[i]) <= maxWidth
    BY <1>2, <1>3, Zenon DEF Fitting
  <2>1. CASE i \in 1 .. n
    <3>1. more[i] = lines[i]
      BY <1>2, <1>3, <2>1, Zenon
    <3>. QED
      BY <1>3, <2>1, <3>1, Zenon DEF Fitting
  <2>2. CASE i = n + 1
    BY <1>2, <1>3, <2>2, Zenon
  <2>. QED
    BY <1>4, <2>1, <2>2, Zenon
<1>6. SaysSo(lines) => SaysSo(more)
  <2> SUFFICES ASSUME NEW i \in 1 .. n, Last(lines[i]) = Ellipsis PROVE SaysSo(more)
    BY <1>3, Zenon DEF SaysSo
  <2>1. i \in 1 .. Len(more) /\ more[i] = lines[i]
    BY <1>2, <1>3, <1>4, Zenon
  <2>. QED
    BY <2>1, Zenon DEF SaysSo
<1>7. Last(line) = Ellipsis => SaysSo(more)
  <2>1. n + 1 \in 1 .. Len(more) /\ more[n + 1] = line
    BY <1>2, <1>3, <1>4, Zenon
  <2>. QED
    BY <2>1, Zenon DEF SaysSo
<1>. QED
  BY <1>1, <1>2, <1>5, <1>6, <1>7, Zenon

(* A line that is put with the others tells its words.                     *)
LEMMA OneMoreTells ==
  ASSUME NEW font, NEW C, NEW lines \in Seq(Seq(C)), NEW line \in Seq(C), NEW maxWidth,
         Fitting(font, lines, maxWidth), line = <<Ellipsis>> \/ TextWidth(font, line) <= maxWidth,
         NEW string, NEW todo \in Seq(C), Tells(lines, string, Words(line) \o todo)
  PROVE  Tells(Append(lines, line), string, todo)
<1>1. CASE SaysSo(lines)
  BY <1>1, OneMoreLine, Zenon DEF Tells
<1>2. CASE Words(FlattenSeq(lines)) \o (Words(line) \o todo) = Words(string)
  <2>1. FlattenSeq(lines) \in Seq(C) /\ FlattenSeq(Append(lines, line)) = FlattenSeq(lines) \o line
    BY FlattenOneMore, Zenon
  <2>2. PICK a \in Seq(C) : a = FlattenSeq(lines)
    BY <2>1, Zenon
  <2>3. Words(a \o line) = Words(a) \o Words(line) /\ Words(a) \in Seq(C)
    BY WordsOfBoth, Zenon
  <2>4. Words(line) \in Seq(C)
    BY WordsOfBoth, Zenon
  <2>5. PICK u \in Seq(C), v \in Seq(C) : u = Words(a) /\ v = Words(line)
    BY <2>3, <2>4, Zenon
  <2>6. (u \o v) \o todo = u \o (v \o todo)
    BY ConcatAssociative, SMTT(30)
  <2>. QED
    BY <1>2, <2>1, <2>2, <2>3, <2>5, <2>6, Zenon DEF Tells
<1>. QED
  BY <1>1, <1>2, Zenon DEF Tells

-----------------------------------------------------------------------------
(* What wrapping keeps to, word after word.                                *)
WrapStates(C) == [remaining : Seq(C), line : Seq(C), lines : Seq(Seq(C)), done : BOOLEAN]

KeepsTo(font, string, maxWidth, maxLines, remaining, line, lines, done) ==
  /\ Fitting(font, lines, maxWidth)
  /\ IF done
       THEN Len(lines) <= maxLines /\ Tells(lines, string, <<>>)
       ELSE /\ Len(lines) < maxLines /\ (line = <<>> \/ TextWidth(font, line) <= maxWidth)
            /\ Tells(lines, string, Words(line) \o Words(remaining))

Wrapping(font, C, string, maxWidth, maxLines) ==
  {s \in WrapStates(C) : KeepsTo(font, string, maxWidth, maxLines, s.remaining, s.line, s.lines, s.done)}

(* A state that keeps to it is one of those states.                        *)
LEMMA WrappingIs ==
  ASSUME NEW font, NEW C, NEW string, NEW maxWidth, NEW maxLines,
         NEW remaining \in Seq(C), NEW line \in Seq(C), NEW lines \in Seq(Seq(C)), NEW done \in BOOLEAN,
         KeepsTo(font, string, maxWidth, maxLines, remaining, line, lines, done)
  PROVE  WrapState(remaining, line, lines, done) \in Wrapping(font, C, string, maxWidth, maxLines)
<1> DEFINE s == WrapState(remaining, line, lines, done)
<1>1. s \in WrapStates(C)
  BY SMT DEF WrapState, WrapStates
<1>2. s.remaining = remaining /\ s.line = line /\ s.lines = lines /\ s.done = done
  BY SMT DEF WrapState
<1> HIDE DEF s
<1>3. KeepsTo(font, string, maxWidth, maxLines, s.remaining, s.line, s.lines, s.done)
  BY <1>2, Zenon
<1>4. s \in Wrapping(font, C, string, maxWidth, maxLines)
  BY <1>1, <1>3, Zenon DEF Wrapping
<1>. QED
  BY <1>4, Zenon DEF s

Advances(font, C, string, maxWidth, maxLines, s, t) ==
  t \in Wrapping(font, C, string, maxWidth, maxLines) /\ (t.done \/ Len(t.remaining) < Len(s.remaining))

IsOpen(font, C, string, maxWidth, maxLines, s) ==
  /\ s.remaining \in Seq(C) /\ s.line \in Seq(C) /\ s.lines \in Seq(Seq(C)) /\ ~ s.done
  /\ Fitting(font, s.lines, maxWidth)
  /\ Len(s.lines) < maxLines /\ (s.line = <<>> \/ TextWidth(font, s.line) <= maxWidth)
  /\ Tells(s.lines, string, Words(s.line) \o Words(s.remaining))

IsTextFor(font, C, maxWidth, maxLines) ==
  /\ IsFont(font) /\ NoCharacter \notin C /\ Space \in C /\ Ellipsis \in C
  /\ maxWidth \in Nat /\ maxLines \in Nat \ {0}

(* Three pieces put together, either way.                                  *)
ArePut(S, a, b, c) ==
  /\ a \o b \in Seq(S) /\ b \o c \in Seq(S)
  /\ (a \o b) \o c = a \o (b \o c)

(* Texts put together are a text, in any order of putting.                 *)
LEMMA PutIs ==
  ASSUME NEW S, NEW a \in Seq(S), NEW b \in Seq(S), NEW c \in Seq(S)
  PROVE  ArePut(S, a, b, c)
<1>1. (a \o b) \o c = a \o (b \o c)
  BY ConcatAssociative, SMT
<1>2. a \o b \in Seq(S) /\ b \o c \in Seq(S)
  BY ConcatProperties, Zenon
<1>. QED
  BY <1>1, <1>2, Zenon DEF ArePut

(* Two lines, one after the other.                                         *)
LEMMA PairOf ==
  ASSUME NEW a, NEW b
  PROVE  Append(<<a>>, b) = <<a, b>>
<1>1. PICK S : S = {a, b}
  BY Zenon
<1>2. a \in S /\ b \in S
  BY <1>1, Zenon
<1>3. <<a>> \in Seq(S) /\ Len(<<a>>) = 1 /\ <<a>>[1] = a
  BY <1>2, SMT
<1>4. <<a, b>> \in Seq(S) /\ Len(<<a, b>>) = 2 /\ <<a, b>>[1] = a /\ <<a, b>>[2] = b
  BY <1>2, SMT
<1>5. PICK s \in Seq(S), t \in Seq(S) : s = <<a>> /\ t = <<a, b>>
  BY <1>3, <1>4, Zenon
<1>6. PICK u \in Seq(S) : /\ u = Append(s, b) /\ Len(u) = Len(s) + 1 /\ u[Len(s) + 1] = b
                          /\ \A i \in 1 .. Len(s) : u[i] = s[i]
  <2>1. /\ Append(s, b) \in Seq(S) /\ Len(Append(s, b)) = Len(s) + 1 /\ Append(s, b)[Len(s) + 1] = b
        /\ \A i \in 1 .. Len(s) : Append(s, b)[i] = s[i]
    BY <1>2, AppendProperties, SMT
  <2>. QED
    BY <2>1, Zenon
<1>7. Len(u) = 2 /\ u[1] = a /\ u[2] = b
  BY <1>3, <1>5, <1>6, SMT
<1>8. \A i \in 1 .. 2 : i = 1 \/ i = 2
  BY SMT
<1>9. Len(u) = Len(t) /\ \A i \in 1 .. Len(u) : u[i] = t[i]
  BY <1>4, <1>5, <1>7, <1>8, Zenon
<1>10. u = t
  BY <1>9, SeqEqual, Zenon
<1>. QED
  BY <1>5, <1>6, <1>10, Zenon

LEMMA PlaceWordKeeps ==
  ASSUME NEW font, NEW C, NEW string, NEW maxWidth, NEW maxLines,
         IsTextFor(font, C, maxWidth, maxLines),
         NEW s, IsOpen(font, C, string, maxWidth, maxLines, s), s.remaining # <<>>, Len(s.lines) # maxLines - 1
  PROVE  Advances(font, C, string, maxWidth, maxLines, s, PlaceWord(font, s, maxWidth, maxLines))
<1>1. /\ IsFont(font) /\ NoCharacter \notin C /\ Space \in C /\ Ellipsis \in C
      /\ maxWidth \in Nat /\ maxLines \in Nat \ {0}
  BY Zenon DEF IsTextFor
<1>2. PICK remaining \in Seq(C), line \in Seq(C), lines \in Seq(Seq(C)) :
        remaining = s.remaining /\ line = s.line /\ lines = s.lines
  BY Zenon DEF IsOpen
<1>3. /\ Fitting(font, lines, maxWidth) /\ Len(lines) < maxLines /\ Len(lines) # maxLines - 1
      /\ line = <<>> \/ TextWidth(font, line) <= maxWidth
      /\ Tells(lines, string, Words(line) \o Words(remaining)) /\ remaining # <<>>
  BY <1>2, Zenon DEF IsOpen
<1>4. PICK word \in Seq(C), rest \in Seq(C) :
        /\ word = FirstWord(remaining) /\ rest = RestOf(remaining) /\ Len(rest) < Len(remaining)
        /\ Words(remaining) = Words(word) \o Words(rest)
  <2>1. /\ FirstWord(remaining) \in Seq(C) /\ RestOf(remaining) \in Seq(C)
        /\ Len(RestOf(remaining)) < Len(remaining)
        /\ Words(remaining) = Words(FirstWord(remaining)) \o Words(RestOf(remaining))
    BY <1>1, <1>3, FirstAndRest, Zenon
  <2>. QED
    BY <2>1, Zenon
<1>5. PICK n \in Nat : n = Len(lines)
  BY LenProperties, Zenon
<1>6. n + 2 <= maxLines /\ n + 1 <= maxLines
  BY <1>1, <1>3, <1>5, SMTT(30)
<1>7. PICK a \in Seq(C), b \in Seq(C), c \in Seq(C) : a = Words(line) /\ b = Words(word) /\ c = Words(rest)
  <2>1. \A w \in Seq(C) : Words(w) \in Seq(C)
    BY WordsOfBoth, Zenon
  <2>. QED
    BY <2>1, Zenon
<1>8. (a \o b) \o c = a \o (b \o c) /\ b \o c \in Seq(C)
  <2>1. ArePut(C, a, b, c)
    BY PutIs, Zenon
  <2>. QED
    BY <2>1, Zenon DEF ArePut
<1>9. Tells(lines, string, a \o (b \o c))
  BY <1>3, <1>4, <1>7, Zenon
<1>10. PICK short \in Seq(C) : /\ short = TruncatedText(font, word, maxWidth)
                               /\ ~ TextWidth(font, word) <= maxWidth => IsShort(font, short, maxWidth)
  BY <1>1, TruncatedIs, Zenon
<1>11. PICK joined \in Seq(C) : joined = Joined(line, word) /\ Words(joined) = a \o b
  BY <1>1, <1>7, JoinedIs, Zenon
<1> DEFINE after == PlaceWord(font, s, maxWidth, maxLines)
<1>12. ASSUME NEW l \in Seq(C), NEW ls \in Seq(Seq(C)), NEW d \in BOOLEAN, after = WrapState(rest, l, ls, d),
              KeepsTo(font, string, maxWidth, maxLines, rest, l, ls, d)
       PROVE  Advances(font, C, string, maxWidth, maxLines, s, after)
  <2>1. WrapState(rest, l, ls, d) \in Wrapping(font, C, string, maxWidth, maxLines)
    <3>1. KeepsTo(font, string, maxWidth, maxLines, rest, l, ls, d)
      BY <1>12, Zenon
    <3>. QED
      BY <3>1, WrappingIs, Zenon
  <2>2. WrapState(rest, l, ls, d).remaining = rest
    BY SMT DEF WrapState
  <2>. QED
    BY <1>2, <1>4, <1>12, <2>1, <2>2, Zenon DEF Advances
<1>13. FALSE \in BOOLEAN /\ TRUE \in BOOLEAN /\ <<>> \in Seq(C)
  BY EmptySeq, Zenon
<1>14. CASE TextWidth(font, joined) <= maxWidth
  <2>1. after = WrapState(rest, joined, lines, FALSE)
    BY <1>2, <1>4, <1>11, <1>14, Zenon DEF PlaceWord
  <2>2. Tells(lines, string, Words(joined) \o Words(rest))
    BY <1>7, <1>8, <1>9, <1>11, Zenon
  <2>3. KeepsTo(font, string, maxWidth, maxLines, rest, joined, lines, FALSE)
    BY <1>3, <1>14, <2>2, Zenon DEF KeepsTo
  <2>. QED
    BY <1>12, <1>13, <2>1, <2>3, Zenon
<1>15. CASE ~ TextWidth(font, joined) <= maxWidth /\ line = <<>>
  <2>1. after = WrapState(rest, <<>>, Append(lines, short), TRUE)
    BY <1>2, <1>4, <1>10, <1>11, <1>15, Zenon DEF PlaceWord
  <2>2. joined = word
    BY <1>11, <1>15, Zenon DEF Joined
  <2>3. Last(short) = Ellipsis /\ (short = <<Ellipsis>> \/ TextWidth(font, short) <= maxWidth)
    BY <1>10, <1>15, <2>2, Zenon DEF IsShort
  <2>4. /\ Append(lines, short) \in Seq(Seq(C)) /\ Len(Append(lines, short)) = Len(lines) + 1
        /\ Fitting(font, Append(lines, short), maxWidth) /\ SaysSo(Append(lines, short))
    BY <1>3, <2>3, OneMoreLine, Zenon
  <2>5. n + 1 <= maxLines
    BY <1>6, Zenon
  <2>6. KeepsTo(font, string, maxWidth, maxLines, rest, <<>>, Append(lines, short), TRUE)
    BY <1>5, <2>4, <2>5, Zenon DEF KeepsTo, Tells
  <2>. QED
    BY <1>12, <1>13, <2>1, <2>4, <2>6, Zenon
<1>16. CASE ~ TextWidth(font, joined) <= maxWidth /\ line # <<>> /\ TextWidth(font, word) <= maxWidth
  <2>1. after = WrapState(rest, word, Append(lines, line), FALSE)
    BY <1>2, <1>4, <1>11, <1>16, Zenon DEF PlaceWord
  <2>2. /\ Append(lines, line) \in Seq(Seq(C)) /\ Len(Append(lines, line)) = Len(lines) + 1
        /\ Fitting(font, Append(lines, line), maxWidth)
    BY <1>3, <1>16, OneMoreLine, Zenon
  <2>3. Tells(Append(lines, line), string, b \o c)
    <3>1. Tells(lines, string, Words(line) \o (b \o c))
      BY <1>7, <1>9, Zenon
    <3>2. PICK todo \in Seq(C) : todo = b \o c
      BY <1>8, Zenon
    <3>3. Tells(Append(lines, line), string, todo)
      BY <1>3, <1>16, <3>1, <3>2, OneMoreTells, Zenon
    <3>. QED
      BY <3>2, <3>3, Zenon
  <2>4. n + 1 < maxLines
    BY <1>1, <1>6, SMT
  <2>5. KeepsTo(font, string, maxWidth, maxLines, rest, word, Append(lines, line), FALSE)
    BY <1>5, <1>7, <1>16, <2>2, <2>3, <2>4, Zenon DEF KeepsTo
  <2>. QED
    BY <1>12, <1>13, <2>1, <2>2, <2>5, Zenon
<1>17. CASE ~ TextWidth(font, joined) <= maxWidth /\ line # <<>> /\ ~ TextWidth(font, word) <= maxWidth
  <2>0. (Len(lines) + 2 >= maxLines) \in BOOLEAN
    BY SMT
  <2>1. PICK d \in BOOLEAN : d = (Len(lines) + 2 >= maxLines)
    BY <2>0, Zenon
  <2>2. after = WrapState(rest, <<>>, lines \o <<line, short>>, d)
    BY <1>2, <1>4, <1>10, <1>11, <1>17, <2>1, Zenon DEF PlaceWord
  <2>3. PICK more \in Seq(Seq(C)) : more = Append(lines, line) /\ Len(more) = n + 1 /\ Fitting(font, more, maxWidth)
    BY <1>3, <1>5, <1>17, OneMoreLine, Zenon
  <2>4. Last(short) = Ellipsis /\ (short = <<Ellipsis>> \/ TextWidth(font, short) <= maxWidth)
    BY <1>10, <1>17, Zenon DEF IsShort
  <2>5. PICK all \in Seq(Seq(C)) : /\ all = Append(more, short) /\ Len(all) = (n + 1) + 1
                                   /\ Fitting(font, all, maxWidth) /\ SaysSo(all)
    BY <2>3, <2>4, OneMoreLine, Zenon
  <2>6. lines \o <<line, short>> = all
    <3>1. PICK e \in Seq(Seq(C)), g \in Seq(Seq(C)) : e = <<line>> /\ g = <<short>>
      <4>1. <<line>> \in Seq(Seq(C)) /\ <<short>> \in Seq(Seq(C))
        BY SMT
      <4>. QED
        BY <4>1, Zenon
    <3>6. \A q \in Seq(Seq(C)), l \in Seq(C) : Append(q, l) = q \o <<l>>
      BY AppendIsConcat, Zenon
    <3>2. more = lines \o e
      BY <2>3, <3>1, <3>6, Zenon
    <3>3. all = more \o g
      BY <2>5, <3>1, <3>6, Zenon
    <3>4. (lines \o e) \o g = lines \o (e \o g)
      <4>1. PICK T : T = Seq(C)
        BY Zenon
      <4>2. ArePut(T, lines, e, g)
        BY <4>1, PutIs, Zenon
      <4>. QED
        BY <4>2, Zenon DEF ArePut
    <3>5. <<line>> \o <<short>> = <<line, short>>
      <4>1. Append(<<line>>, short) = <<line, short>>
        BY PairOf, Zenon
      <4>. QED
        BY <3>1, <3>6, <4>1, Zenon
    <3>7. e \o g = <<line, short>>
      BY <3>1, <3>5, Zenon
    <3>8. all = (lines \o e) \o g
      BY <3>2, <3>3, Zenon
    <3>9. all = lines \o (e \o g)
      BY <3>4, <3>8, Zenon
    <3>. QED
      BY <3>7, <3>9, Zenon
  <2>7. Len(all) <= maxLines /\ (~ d => Len(all) < maxLines)
    <3>1. ~ d => ~ (n + 2 >= maxLines)
      BY <1>5, <2>1, Zenon
    <3>2. PICK m \in Nat : m = maxLines
      BY <1>1, Zenon
    <3>3. (n + 1) + 1 <= maxLines
      BY <1>6, <3>2, SMT
    <3>4. ~ d => (n + 1) + 1 < maxLines
      BY <1>6, <3>1, <3>2, SMT
    <3>5. Len(all) = (n + 1) + 1
      BY <2>5, Zenon
    <3>. QED
      BY <3>3, <3>4, <3>5
  <2>8. KeepsTo(font, string, maxWidth, maxLines, rest, <<>>, all, d)
    BY <2>5, <2>7, Zenon DEF KeepsTo, Tells
  <2>. QED
    BY <1>12, <1>13, <2>2, <2>6, <2>8, Zenon
<1>. QED
  BY <1>14, <1>15, <1>16, <1>17, Zenon

(* Ending is allowed when nothing is left to put, or an ellipsis says so.  *)
LEMMA EndedIs ==
  ASSUME NEW font, NEW C, NEW string, NEW maxWidth, NEW maxLines,
         NEW s, s.remaining \in Seq(C), s.line \in Seq(C), NEW lines \in Seq(Seq(C)),
         Fitting(font, lines, maxWidth), Len(lines) <= maxLines, Tells(lines, string, <<>>)
  PROVE  Advances(font, C, string, maxWidth, maxLines, s, Ended(s, lines))
<1>1. PICK r \in Seq(C), l \in Seq(C) : r = s.remaining /\ l = s.line
  BY Zenon
<1>2. KeepsTo(font, string, maxWidth, maxLines, r, l, lines, TRUE)
  BY Zenon DEF KeepsTo
<1>3. TRUE \in BOOLEAN
  BY Zenon
<1>4. WrapState(r, l, lines, TRUE) \in Wrapping(font, C, string, maxWidth, maxLines)
  BY <1>2, <1>3, WrappingIs, Zenon
<1>5. WrapState(r, l, lines, TRUE).done = TRUE
  BY SMT DEF WrapState
<1>. QED
  BY <1>1, <1>4, <1>5, Zenon DEF Ended, Advances

(* So does every step, and with nothing left to put it ends.               *)
LEMMA WrapStepKeeps ==
  ASSUME NEW font, NEW C, NEW string, NEW maxWidth, NEW maxLines,
         IsTextFor(font, C, maxWidth, maxLines),
         NEW s, IsOpen(font, C, string, maxWidth, maxLines, s)
  PROVE  /\ Advances(font, C, string, maxWidth, maxLines, s, WrapStep(font, s, maxWidth, maxLines))
         /\ s.remaining = <<>> => WrapStep(font, s, maxWidth, maxLines).done
<1>1. /\ IsFont(font) /\ NoCharacter \notin C /\ Space \in C /\ Ellipsis \in C
      /\ maxWidth \in Nat /\ maxLines \in Nat \ {0}
  BY Zenon DEF IsTextFor
<1>2. PICK remaining \in Seq(C), line \in Seq(C), lines \in Seq(Seq(C)) :
        remaining = s.remaining /\ line = s.line /\ lines = s.lines
  BY Zenon DEF IsOpen
<1>3. /\ Fitting(font, lines, maxWidth) /\ Len(lines) < maxLines
      /\ line = <<>> \/ TextWidth(font, line) <= maxWidth
      /\ Tells(lines, string, Words(line) \o Words(remaining)) /\ ~ s.done
  BY <1>2, Zenon DEF IsOpen
<1>4. PICK n \in Nat : n = Len(lines)
  BY LenProperties, Zenon
<1>5. n <= maxLines /\ n + 1 <= maxLines /\ ~ n >= maxLines
  BY <1>1, <1>3, <1>4, SMT
<1>6. <<>> \in Seq(C) /\ \A t \in Seq(C) : Words(t) \in Seq(C) /\ Words(t) \o <<>> = Words(t)
  <2>1. \A t \in Seq(C) : Words(t) \in Seq(C)
    BY WordsOfBoth, Zenon
  <2>. QED
    BY <2>1, EmptySeq, ConcatEmptySeq, Zenon
<1>7. CASE remaining = <<>>
  <2>1. Tells(lines, string, Words(line) \o <<>>)
    BY <1>3, <1>7, WordsOfNone, Zenon
  <2>2. CASE line = <<>>
    <3>1. WrapStep(font, s, maxWidth, maxLines) = Ended(s, lines)
      BY <1>2, <1>3, <1>7, <2>2, Zenon DEF WrapStep
    <3>2. Tells(lines, string, <<>>)
      BY <1>6, <2>1, <2>2, WordsOfNone, Zenon
    <3>3. Advances(font, C, string, maxWidth, maxLines, s, Ended(s, lines))
      BY <1>2, <1>3, <1>4, <1>5, <3>2, EndedIs, Zenon
    <3>4. Ended(s, lines).done
      BY SMT DEF Ended, WrapState
    <3>. QED
      BY <3>1, <3>3, <3>4, Zenon
  <2>3. CASE line # <<>>
    <3>1. WrapStep(font, s, maxWidth, maxLines) = Ended(s, Append(lines, line))
      BY <1>2, <1>3, <1>4, <1>5, <1>7, <2>3, Zenon DEF WrapStep
    <3>2. PICK more \in Seq(Seq(C)) : more = Append(lines, line) /\ Len(more) = n + 1 /\ Fitting(font, more, maxWidth)
      BY <1>3, <1>4, <2>3, OneMoreLine, Zenon
    <3>3. Tells(Append(lines, line), string, <<>>)
      BY <1>3, <1>6, <2>1, <2>3, OneMoreTells, Zenon
    <3>4. Advances(font, C, string, maxWidth, maxLines, s, Ended(s, more))
      BY <1>2, <1>5, <3>2, <3>3, EndedIs, Zenon
    <3>5. Ended(s, more).done
      BY SMT DEF Ended, WrapState
    <3>. QED
      BY <3>1, <3>2, <3>4, <3>5, Zenon
  <2>. QED
    BY <2>2, <2>3, Zenon
<1>8. CASE remaining # <<>> /\ Len(lines) = maxLines - 1
  <2>1. PICK joined \in Seq(C) : joined = Joined(line, remaining) /\ Words(joined) = Words(line) \o Words(remaining)
    BY <1>1, JoinedIs, Zenon
  <2>2. PICK t \in Seq(C) : /\ t = TruncatedText(font, joined, maxWidth)
                            /\ IF TextWidth(font, joined) <= maxWidth THEN t = joined ELSE IsShort(font, t, maxWidth)
    BY <1>1, TruncatedIs, Zenon
  <2>3. WrapStep(font, s, maxWidth, maxLines) = Ended(s, Append(lines, t))
    BY <1>2, <1>3, <1>8, <2>1, <2>2, Zenon DEF WrapStep
  <2>4. t = <<Ellipsis>> \/ TextWidth(font, t) <= maxWidth
    BY <2>2, Zenon DEF IsShort
  <2>5. PICK more \in Seq(Seq(C)) : /\ more = Append(lines, t) /\ Len(more) = n + 1 /\ Fitting(font, more, maxWidth)
                                    /\ Last(t) = Ellipsis => SaysSo(more)
    BY <1>3, <1>4, <2>4, OneMoreLine, Zenon
  <2>6. Tells(more, string, <<>>)
    <3>1. CASE t = joined
      <4>1. Tells(lines, string, Words(t) \o <<>>)
        BY <1>3, <1>6, <2>1, <3>1, Zenon
      <4>. QED
        BY <1>3, <1>6, <2>4, <2>5, <4>1, OneMoreTells, Zenon
    <3>2. CASE t # joined
      BY <2>2, <2>5, <3>2, Zenon DEF IsShort, Tells
    <3>. QED
      BY <3>1, <3>2, Zenon
  <2>7. Advances(font, C, string, maxWidth, maxLines, s, Ended(s, more))
    BY <1>2, <1>5, <2>5, <2>6, EndedIs, Zenon
  <2>. QED
    BY <1>2, <1>8, <2>3, <2>5, <2>7, Zenon
<1>9. CASE remaining # <<>> /\ Len(lines) # maxLines - 1
  <2>1. WrapStep(font, s, maxWidth, maxLines) = PlaceWord(font, s, maxWidth, maxLines)
    BY <1>2, <1>3, <1>9, Zenon DEF WrapStep
  <2>. QED
    BY <1>2, <1>9, <2>1, PlaceWordKeeps, Zenon
<1>. QED
  BY <1>7, <1>8, <1>9, Zenon

(* What such a state says, part by part.                                   *)
LEMMA WrappingStates ==
  ASSUME NEW font, NEW C, NEW string, NEW maxWidth, NEW maxLines,
         NEW s \in Wrapping(font, C, string, maxWidth, maxLines)
  PROVE  /\ s.remaining \in Seq(C) /\ s.lines \in Seq(Seq(C))
         /\ ~ s.done => IsOpen(font, C, string, maxWidth, maxLines, s)
         /\ s.done => /\ Fitting(font, s.lines, maxWidth) /\ Len(s.lines) <= maxLines
                      /\ Tells(s.lines, string, <<>>)
<1>1. s \in WrapStates(C) /\ KeepsTo(font, string, maxWidth, maxLines, s.remaining, s.line, s.lines, s.done)
  BY Zenon DEF Wrapping
<1>2. s.remaining \in Seq(C) /\ s.line \in Seq(C) /\ s.lines \in Seq(Seq(C)) /\ s.done \in BOOLEAN
  BY <1>1, SMT DEF WrapStates
<1>. QED
  BY <1>1, <1>2, Zenon DEF KeepsTo, IsOpen

(* Every step of the loop takes a word, and it ends.                       *)
LEMMA WrappedIs ==
  ASSUME NEW font, NEW C, NEW string \in Seq(C), NEW maxWidth, NEW maxLines,
         IsTextFor(font, C, maxWidth, maxLines), maxWidth # 0
  PROVE  \E s \in Wrapping(font, C, string, maxWidth, maxLines) :
           s.done /\ WrappedText(font, string, maxWidth, maxLines) = s.lines
<1> DEFINE V == Wrapping(font, C, string, maxWidth, maxLines)
           first == WrapState(string, <<>>, <<>>, FALSE)
           Step(s) == WrapStep(font, s, maxWidth, maxLines)
           next == [n \in Nat |-> [s \in V |-> Step(s)]]
           Rounds(g) == [n \in Nat |-> IF n = 0 THEN first ELSE Step(g[n - 1])]
           wrap == CHOOSE g : g = Rounds(g)
<1>1. maxWidth \in Nat \ {0} /\ maxLines \in Nat \ {0}
  BY Zenon DEF IsTextFor
<1>2. first \in V
  <2>1. <<>> \in Seq(C) /\ <<>> \in Seq(Seq(C)) /\ FALSE \in BOOLEAN /\ Len(<<>>) = 0
    BY EmptySeq, Zenon
  <2>2. Fitting(font, <<>>, maxWidth)
    <3>1. \A i : i \notin 1 .. 0
      BY SMT
    <3>. QED
      BY <2>1, <3>1, Zenon DEF Fitting
  <2>3. Len(<<>>) < maxLines
    BY <1>1, <2>1, SMT
  <2>4. Tells(<<>>, string, Words(<<>>) \o Words(string))
    <3>1. FlattenSeq(<<>>) = <<>>
      BY <2>1, Zenon DEF FlattenSeq
    <3>2. PICK w \in Seq(C) : w = Words(string)
      <4>1. Words(string) \in Seq(C)
        BY WordsOfBoth, Zenon
      <4>. QED
        BY <4>1, Zenon
    <3>3. <<>> \o w = w
      BY ConcatEmptySeq, Zenon
    <3>. QED
      BY <3>1, <3>2, <3>3, WordsOfNone, Zenon DEF Tells
  <2>5. KeepsTo(font, string, maxWidth, maxLines, string, <<>>, <<>>, FALSE)
    BY <2>2, <2>3, <2>4, Zenon DEF KeepsTo
  <2>. QED
    BY <2>1, <2>5, WrappingIs, Zenon
<1>3. ASSUME NEW s \in V
      PROVE  /\ Step(s) \in V
             /\ s.done => Step(s) = s
             /\ ~ s.done => /\ Step(s).done \/ Len(Step(s).remaining) < Len(s.remaining)
                            /\ s.remaining = <<>> => Step(s).done
  <2>1. CASE s.done
    BY <2>1, Zenon DEF WrapStep
  <2>2. CASE ~ s.done
    <3>1. IsOpen(font, C, string, maxWidth, maxLines, s)
      BY <2>2, WrappingStates, Zenon
    <3>2. /\ Advances(font, C, string, maxWidth, maxLines, s, Step(s))
          /\ s.remaining = <<>> => Step(s).done
      BY <3>1, WrapStepKeeps, Zenon
    <3>. QED
      BY <2>2, <3>2, Zenon DEF Advances
  <2>. QED
    BY <2>1, <2>2, Zenon
<1>4. \A s \in V : s.remaining \in Seq(C)
  BY WrappingStates, Zenon
<1>5. first.remaining = string
  BY SMT DEF WrapState
<1>6. WrappedText(font, string, maxWidth, maxLines) = wrap[Len(string) + 1].lines
  <2>1. ~ (maxWidth <= 0 \/ maxLines <= 0)
    BY <1>1, SMT
  <2>. QED
    BY <2>1, Zenon DEF WrappedText
<1> HIDE DEF V, first, Step
<1>7. ASSUME NEW n \in Nat, NEW s \in V PROVE next[n][s] = Step(s)
  BY Zenon
<1>8. \A n \in Nat : \A s \in V : next[n][s] \in V
  BY <1>3, <1>7, Zenon
<1> HIDE DEF next
<1>9. PICK f : IsRecursion(V, first, next, f)
  BY <1>2, <1>8, Recursion, Zenon
<1>10. f \in [Nat -> V] /\ f[0] = first
  BY <1>9, Zenon DEF IsRecursion
<1>11. ASSUME NEW n \in Nat, n # 0 PROVE f[n] = Step(f[n - 1])
  <2>1. n - 1 \in Nat /\ n \in Nat \ {0}
    BY <1>11, SMT
  <2>2. f[n] = next[n][f[n - 1]]
    BY <1>9, <2>1, Zenon DEF IsRecursion
  <2>3. f[n - 1] \in V
    BY <1>10, <2>1, Zenon
  <2>. QED
    BY <1>7, <2>2, <2>3, Zenon
<1>12. f = Rounds(f)
  <2>1. \A n \in Nat : f[n] = IF n = 0 THEN first ELSE Step(f[n - 1])
    BY <1>10, <1>11, Zenon
  <2>. QED
    BY <1>10, <2>1, Zenon
<1>13. wrap = Rounds(wrap)
  BY <1>12, Zenon
<1> HIDE DEF wrap
<1>14. \A n \in Nat : wrap[n] = IF n = 0 THEN first ELSE Step(wrap[n - 1])
  BY <1>13, Zenon
<1>15. PICK N \in Nat : N = Len(string)
  BY LenProperties, Zenon
<1> DEFINE M == {n \in Nat : wrap[n] \in V /\ (wrap[n].done \/ Len(wrap[n].remaining) + n <= N)}
<1>16. 0 \in M
  <2>1. wrap[0] = first /\ 0 \in Nat
    BY <1>14, SMT
  <2>2. Len(first.remaining) + 0 <= N
    BY <1>5, <1>15, SMT
  <2>. QED
    BY <1>2, <2>1, <2>2, Zenon
<1>17. ASSUME NEW n \in M PROVE n + 1 \in M
  <2>1. PICK m : m = n + 1
    BY Zenon
  <2>2. m \in Nat /\ m # 0 /\ m - 1 = n /\ n \in Nat
    BY <2>1, SMT
  <2>3. PICK s \in V : s = wrap[n] /\ (s.done \/ Len(s.remaining) + n <= N)
    BY Zenon
  <2>4. wrap[m] = Step(s)
    BY <1>14, <2>2, <2>3, Zenon
  <2>5. PICK t \in V : t = Step(s) /\ (s.done => t = s) /\ (~ s.done => t.done \/ Len(t.remaining) < Len(s.remaining))
    BY <1>3, Zenon
  <2>6. PICK a \in Nat, b \in Nat : a = Len(s.remaining) /\ b = Len(t.remaining)
    <3>1. s.remaining \in Seq(C) /\ t.remaining \in Seq(C)
      BY <1>4, Zenon
    <3>. QED
      BY <3>1, LenProperties, Zenon
  <2>7. a + n <= N /\ b < a => b + m <= N
    BY <2>1, <2>2, SMT
  <2>8. t.done \/ Len(t.remaining) + m <= N
    BY <2>3, <2>5, <2>6, <2>7, Zenon
  <2>. QED
    BY <2>1, <2>2, <2>4, <2>5, <2>8, Zenon
<1>18. M = Nat
  <2>1. M \in SUBSET Nat
    BY Zenon
  <2> HIDE DEF M
  <2>. QED
    BY <1>16, <1>17, <2>1, Induction, Zenon
<1>19. PICK s \in V : s = wrap[N] /\ (s.done \/ Len(s.remaining) + N <= N)
  BY <1>18, Zenon
<1>20. s.done \/ s.remaining = <<>>
  <2>1. s.remaining \in Seq(C)
    BY <1>4, Zenon
  <2>2. Len(s.remaining) + N <= N => Len(s.remaining) = 0
    BY <2>1, LenProperties, SMT
  <2>3. Len(s.remaining) = 0 => s.remaining = <<>>
    BY <2>1, EmptySeq, SMT
  <2>. QED
    BY <1>19, <2>2, <2>3, Zenon
<1>21. Step(s) \in V /\ Step(s).done
  BY <1>3, <1>20, Zenon
<1>22. wrap[N + 1] = Step(s)
  <2>1. PICK m : m = N + 1
    BY Zenon
  <2>2. m \in Nat /\ m # 0 /\ m - 1 = N
    BY <2>1, SMT
  <2>. QED
    BY <1>14, <1>19, <2>1, <2>2, Zenon
<1>. QED
  BY <1>6, <1>15, <1>21, <1>22, Zenon DEF V

(* Every text is broken into lines that fit, in every font: wrappedText()  *)
(* makes no line too many, none too wide but for an ellipsis alone in a    *)
(* box that is narrower, and leaves no word out unless an ellipsis says    *)
(* so, for every width and number of lines (GfxRenderer.cpp:900-982).      *)
THEOREM AnyFontWrapsToFit ==
  ASSUME NEW font, IsFont(font), NEW B, NoCharacter \notin B, NEW string \in Seq(B),
         NEW maxWidth \in Nat \ {0}, NEW maxLines \in Nat \ {0}
  PROVE  FitsIn(font, WrappedText(font, string, maxWidth, maxLines), string, maxWidth, maxLines)
<1>1. PICK C : C = B \cup {Space, Ellipsis}
  BY Zenon
<1>2. NoCharacter # Space /\ NoCharacter # Ellipsis
  BY SMT DEF NoCharacter, Space, Ellipsis
<1>3. IsTextFor(font, C, maxWidth, maxLines)
  BY <1>1, <1>2, Zenon DEF IsTextFor
<1>4. string \in Seq(C)
  <2>1. B \subseteq C
    BY <1>1, Zenon
  <2>. QED
    BY <2>1, SeqMonotonic, Zenon
<1>5. PICK s \in Wrapping(font, C, string, maxWidth, maxLines) :
        s.done /\ WrappedText(font, string, maxWidth, maxLines) = s.lines
  BY <1>3, <1>4, WrappedIs, Zenon
<1>6. PICK lines \in Seq(Seq(C)) : /\ lines = s.lines /\ Fitting(font, lines, maxWidth) /\ Len(lines) <= maxLines
                                  /\ Tells(lines, string, <<>>)
  BY <1>5, WrappingStates, Zenon
<1>7. DOMAIN lines = 1 .. Len(lines)
  BY LenProperties, Zenon
<1>8. Words(FlattenSeq(lines)) \o <<>> = Words(FlattenSeq(lines))
  <2>1. FlattenSeq(lines) \in Seq(C)
    <3>1. <<>> \in Seq(C)
      BY EmptySeq, Zenon
    <3>. QED
      BY <3>1, FlattenOneMore, Zenon
  <2>2. Words(FlattenSeq(lines)) \in Seq(C)
    BY <2>1, WordsOfBoth, Zenon
  <2>. QED
    BY <2>2, ConcatEmptySeq, Zenon
<1>9. PICK w \in Int : w = TextWidth(font, <<Ellipsis>>)
  <2>1. NoCharacter \notin C
    BY <1>1, <1>2, Zenon
  <2>2. <<Ellipsis>> \in Seq(C)
    <3>1. Ellipsis \in C
      BY <1>1, Zenon
    <3>. QED
      BY <3>1, SMT
  <2>. QED
    BY <2>1, <2>2, WidthIs, Zenon
<1>10. ASSUME NEW i \in DOMAIN lines
       PROVE  TextWidth(font, lines[i]) <= maxWidth \/ (lines[i] = <<Ellipsis>> /\ IsTooNarrow(font, maxWidth))
  <2>1. lines[i] = <<Ellipsis>> \/ TextWidth(font, lines[i]) <= maxWidth
    BY <1>6, <1>7, Zenon DEF Fitting
  <2>2. w <= maxWidth \/ maxWidth < w
    BY SMT
  <2>. QED
    BY <1>9, <2>1, <2>2, Zenon DEF IsTooNarrow
<1>. QED
  BY <1>5, <1>6, <1>7, <1>8, <1>10, Zenon DEF FitsIn, Tells, SaysSo

-----------------------------------------------------------------------------
(* A text that is drawn is of the characters of the texts; one that is     *)
(* broken into lines has a width and some lines to fit.                    *)
Wrappable == {"V", "i", Space}
IsToDraw(string) == string \in Seq(Characters)
IsToWrap(string, maxWidth, maxLines) ==
  string \in Seq(Wrappable) /\ maxWidth \in Nat \ {0} /\ maxLines \in Nat \ {0}
TextInv ==
  /\ text.op = "draw" => IsToDraw(text.string)
  /\ text.op = "wrap" => IsToWrap(text.string, text.maxWidth, text.maxLines)

(* The texts that are tried are sequences of their characters.             *)
LEMMA TextsAreSequences ==
  ASSUME NEW C, NEW s \in TextsOf(C)
  PROVE  s \in Seq(C)
<1>1. PICK n \in 1 .. MaxText : s \in [1 .. n -> C]
  BY Zenon DEF TextsOf
<1>2. n \in Nat
  BY TextAssumption, SMT
<1>3. s \in UNION {[1 .. k -> C] : k \in Nat}
  BY <1>1, <1>2, Zenon
<1>. QED
  BY <1>3, SeqDef, Zenon

(* A text that is set has them.                                            *)
LEMMA TextSet ==
  ASSUME SetText
  PROVE  TextInv'
<1>1. CASE \E s \in TextsOf(Characters), style \in Styles :
             text' = [op |-> "draw", string |-> s, style |-> style]
  <2>1. PICK s \in TextsOf(Characters), style \in Styles : text' = [op |-> "draw", string |-> s, style |-> style]
    BY <1>1, Zenon
  <2>2. text'.op = "draw" /\ text'.string = s
    BY <2>1, SMT
  <2>3. IsToDraw(s)
    BY TextsAreSequences, Zenon DEF IsToDraw
  <2>. QED
    BY <2>2, <2>3, SMT DEF TextInv
<1>2. CASE \E s \in TextsOf({"V", "i", Space}), maxWidth \in {4, 11, 16}, n \in 1 .. MaxLines :
             text' = [op |-> "wrap", string |-> s, maxWidth |-> maxWidth, maxLines |-> n]
  <2>1. PICK s \in TextsOf({"V", "i", Space}), maxWidth \in {4, 11, 16}, n \in 1 .. MaxLines :
          text' = [op |-> "wrap", string |-> s, maxWidth |-> maxWidth, maxLines |-> n]
    BY <1>2, Zenon
  <2>2. /\ text'.op = "wrap" /\ text'.string = s /\ text'.maxWidth = maxWidth /\ text'.maxLines = n
    BY <2>1, SMT
  <2>3. maxWidth \in Nat \ {0} /\ n \in Nat \ {0}
    BY TextAssumption, SMT
  <2>4. IsToWrap(s, maxWidth, n)
    BY <2>3, TextsAreSequences, Zenon DEF IsToWrap, Wrappable
  <2>. QED
    BY <2>2, <2>4, SMT DEF TextInv
<1>. QED
  BY <1>1, <1>2, Zenon DEF SetText

(* So it always has.                                                       *)
LEMMA TextAlwaysSet == GraphicsSpec => []TextInv
<1>1. GraphicsInit => TextInv
  BY DEF GraphicsInit, TextInit, NoDrawing, TextInv
<1>2. TextInv /\ [GraphicsNext]_graphicsVars => TextInv'
  <2> SUFFICES ASSUME TextInv, [GraphicsNext]_graphicsVars PROVE TextInv'
    OBVIOUS
  <2>1. CASE text' = text
    BY <2>1 DEF TextInv
  <2>2. CASE SetText
    BY <2>2, TextSet, Zenon
  <2>3. text' = text \/ SetText
    BY Zenon DEF GraphicsNext, graphicsVars, Download, TakeScreenshot, ReadBitmap, DrawOnce, TakeText,
                      UseFonts, UseInflate
  <2>. QED
    BY <2>1, <2>2, <2>3
<1>. QED
  BY <1>1, <1>2, PTL DEF GraphicsSpec

(* So the texts that GraphicsSpec draws are drawn as measured, in each of  *)
(* its fonts and styles (EpdFont.cpp:7-72, GfxRenderer.cpp:215-274,        *)
(* 1046-1161).                                                             *)
THEOREM TextIsAlwaysDrawnAsMeasured == GraphicsSpec => []TextIsDrawnAsMeasured
<1>1. TextInv => TextIsDrawnAsMeasured
  <2> SUFFICES ASSUME TextInv, text.op = "draw" PROVE IsDrawnAsMeasured(Family, text.style, text.string)
    BY Zenon DEF TextIsDrawnAsMeasured
  <2>1. text.string \in Seq(Characters)
    BY Zenon DEF TextInv, IsToDraw
  <2>2. Family.regular.ascender \in Int
    <3>1. Family.regular = Full
      BY SMT DEF Family
    <3>. QED
      BY <3>1, FullIsAFont, Zenon DEF IsFont
  <2>. QED
    BY <2>1, <2>2, FacesAreFonts, AnyFontDrawsAsItMeasures, TextAssumption, Zenon
<1>. QED
  BY <1>1, TextAlwaysSet, PTL

(* And the ones it breaks into lines fit, whatever their length and the    *)
(* number of lines (GfxRenderer.cpp:900-982).                              *)
THEOREM TextIsAlwaysWrappedToFit == GraphicsSpec => []WrappedTextFits
<1>1. TextInv => WrappedTextFits
  <2> SUFFICES ASSUME TextInv, text.op = "wrap"
               PROVE  FitsIn(Full, WrappedText(Full, text.string, text.maxWidth, text.maxLines),
                             text.string, text.maxWidth, text.maxLines)
    BY Zenon DEF WrappedTextFits
  <2>1. text.string \in Seq(Wrappable) /\ text.maxWidth \in Nat \ {0} /\ text.maxLines \in Nat \ {0}
    BY Zenon DEF TextInv, IsToWrap
  <2>2. NoCharacter \notin Wrappable
    BY SMT DEF NoCharacter, Wrappable, Space
  <2>. QED
    BY <2>1, <2>2, FullIsAFont, AnyFontWrapsToFit, Zenon
<1>. QED
  BY <1>1, TextAlwaysSet, PTL

-----------------------------------------------------------------------------
(* The pixels of the faces, and of the padding.                            *)
GlyphPixels == (DOMAIN Faces \cup {"none"}) \X Nat \X Nat
Buffers == Seq(GlyphPixels)

(* A glyph of a face has a size and a group.                               *)
LEMMA FaceIs ==
  ASSUME NEW face \in DOMAIN Faces
  PROVE  /\ LastGlyph(face) \in Nat /\ Glyphs(face) = 1 .. LastGlyph(face)
         /\ \A g \in Glyphs(face) :
              Width(face, g) \in Nat /\ Height(face, g) \in Nat /\ GroupOf(face, g) \in Nat
<1>1. PICK size \in Seq(Nat \X Nat) : size = Faces[face].size
  BY FontAssumption, Zenon
<1>2. Faces[face].group \in [DOMAIN size -> Nat]
  BY <1>1, FontAssumption, Zenon
<1>3. Len(size) \in Nat /\ DOMAIN size = 1 .. Len(size)
  BY LenProperties, Zenon
<1>4. \A g \in DOMAIN size : size[g] \in Nat \X Nat
  BY <1>3, ElementOfSeq, Zenon
<1>5. \A g \in DOMAIN size : size[g][1] \in Nat /\ size[g][2] \in Nat
  BY <1>4, SMT
<1>6. Glyphs(face) = DOMAIN size /\ LastGlyph(face) = Len(size)
  BY <1>1, Zenon DEF Glyphs, LastGlyph
<1>7. \A g \in DOMAIN size : GroupOf(face, g) \in Nat
  BY <1>2, Zenon DEF GroupOf
<1>8. \A g \in DOMAIN size : Width(face, g) \in Nat /\ Height(face, g) \in Nat
  BY <1>1, <1>5, Zenon DEF Width, Height
<1>. QED
  BY <1>3, <1>6, <1>7, <1>8, Zenon

(* Whole bytes have room for the pixels that are counted.                  *)
LEMMA WholeBytesIs ==
  ASSUME NEW n \in Nat
  PROVE  WholeBytes(n) \in Nat /\ n <= WholeBytes(n)
BY SMT DEF WholeBytes

(* A product of numbers is one.                                            *)
LEMMA ProductIs ==
  ASSUME NEW a \in Nat, NEW b \in Nat
  PROVE  a * b \in Nat
BY SMT

(* The pixels are of the faces, or padding.                                *)
LEMMA PixelsAre ==
  ASSUME NEW face \in DOMAIN Faces, NEW g \in Nat, NEW k \in Nat
  PROVE  <<face, g, k>> \in GlyphPixels /\ Padding \in GlyphPixels
BY SMT DEF GlyphPixels, Padding

(* The numbers of the pixels of a glyph, row by row: a place in a row of   *)
(* some width.                                                             *)
LEMMA PlaceIn ==
  ASSUME NEW s \in Nat, NEW h \in Nat, NEW k \in 1 .. s * h
  PROVE  \E q \in 0 .. h - 1 : \E r \in 0 .. s - 1 :
           q = (k - 1) \div s /\ r = (k - 1) % s /\ k = q * s + r + 1
<1>1. s \in Nat \ {0} /\ k - 1 \in Nat /\ k - 1 \in Int
  <2>1. s * h \in Nat /\ (s = 0 => s * h = 0)
    BY SMT
  <2>. QED
    BY <2>1, SMT
<1>2. PICK q \in Int, r \in 0 .. s - 1 : q = (k - 1) \div s /\ r = (k - 1) % s /\ k - 1 = s * q + r
  BY <1>1, DivMod, Zenon
<1>3. q >= 0
  <2>1. CASE q <= -1
    <3>1. s * q <= - s
      BY <1>1, <2>1, SMT
    <3>. QED
      BY <1>1, <1>2, <3>1, SMT
  <2>. QED
    BY <1>2, <2>1, SMT
<1>4. q <= h - 1
  <2>1. CASE q >= h
    <3>1. s * q >= s * h
      BY <1>1, <1>2, <2>1, SMT
    <3>. QED
      BY <1>1, <1>2, <3>1, SMT
  <2>. QED
    BY <1>2, <2>1, SMT
<1>5. s * q = q * s
  BY <1>1, <1>2, SMT
<1>6. q \in 0 .. h - 1 /\ k = q * s + r + 1
  BY <1>1, <1>2, <1>3, <1>4, <1>5, SMT
<1>. QED
  BY <1>2, <1>6, Zenon

(* And a place in a row has its number.                                    *)
LEMMA InRow ==
  ASSUME NEW s \in Nat, NEW h \in Nat, NEW q \in 0 .. h - 1, NEW r \in 0 .. s - 1
  PROVE  /\ q * s + r + 1 \in 1 .. s * h
         /\ ((q * s + r + 1) - 1) % s = r /\ ((q * s + r + 1) - 1) \div s = q
<1>1. s \in Nat \ {0} /\ q \in Int
  BY SMT
<1>2. (s * q + r) % s = r /\ (s * q + r) \div s = q
  BY <1>1, DivModOf, Zenon
<1>3. (q * s + r + 1) - 1 = s * q + r
  BY SMT
<1>4. q * s + s <= s * h
  <2>1. (q + 1) * s <= h * s
    BY SMT
  <2>. QED
    BY <2>1, SMT
<1>5. q * s \in Nat
  BY SMT
<1>6. q * s + r + 1 \in 1 .. s * h
  BY <1>4, <1>5, SMT
<1>. QED
  BY <1>2, <1>3, <1>6, Zenon

(* What a glyph looks like in its group.                                   *)
LEMMA AlignedGlyphIs ==
  ASSUME NEW face \in DOMAIN Faces, NEW g \in Glyphs(face)
  PROVE  /\ RowStride(face, g) \in Nat /\ Width(face, g) <= RowStride(face, g)
         /\ AlignedGlyph(face, g) \in Buffers
         /\ Len(AlignedGlyph(face, g)) = RowStride(face, g) * Height(face, g)
         /\ \A q \in 0 .. Height(face, g) - 1 : \A x \in 0 .. Width(face, g) - 1 :
              /\ q * RowStride(face, g) + x + 1 \in 1 .. RowStride(face, g) * Height(face, g)
              /\ AlignedGlyph(face, g)[q * RowStride(face, g) + x + 1] = <<face, g, q * Width(face, g) + x + 1>>
<1>1. PICK W \in Nat, H \in Nat, s \in Nat : W = Width(face, g) /\ H = Height(face, g) /\ s = RowStride(face, g)
  BY FaceIs, WholeBytesIs, Zenon DEF RowStride
<1>2. W <= s
  BY <1>1, WholeBytesIs, Zenon DEF RowStride
<1>3. g \in Nat
  BY FaceIs, SMT
<1>4. PICK a : a = AlignedGlyph(face, g)
  BY Zenon
<1> DEFINE P(k) == IF (k - 1) % s < W THEN <<face, g, ((k - 1) \div s) * W + ((k - 1) % s) + 1>> ELSE Padding
<1>5. a = [k \in 1 .. s * H |-> P(k)]
  BY <1>1, <1>4, Zenon DEF AlignedGlyph
<1>6. ASSUME NEW k \in 1 .. s * H PROVE P(k) \in GlyphPixels
  <2>1. PICK q \in 0 .. H - 1, r \in 0 .. s - 1 : q = (k - 1) \div s /\ r = (k - 1) % s
    BY PlaceIn, Zenon
  <2>2. q * W + r + 1 \in Nat
    BY SMT
  <2>3. <<face, g, q * W + r + 1>> \in GlyphPixels /\ Padding \in GlyphPixels
    BY <1>3, <2>2, PixelsAre, Zenon
  <2>. QED
    BY <2>1, <2>3, Zenon
<1>7. ASSUME NEW q \in 0 .. H - 1, NEW x \in 0 .. W - 1
      PROVE  q * s + x + 1 \in 1 .. s * H /\ P(q * s + x + 1) = <<face, g, q * W + x + 1>>
  <2>1. x \in 0 .. s - 1 /\ x < W
    BY <1>2, SMT
  <2>2. PICK k : k = q * s + x + 1
    BY Zenon
  <2>3. k \in 1 .. s * H /\ (k - 1) % s = x /\ (k - 1) \div s = q
    BY <2>1, <2>2, InRow, Zenon
  <2>. QED
    BY <2>1, <2>2, <2>3, Zenon
<1> HIDE DEF P
<1>8. s * H \in Nat
  BY ProductIs, Zenon
<1>9. a \in Seq(GlyphPixels) /\ Len(a) = s * H
  <2>1. a \in [1 .. s * H -> GlyphPixels]
    BY <1>5, <1>6, Zenon
  <2>. QED
    BY <1>8, <2>1, SMT
<1>10. \A q \in 0 .. H - 1 : \A x \in 0 .. W - 1 :
         q * s + x + 1 \in 1 .. s * H /\ a[q * s + x + 1] = <<face, g, q * W + x + 1>>
  BY <1>5, <1>7, Zenon
<1>. QED
  BY <1>1, <1>2, <1>4, <1>9, <1>10, Zenon DEF Buffers

(* The pixels of two buffers in a row.                                     *)
LEMMA BuffersAre ==
  ASSUME NEW s \in Buffers, NEW t \in Buffers
  PROVE  /\ s \o t \in Buffers /\ Len(s) \in Nat /\ Len(t) \in Nat /\ Len(s \o t) = Len(s) + Len(t)
         /\ \A i \in 1 .. Len(s) : (s \o t)[i] = s[i]
         /\ \A i \in 1 .. Len(t) : (s \o t)[Len(s) + i] = t[i]
<1>1. PICK k \in Nat, m \in Nat : k = Len(s) /\ m = Len(t)
  BY LenProperties, Zenon DEF Buffers
<1>2. /\ s \o t \in Seq(GlyphPixels) /\ Len(s \o t) = Len(s) + Len(t)
      /\ \A i \in 1 .. Len(s) + Len(t) : (s \o t)[i] = IF i <= Len(s) THEN s[i] ELSE t[i - Len(s)]
  BY ConcatProperties, Zenon DEF Buffers
<1>3. \A i \in 1 .. k + m : (s \o t)[i] = IF i <= k THEN s[i] ELSE t[i - k]
  BY <1>1, <1>2, Zenon
<1>4. ASSUME NEW i \in 1 .. k PROVE (s \o t)[i] = s[i]
  <2>1. i \in 1 .. k + m /\ i <= k
    BY SMT
  <2>. QED
    BY <1>3, <2>1, Zenon
<1>5. ASSUME NEW i \in 1 .. m PROVE (s \o t)[k + i] = t[i]
  <2>1. PICK j : j = k + i
    BY Zenon
  <2>2. j \in 1 .. k + m /\ ~ (j <= k) /\ j - k = i
    BY <2>1, SMT
  <2>. QED
    BY <1>3, <2>1, <2>2, Zenon
<1>. QED
  BY <1>1, <1>2, <1>4, <1>5, Zenon DEF Buffers

(* What a group has of a glyph: nothing if it is not one of its own.       *)
PartOf(face, group, g) == IF GroupOf(face, g) = group THEN AlignedGlyph(face, g) ELSE <<>>

(* Its pixels are counted as they are joined.                              *)
LEMMA PartIs ==
  ASSUME NEW face \in DOMAIN Faces, NEW g \in Glyphs(face), NEW group
  PROVE  /\ PartOf(face, group, g) \in Buffers
         /\ Len(PartOf(face, group, g)) = IF GroupOf(face, g) = group THEN RowStride(face, g) * Height(face, g) ELSE 0
<1>1. PICK none \in Buffers : none = <<>> /\ Len(none) = 0
  BY EmptySeq, Zenon DEF Buffers
<1>2. AlignedGlyph(face, g) \in Buffers /\ Len(AlignedGlyph(face, g)) = RowStride(face, g) * Height(face, g)
  BY AlignedGlyphIs, Zenon
<1>3. CASE GroupOf(face, g) = group
  BY <1>2, <1>3, Zenon DEF PartOf
<1>4. CASE GroupOf(face, g) # group
  <2>1. PartOf(face, group, g) = none
    BY <1>1, <1>4, Zenon DEF PartOf
  <2>. QED
    BY <1>1, <1>4, <2>1, Zenon
<1>. QED
  BY <1>3, <1>4

(* The pixels of a group are put together glyph by glyph, ...              *)
LEMMA GroupIsJoined ==
  ASSUME NEW face \in DOMAIN Faces, NEW group
  PROVE  \E w : /\ w \in [0 .. LastGlyph(face) -> Buffers] /\ w[0] = <<>>
                /\ \A g \in 1 .. LastGlyph(face) : w[g] = w[g - 1] \o PartOf(face, group, g)
                /\ GroupPixels(face, group) = w[LastGlyph(face)]
<1> DEFINE E(i, v) == v \o (IF GroupOf(face, i) = group THEN AlignedGlyph(face, i) ELSE <<>>)
           Rounds(g) ==
             [i \in 0 .. LastGlyph(face) |->
                IF i = 0 THEN <<>>
                ELSE g[i - 1] \o (IF GroupOf(face, i) = group THEN AlignedGlyph(face, i) ELSE <<>>)]
           w == CHOOSE g : g = Rounds(g)
           next == [i \in Nat |-> [v \in Buffers |-> IF i \in 1 .. LastGlyph(face) THEN E(i, v) ELSE v]]
<1>1. LastGlyph(face) \in Nat
  BY FaceIs, Zenon
<1>2. <<>> \in Buffers
  BY EmptySeq, Zenon DEF Buffers
<1>3. ASSUME NEW i \in 1 .. LastGlyph(face), NEW v \in Buffers PROVE E(i, v) \in Buffers
  <2>1. i \in Glyphs(face)
    BY FaceIs, Zenon
  <2>2. PartOf(face, group, i) \in Buffers
    BY <2>1, PartIs, Zenon
  <2>. QED
    BY <2>2, BuffersAre, Zenon DEF PartOf
<1>4. GroupPixels(face, group) = w[LastGlyph(face)]
  BY Zenon DEF GroupPixels
<1>5. \A g : Rounds(g) = [i \in 0 .. LastGlyph(face) |-> IF i = 0 THEN <<>> ELSE E(i, g[i - 1])]
  BY Zenon
<1> HIDE DEF E, Rounds
<1>6. \A i \in 1 .. LastGlyph(face) : i \in Nat /\ i # 0 /\ i \in 0 .. LastGlyph(face)
  BY <1>1, SMT
<1>7. \A i \in 1 .. LastGlyph(face) : \A v \in Buffers : next[i][v] = E(i, v) /\ next[i][v] \in Buffers
  BY <1>3, <1>6, Zenon
<1>8. \A i \in Nat : \A v \in Buffers : next[i][v] \in Buffers
  BY <1>3, Zenon
<1> HIDE DEF next
<1>9. PICK f : IsUpTo(Buffers, <<>>, next, LastGlyph(face), f)
  BY <1>1, <1>2, <1>8, UpToExists, Zenon
<1>10. /\ f \in [0 .. LastGlyph(face) -> Buffers] /\ f[0] = <<>>
       /\ \A i \in 1 .. LastGlyph(face) : f[i] = next[i][f[i - 1]]
  BY <1>9, Zenon DEF IsUpTo
<1>11. \A i \in 1 .. LastGlyph(face) : i - 1 \in 0 .. LastGlyph(face)
  BY <1>1, SMT
<1>12. \A i \in 0 .. LastGlyph(face) : i = 0 \/ i \in 1 .. LastGlyph(face)
  BY <1>1, SMT
<1>13. \A i \in 0 .. LastGlyph(face) : f[i] = IF i = 0 THEN <<>> ELSE E(i, f[i - 1])
  BY <1>7, <1>10, <1>11, <1>12, Zenon
<1>14. f = Rounds(f)
  BY <1>5, <1>10, <1>13, Zenon
<1>15. w = Rounds(w)
  BY <1>14, Zenon
<1> HIDE DEF w
<1>16. 0 \in 0 .. LastGlyph(face)
  BY <1>1, SMT
<1>17. /\ w = [i \in 0 .. LastGlyph(face) |-> w[i]] /\ w[0] = <<>>
       /\ \A i \in 1 .. LastGlyph(face) : w[i] = E(i, w[i - 1])
  BY <1>5, <1>6, <1>15, <1>16, Zenon
<1>18. \A i \in 1 .. LastGlyph(face) : w[i - 1] \in Buffers => w[i] = next[i][w[i - 1]]
  BY <1>7, <1>17, Zenon
<1>19. \A i \in 1 .. LastGlyph(face) : \A v \in Buffers : next[i][v] \in Buffers
  BY <1>7, Zenon
<1>20. IsUpTo(Buffers, <<>>, next, LastGlyph(face), w)
  BY <1>1, <1>2, <1>17, <1>18, <1>19, FunctionUpTo, Zenon
<1>21. w \in [0 .. LastGlyph(face) -> Buffers]
  BY <1>20, Zenon DEF IsUpTo
<1>22. \A g \in 1 .. LastGlyph(face) : w[g] = w[g - 1] \o PartOf(face, group, g)
  BY <1>17, Zenon DEF E, PartOf
<1>. QED
  BY <1>4, <1>17, <1>21, <1>22, Zenon

(* ... and the offset of a glyph is counted the same way.                  *)
LEMMA OffsetIsCounted ==
  ASSUME NEW face \in DOMAIN Faces, NEW group, NEW g \in Glyphs(face)
  PROVE  \E w : /\ w \in [0 .. g - 1 -> Nat] /\ w[0] = 0
                /\ \A h \in 1 .. g - 1 : w[h] = w[h - 1] + Len(PartOf(face, group, h))
                /\ AlignedOffset(face, group, g) = w[g - 1]
<1> DEFINE E(i, v) == v + (IF GroupOf(face, i) = group THEN RowStride(face, i) * Height(face, i) ELSE 0)
           Rounds(f) ==
             [i \in 0 .. g - 1 |->
                IF i = 0 THEN 0
                ELSE f[i - 1] + (IF GroupOf(face, i) = group THEN RowStride(face, i) * Height(face, i) ELSE 0)]
           w == CHOOSE f : f = Rounds(f)
           next == [i \in Nat |-> [v \in Nat |-> IF i \in 1 .. g - 1 THEN E(i, v) ELSE v]]
<1>1. g - 1 \in Nat
  BY FaceIs, SMT
<1>2. 0 \in Nat
  BY SMT
<1>3. ASSUME NEW i \in 1 .. g - 1, NEW v \in Nat PROVE E(i, v) \in Nat
  <2>1. i \in Glyphs(face)
    BY FaceIs, SMT
  <2>2. RowStride(face, i) * Height(face, i) \in Nat
    BY <2>1, FaceIs, AlignedGlyphIs, ProductIs, Zenon
  <2>. QED
    BY <2>2, SMT
<1>4. AlignedOffset(face, group, g) = w[g - 1]
  BY Zenon DEF AlignedOffset
<1>5. \A f : Rounds(f) = [i \in 0 .. g - 1 |-> IF i = 0 THEN 0 ELSE E(i, f[i - 1])]
  BY Zenon
<1> HIDE DEF E, Rounds
<1>6. \A i \in 1 .. g - 1 : i \in Nat /\ i # 0 /\ i \in 0 .. g - 1
  BY <1>1, SMT
<1>7. \A i \in 1 .. g - 1 : \A v \in Nat : next[i][v] = E(i, v) /\ next[i][v] \in Nat
  BY <1>3, <1>6, Zenon
<1>8. \A i \in Nat : \A v \in Nat : next[i][v] \in Nat
  BY <1>3, Zenon
<1> HIDE DEF next
<1>9. PICK f : IsUpTo(Nat, 0, next, g - 1, f)
  BY <1>1, <1>2, <1>8, UpToExists, Zenon
<1>10. /\ f \in [0 .. g - 1 -> Nat] /\ f[0] = 0
       /\ \A i \in 1 .. g - 1 : f[i] = next[i][f[i - 1]]
  BY <1>9, Zenon DEF IsUpTo
<1>11. \A i \in 1 .. g - 1 : i - 1 \in 0 .. g - 1
  BY <1>1, SMT
<1>12. \A i \in 0 .. g - 1 : i = 0 \/ i \in 1 .. g - 1
  BY <1>1, SMT
<1>13. \A i \in 0 .. g - 1 : f[i] = IF i = 0 THEN 0 ELSE E(i, f[i - 1])
  BY <1>7, <1>10, <1>11, <1>12, Zenon
<1>14. f = Rounds(f)
  BY <1>5, <1>10, <1>13, Zenon
<1>15. w = Rounds(w)
  BY <1>14, Zenon
<1> HIDE DEF w
<1>16. 0 \in 0 .. g - 1
  BY <1>1, SMT
<1>17. /\ w = [i \in 0 .. g - 1 |-> w[i]] /\ w[0] = 0
       /\ \A i \in 1 .. g - 1 : w[i] = E(i, w[i - 1])
  BY <1>5, <1>6, <1>15, <1>16, Zenon
<1>18. \A i \in 1 .. g - 1 : w[i - 1] \in Nat => w[i] = next[i][w[i - 1]]
  BY <1>7, <1>17, Zenon
<1>19. \A i \in 1 .. g - 1 : \A v \in Nat : next[i][v] \in Nat
  BY <1>7, Zenon
<1>20. IsUpTo(Nat, 0, next, g - 1, w)
  BY <1>1, <1>2, <1>17, <1>18, <1>19, FunctionUpTo, Zenon
<1>21. w \in [0 .. g - 1 -> Nat]
  BY <1>20, Zenon DEF IsUpTo
<1>22. ASSUME NEW h \in 1 .. g - 1 PROVE w[h] = w[h - 1] + Len(PartOf(face, group, h))
  <2>1. h \in Glyphs(face)
    BY FaceIs, SMT
  <2>2. Len(PartOf(face, group, h)) = IF GroupOf(face, h) = group THEN RowStride(face, h) * Height(face, h) ELSE 0
    BY <2>1, PartIs, Zenon
  <2>3. w[h] = w[h - 1] + (IF GroupOf(face, h) = group THEN RowStride(face, h) * Height(face, h) ELSE 0)
    BY <1>17, Zenon DEF E
  <2>. QED
    BY <2>2, <2>3, Zenon
<1>. QED
  BY <1>4, <1>17, <1>21, <1>22, Zenon

(* So the glyph stands in the pixels of its group where it is looked for.  *)
LEMMA GroupHolds ==
  ASSUME NEW face \in DOMAIN Faces, NEW g \in Glyphs(face), NEW group, group = GroupOf(face, g)
  PROVE  /\ AlignedOffset(face, group, g) \in Nat
         /\ \A j \in 1 .. RowStride(face, g) * Height(face, g) :
              GroupPixels(face, group)[AlignedOffset(face, group, g) + j] = AlignedGlyph(face, g)[j]
<1>1. PICK N \in Nat : N = LastGlyph(face) /\ Glyphs(face) = 1 .. N
  BY FaceIs, Zenon
<1>2. PICK w : /\ w \in [0 .. N -> Buffers] /\ w[0] = <<>>
               /\ \A h \in 1 .. N : w[h] = w[h - 1] \o PartOf(face, group, h)
               /\ GroupPixels(face, group) = w[N]
  BY <1>1, GroupIsJoined, Zenon
<1>3. PICK u : /\ u \in [0 .. g - 1 -> Nat] /\ u[0] = 0
               /\ \A h \in 1 .. g - 1 : u[h] = u[h - 1] + Len(PartOf(face, group, h))
               /\ AlignedOffset(face, group, g) = u[g - 1]
  BY OffsetIsCounted, SMTT(20)
<1>4. PICK before \in Nat : before = g - 1
  BY <1>1, SMT
<1>5. /\ g \in 1 .. N /\ before \in 0 .. N /\ g \in 0 .. N /\ before \in 0 .. before
      /\ \A h \in 1 .. before : h \in 1 .. N /\ h - 1 \in 0 .. N /\ h \in 0 .. N /\ h - 1 \in 0 .. before
  BY <1>1, <1>4, SMT
<1> DEFINE S == {h \in 0 .. before : Len(w[h]) = u[h]}
<1>6. 0 \in S
  <2>1. 0 \in 0 .. before /\ Len(<<>>) = 0
    BY SMT
  <2>. QED
    BY <1>2, <1>3, <2>1, Zenon
<1>7. ASSUME NEW h \in 1 .. before, h - 1 \in S PROVE h \in S
  <2>1. h \in 0 .. before /\ h \in Glyphs(face)
    BY <1>1, <1>5, SMT
  <2>2. PICK p \in Buffers, v \in Buffers : p = PartOf(face, group, h) /\ v = w[h - 1]
    BY <1>2, <1>5, <2>1, PartIs, Zenon
  <2>3. Len(w[h]) = Len(w[h - 1]) + Len(PartOf(face, group, h))
    <3>1. w[h] = v \o p
      BY <1>2, <1>5, <2>2, Zenon
    <3>2. Len(v \o p) = Len(v) + Len(p)
      BY BuffersAre, Zenon
    <3>. QED
      BY <2>2, <3>1, <3>2, Zenon
  <2>4. u[h] = u[h - 1] + Len(PartOf(face, group, h))
    BY <1>3, <1>4, Zenon
  <2>5. Len(w[h - 1]) = u[h - 1]
    BY <1>7, Zenon
  <2>. QED
    BY <2>1, <2>3, <2>4, <2>5, Zenon
<1>8. Len(w[before]) = u[before]
  <2>1. 0 .. before \subseteq S
    <3> HIDE DEF S
    <3>. QED
      BY <1>6, <1>7, InductionUpTo, Zenon
  <2>. QED
    BY <1>5, <2>1, Zenon
<1>9. PICK o \in Nat : o = AlignedOffset(face, group, g) /\ o = Len(w[before])
  BY <1>3, <1>4, <1>5, <1>8, Zenon
<1>10. PICK a \in Buffers : a = AlignedGlyph(face, g)
  BY AlignedGlyphIs, Zenon
<1>11. PICK m \in Nat : m = Len(a) /\ m = RowStride(face, g) * Height(face, g)
  BY <1>10, AlignedGlyphIs, LenProperties, Zenon DEF Buffers
<1>12. w[before] \in Buffers /\ w[g] = w[before] \o a
  <2>1. PartOf(face, group, g) = a
    BY <1>10, Zenon DEF PartOf
  <2>. QED
    BY <1>2, <1>4, <1>5, <2>1, Zenon
<1>13. Len(w[g]) = o + m /\ \A j \in 1 .. m : w[g][o + j] = a[j]
  <2>1. PICK v \in Buffers : v = w[before]
    BY <1>12, Zenon
  <2>2. Len(v \o a) = Len(v) + Len(a) /\ \A j \in 1 .. Len(a) : (v \o a)[Len(v) + j] = a[j]
    BY <1>10, <2>1, BuffersAre, Zenon
  <2>. QED
    BY <1>9, <1>11, <1>12, <2>1, <2>2, Zenon
<1> DEFINE T == {h \in Nat : g <= h => o + m <= Len(w[h]) /\ \A j \in 1 .. m : w[h][o + j] = a[j]}
<1>14. 0 \in T
  <2>1. 0 \in Nat /\ ~ (g <= 0)
    BY <1>5, SMT
  <2>. QED
    BY <2>1, Zenon
<1>15. ASSUME NEW h \in 1 .. N, h - 1 \in T PROVE h \in T
  <2>1. PICK k : k = h - 1
    BY Zenon
  <2>2. h \in Nat /\ k \in 0 .. N /\ (g <= h => g = h \/ g <= k) /\ h \in Glyphs(face)
    BY <1>1, <1>5, <2>1, SMT
  <2>3. CASE g = h
    <3>1. o + m <= Len(w[h])
      BY <1>13, <2>3, SMT
    <3>. QED
      BY <1>13, <2>2, <2>3, <3>1, Zenon
  <2>4. CASE g <= k
    <3>1. o + m <= Len(w[k]) /\ \A j \in 1 .. m : w[k][o + j] = a[j]
      BY <1>15, <2>1, <2>4, Zenon
    <3>2. PICK p \in Buffers : p = PartOf(face, group, h)
      BY <2>2, PartIs, Zenon
    <3>3. PICK v \in Buffers : v = w[k] /\ w[h] = v \o p
      BY <1>2, <2>1, <2>2, <3>2, Zenon
    <3>4. PICK l \in Nat, n \in Nat :
            /\ l = Len(v) /\ n = Len(p) /\ Len(v \o p) = l + n /\ \A i \in 1 .. l : (v \o p)[i] = v[i]
      <4>1. /\ Len(v) \in Nat /\ Len(p) \in Nat /\ Len(v \o p) = Len(v) + Len(p)
            /\ \A i \in 1 .. Len(v) : (v \o p)[i] = v[i]
        BY BuffersAre, Zenon
      <4>. QED
        BY <4>1, Zenon
    <3>5. o + m <= l + n
      <4>1. o + m <= Len(v)
        BY <3>1, <3>3, Zenon
      <4>. QED
        BY <3>4, <4>1, SMT
    <3>6. ASSUME NEW j \in 1 .. m PROVE w[h][o + j] = a[j]
      <4>1. PICK i : i = o + j
        BY Zenon
      <4>2. i \in 1 .. l
        <5>1. o + m <= Len(v)
          BY <3>1, <3>3, Zenon
        <5>. QED
          BY <3>4, <4>1, <5>1, SMT
      <4>3. w[h][i] = w[k][i]
        BY <3>3, <3>4, <4>2, Zenon
      <4>. QED
        BY <3>1, <4>1, <4>3, Zenon
    <3>. QED
      BY <2>2, <3>3, <3>4, <3>5, <3>6, Zenon
  <2>5. CASE ~ (g <= h)
    BY <2>2, <2>5, Zenon
  <2>. QED
    BY <2>2, <2>3, <2>4, <2>5, Zenon
<1>16. N \in T
  <2>1. N \in 0 .. N
    BY SMT
  <2>2. 0 .. N \subseteq T
    <3> HIDE DEF T
    <3>. QED
      BY <1>14, <1>15, InductionUpTo, Zenon
  <2>. QED
    BY <2>1, <2>2, Zenon
<1>17. g <= N
  BY <1>5, SMT
<1>18. \A j \in 1 .. m : w[N][o + j] = a[j]
  BY <1>16, <1>17, Zenon
<1>. QED
  BY <1>2, <1>9, <1>10, <1>11, <1>18, Zenon

(* Taken out of its group without the padding it is what it looks like.    *)
LEMMA CompactedIs ==
  ASSUME NEW face \in DOMAIN Faces, NEW g \in Glyphs(face), NEW group, group = GroupOf(face, g)
  PROVE  Compacted(GroupPixels(face, group), AlignedOffset(face, group, g), face, g) = GlyphBitmap(face, g)
<1>1. PICK W \in Nat, H \in Nat, s \in Nat : W = Width(face, g) /\ H = Height(face, g) /\ s = RowStride(face, g)
  BY FaceIs, AlignedGlyphIs, Zenon
<1>2. PICK o \in Nat : o = AlignedOffset(face, group, g)
  BY GroupHolds, Zenon
<1>3. PICK p, a : p = GroupPixels(face, group) /\ a = AlignedGlyph(face, g)
  BY Zenon
<1>4. \A j \in 1 .. s * H : p[o + j] = a[j]
  BY <1>1, <1>2, <1>3, GroupHolds, Zenon
<1>5. \A q \in 0 .. H - 1 : \A x \in 0 .. W - 1 :
        q * s + x + 1 \in 1 .. s * H /\ a[q * s + x + 1] = <<face, g, q * W + x + 1>>
  BY <1>1, <1>3, AlignedGlyphIs, Zenon
<1>6. ASSUME NEW k \in 1 .. W * H PROVE p[o + ((k - 1) \div W) * s + ((k - 1) % W) + 1] = <<face, g, k>>
  <2>1. PICK q \in 0 .. H - 1, x \in 0 .. W - 1 : q = (k - 1) \div W /\ x = (k - 1) % W /\ k = q * W + x + 1
    BY PlaceIn, Zenon
  <2>2. PICK j : j = q * s + x + 1
    BY Zenon
  <2>3. j \in 1 .. s * H /\ a[j] = <<face, g, k>>
    BY <1>5, <2>1, <2>2, Zenon
  <2>4. o + q * s + x + 1 = o + j
    <3>1. q * s \in Nat
      BY SMT
    <3>. QED
      BY <2>2, <3>1, SMT
  <2>5. p[o + j] = <<face, g, k>>
    BY <1>4, <2>3, Zenon
  <2>. QED
    BY <2>1, <2>4, <2>5, Zenon
<1>7. Compacted(p, o, face, g)
        = [k \in 1 .. W * H |-> p[o + ((k - 1) \div W) * s + ((k - 1) % W) + 1]]
  BY <1>1, Zenon DEF Compacted
<1>8. GlyphBitmap(face, g) = [k \in 1 .. W * H |-> <<face, g, k>>]
  BY <1>1, Zenon DEF GlyphBitmap
<1>. QED
  BY <1>2, <1>3, <1>6, <1>7, <1>8, Zenon

(* And so it is in the buffer of a page, but for the end of its last byte. *)
LEMMA PackedGlyphIs ==
  ASSUME NEW face \in DOMAIN Faces, NEW g \in Glyphs(face)
  PROVE  /\ PackedGlyph(face, g) \in Buffers
         /\ Width(face, g) * Height(face, g) \in Nat
         /\ Width(face, g) * Height(face, g) <= Len(PackedGlyph(face, g))
         /\ \A k \in 1 .. Width(face, g) * Height(face, g) : PackedGlyph(face, g)[k] = GlyphBitmap(face, g)[k]
<1>1. PICK n \in Nat : n = Width(face, g) * Height(face, g)
  BY FaceIs, ProductIs, Zenon
<1>2. PICK d \in Nat : d = DataLength(face, g) /\ n <= d
  BY <1>1, WholeBytesIs, Zenon DEF DataLength
<1>3. PICK b : b = GlyphBitmap(face, g)
  BY Zenon
<1>4. b = [k \in 1 .. n |-> <<face, g, k>>] /\ Len(b) = n
  <2>1. b = [k \in 1 .. n |-> <<face, g, k>>]
    BY <1>1, <1>3, Zenon DEF GlyphBitmap
  <2>. QED
    BY <2>1, SMT
<1>5. PICK p : p = PackedGlyph(face, g)
  BY Zenon
<1>6. p = [k \in 1 .. d |-> p[k]] /\ \A k \in 1 .. d : p[k] = IF k <= n THEN b[k] ELSE Padding
  <2>1. PICK c : c = Compacted(GroupPixels(face, GroupOf(face, g)), AlignedOffset(face, GroupOf(face, g), g), face, g)
    BY Zenon
  <2>2. p = [k \in 1 .. d |-> IF k <= Len(c) THEN c[k] ELSE Padding]
    BY <1>2, <1>5, <2>1, Zenon DEF PackedGlyph
  <2>3. c = b /\ Len(c) = n
    BY <1>3, <1>4, <2>1, CompactedIs, Zenon
  <2>4. \A k \in 1 .. d : p[k] = IF k <= Len(c) THEN c[k] ELSE Padding
    BY <2>2, Zenon
  <2>5. p = [k \in 1 .. d |-> p[k]]
    BY <2>2, Zenon
  <2>. QED
    BY <2>3, <2>4, <2>5, Zenon
<1>7. ASSUME NEW k \in 1 .. d PROVE p[k] \in GlyphPixels /\ (k <= n => p[k] = b[k])
  <2>1. g \in Nat /\ k \in Nat /\ (k <= n => k \in 1 .. n)
    BY FaceIs, SMT
  <2>2. <<face, g, k>> \in GlyphPixels /\ Padding \in GlyphPixels
    BY <2>1, PixelsAre, Zenon
  <2>3. CASE k <= n
    <3>1. b[k] = <<face, g, k>>
      BY <1>4, <2>1, <2>3, Zenon
    <3>. QED
      BY <1>6, <2>2, <2>3, <3>1, Zenon
  <2>4. CASE ~ (k <= n)
    BY <1>6, <2>2, <2>4, Zenon
  <2>. QED
    BY <2>3, <2>4
<1>8. p \in Seq(GlyphPixels) /\ Len(p) = d
  <2>1. p \in [1 .. d -> GlyphPixels]
    BY <1>6, <1>7, Zenon
  <2>. QED
    BY <2>1, SMT
<1>9. \A k \in 1 .. n : k \in 1 .. d /\ k <= n
  BY <1>2, SMT
<1>. QED
  BY <1>1, <1>2, <1>3, <1>5, <1>7, <1>8, <1>9, Zenon DEF Buffers

(* A glyph in the buffer of a slot.                                        *)
HoldsGlyph(buffer, o, face, g) ==
  /\ o \in Nat
  /\ o + Width(face, g) * Height(face, g) <= Len(buffer)
  /\ \A k \in 1 .. Width(face, g) * Height(face, g) : buffer[o + k] = GlyphBitmap(face, g)[k]

(* The slots of a page: what has an offset is at that offset.              *)
IsSlot(face, buffer, offset) ==
  /\ face \in DOMAIN Faces /\ buffer \in Buffers /\ offset \in [Glyphs(face) -> Int]
  /\ \A g \in Glyphs(face) : offset[g] # NotExtracted => HoldsGlyph(buffer, offset[g], face, g)
Offsets == UNION {[Glyphs(face) -> Int] : face \in DOMAIN Faces}
Slots == {s \in [face : DOMAIN Faces, buffer : Buffers, offset : Offsets] : IsSlot(s.face, s.buffer, s.offset)}
SlotsOf(face) == {s \in Slots : s.face = face}

(* A slot that is put together is one.                                     *)
LEMMA MadeSlotIs ==
  ASSUME NEW face, NEW buffer, NEW offset, IsSlot(face, buffer, offset)
  PROVE  [face |-> face, buffer |-> buffer, offset |-> offset] \in SlotsOf(face)
<1>1. face \in DOMAIN Faces /\ buffer \in Buffers /\ offset \in Offsets
  BY Zenon DEF IsSlot, Offsets
<1>2. PICK s : s = [face |-> face, buffer |-> buffer, offset |-> offset]
  BY Zenon
<1>3. s.face = face /\ s.buffer = buffer /\ s.offset = offset
  BY <1>2, SMT
<1>4. s \in [face : DOMAIN Faces, buffer : Buffers, offset : Offsets]
  BY <1>1, <1>2, SMT
<1>5. s \in Slots
  BY <1>3, <1>4, Zenon DEF Slots
<1>. QED
  BY <1>2, <1>3, <1>5, Zenon DEF SlotsOf

(* A glyph that is extracted is found at its offset, and what was          *)
(* extracted before stays where it is.                                     *)
LEMMA ExtractIs ==
  ASSUME NEW face \in DOMAIN Faces, NEW slot \in SlotsOf(face), NEW g \in Glyphs(face)
  PROVE  Extract(slot, g) \in SlotsOf(face)
<1>1. PICK b, f : b = slot.buffer /\ f = slot.offset
  BY Zenon
<1>2. slot.face = face /\ IsSlot(face, b, f)
  BY <1>1, Zenon DEF SlotsOf, Slots
<1>3. b \in Buffers /\ f \in [Glyphs(face) -> Int]
  BY <1>2, Zenon DEF IsSlot
<1>4. PICK p \in Buffers : p = PackedGlyph(face, g)
  BY PackedGlyphIs, Zenon
<1>5. PICK n \in Nat, m \in Nat, c \in Buffers :
        /\ n = Len(b) /\ m = Len(p) /\ c = b \o p /\ Len(c) = n + m
        /\ \A i \in 1 .. n : c[i] = b[i]
        /\ \A i \in 1 .. m : c[n + i] = p[i]
  <2>1. /\ b \o p \in Buffers /\ Len(b) \in Nat /\ Len(p) \in Nat /\ Len(b \o p) = Len(b) + Len(p)
        /\ \A i \in 1 .. Len(b) : (b \o p)[i] = b[i]
        /\ \A i \in 1 .. Len(p) : (b \o p)[Len(b) + i] = p[i]
    BY <1>3, BuffersAre, Zenon
  <2>. QED
    BY <2>1, Zenon
<1>6. PICK e : e = [f EXCEPT ![g] = n]
  BY Zenon
<1>7. e \in [Glyphs(face) -> Int] /\ e[g] = n /\ \A h \in Glyphs(face) : h # g => e[h] = f[h]
  <2>1. n \in Int
    BY SMT
  <2>. QED
    BY <1>3, <1>6, <2>1, Zenon
<1>8. ASSUME NEW h \in Glyphs(face), e[h] # NotExtracted PROVE HoldsGlyph(c, e[h], face, h)
  <2>1. PICK k \in Nat : k = Width(face, h) * Height(face, h)
    BY FaceIs, ProductIs, Zenon
  <2>2. PICK q : q = GlyphBitmap(face, h)
    BY Zenon
  <2>3. CASE h = g
    <3>1. k <= m /\ \A i \in 1 .. k : p[i] = q[i]
      BY <1>4, <1>5, <2>1, <2>2, <2>3, PackedGlyphIs, Zenon
    <3>2. n + k <= n + m /\ \A i \in 1 .. k : i \in 1 .. m
      BY <3>1, SMT
    <3>3. n + k <= Len(c) /\ \A i \in 1 .. k : c[n + i] = q[i]
      BY <1>5, <3>1, <3>2, Zenon
    <3>. QED
      BY <1>7, <2>1, <2>2, <2>3, <3>3, Zenon DEF HoldsGlyph
  <2>4. CASE h # g
    <3>1. PICK o : o = f[h] /\ e[h] = o
      BY <1>7, <2>4, Zenon
    <3>2. HoldsGlyph(b, o, face, h)
      BY <1>2, <1>8, <3>1, Zenon DEF IsSlot
    <3>3. o \in Nat /\ o + k <= n /\ \A i \in 1 .. k : b[o + i] = q[i]
      BY <1>5, <2>1, <2>2, <3>2, Zenon DEF HoldsGlyph
    <3>4. o + k <= n + m /\ \A i \in 1 .. k : o + i \in 1 .. n
      BY <3>3, SMT
    <3>5. o + k <= Len(c) /\ \A i \in 1 .. k : c[o + i] = q[i]
      BY <1>5, <3>3, <3>4, Zenon
    <3>. QED
      BY <2>1, <2>2, <3>1, <3>3, <3>5, Zenon DEF HoldsGlyph
  <2>. QED
    BY <2>3, <2>4
<1>9. IsSlot(face, c, e)
  BY <1>5, <1>7, <1>8, Zenon DEF IsSlot
<1>10. Extract(slot, g) = [face |-> face, buffer |-> c, offset |-> e]
  BY <1>1, <1>2, <1>4, <1>5, <1>6, Zenon DEF Extract
<1>. QED
  BY <1>9, <1>10, MadeSlotIs, Zenon

(* So it is for the glyphs of a whole group.                               *)
LEMMA ExtractGroupIs ==
  ASSUME NEW face \in DOMAIN Faces, NEW slot \in SlotsOf(face), NEW needed, NEW group
  PROVE  ExtractGroup(slot, needed, group) \in SlotsOf(face)
<1>0. slot.face = face
  BY Zenon DEF SlotsOf
<1> DEFINE E(i, v) == IF Contains(needed, i) /\ GroupOf(slot.face, i) = group THEN Extract(v, i) ELSE v
           Rounds(g) ==
             [i \in 0 .. LastGlyph(slot.face) |->
                IF i = 0 THEN slot
                ELSE IF Contains(needed, i) /\ GroupOf(slot.face, i) = group THEN Extract(g[i - 1], i) ELSE g[i - 1]]
           w == CHOOSE g : g = Rounds(g)
           next == [i \in Nat |-> [v \in SlotsOf(face) |-> IF i \in 1 .. LastGlyph(slot.face) THEN E(i, v) ELSE v]]
<1>1. LastGlyph(slot.face) \in Nat
  BY <1>0, FaceIs, Zenon
<1>2. slot \in SlotsOf(face)
  OBVIOUS
<1>3. ASSUME NEW i \in 1 .. LastGlyph(slot.face), NEW v \in SlotsOf(face) PROVE E(i, v) \in SlotsOf(face)
  <2>1. i \in Glyphs(face)
    BY <1>0, FaceIs, Zenon
  <2>2. Extract(v, i) \in SlotsOf(face)
    BY <2>1, ExtractIs, Zenon
  <2>. QED
    BY <2>2, Zenon
<1>4. ExtractGroup(slot, needed, group) = w[LastGlyph(slot.face)]
  BY Zenon DEF ExtractGroup
<1>5. \A g : Rounds(g) = [i \in 0 .. LastGlyph(slot.face) |-> IF i = 0 THEN slot ELSE E(i, g[i - 1])]
  BY Zenon
<1> HIDE DEF E, Rounds
<1>6. \A i \in 1 .. LastGlyph(slot.face) : i \in Nat /\ i # 0 /\ i \in 0 .. LastGlyph(slot.face)
  BY <1>1, SMT
<1>7. \A i \in 1 .. LastGlyph(slot.face) : \A v \in SlotsOf(face) : next[i][v] = E(i, v) /\ next[i][v] \in SlotsOf(face)
  BY <1>3, <1>6, Zenon
<1>8. \A i \in Nat : \A v \in SlotsOf(face) : next[i][v] \in SlotsOf(face)
  BY <1>3, Zenon
<1> HIDE DEF next
<1>9. PICK f : IsUpTo(SlotsOf(face), slot, next, LastGlyph(slot.face), f)
  BY <1>1, <1>2, <1>8, UpToExists, Zenon
<1>10. /\ f \in [0 .. LastGlyph(slot.face) -> SlotsOf(face)] /\ f[0] = slot
       /\ \A i \in 1 .. LastGlyph(slot.face) : f[i] = next[i][f[i - 1]]
  BY <1>9, Zenon DEF IsUpTo
<1>11. \A i \in 1 .. LastGlyph(slot.face) : i - 1 \in 0 .. LastGlyph(slot.face)
  BY <1>1, SMT
<1>12. \A i \in 0 .. LastGlyph(slot.face) : i = 0 \/ i \in 1 .. LastGlyph(slot.face)
  BY <1>1, SMT
<1>13. \A i \in 0 .. LastGlyph(slot.face) : f[i] = IF i = 0 THEN slot ELSE E(i, f[i - 1])
  BY <1>7, <1>10, <1>11, <1>12, Zenon
<1>14. f = Rounds(f)
  BY <1>5, <1>10, <1>13, Zenon
<1>15. w = Rounds(w)
  BY <1>14, Zenon
<1> HIDE DEF w
<1>16. 0 \in 0 .. LastGlyph(slot.face)
  BY <1>1, SMT
<1>17. /\ w = [i \in 0 .. LastGlyph(slot.face) |-> w[i]] /\ w[0] = slot
       /\ \A i \in 1 .. LastGlyph(slot.face) : w[i] = E(i, w[i - 1])
  BY <1>5, <1>6, <1>15, <1>16, Zenon
<1>18. \A i \in 1 .. LastGlyph(slot.face) : w[i - 1] \in SlotsOf(face) => w[i] = next[i][w[i - 1]]
  BY <1>7, <1>17, Zenon
<1>19. \A i \in 1 .. LastGlyph(slot.face) : \A v \in SlotsOf(face) : next[i][v] \in SlotsOf(face)
  BY <1>7, Zenon
<1>20. IsUpTo(SlotsOf(face), slot, next, LastGlyph(slot.face), w)
  BY <1>1, <1>2, <1>17, <1>18, <1>19, FunctionUpTo, Zenon
<1>21. w \in [0 .. LastGlyph(slot.face) -> SlotsOf(face)]
  BY <1>20, Zenon DEF IsUpTo
<1>22. LastGlyph(slot.face) \in 0 .. LastGlyph(slot.face)
  BY <1>1, SMT
<1>. QED
  BY <1>4, <1>21, <1>22, Zenon

(* The first ones of a sequence are a sequence.                            *)
LEMMA FirstOnesAre ==
  ASSUME NEW S, NEW seq \in Seq(S), NEW wanted, NEW most
  PROVE  FirstOnes(seq, wanted, most) \in Seq(S)
<1> DEFINE E(i, v) == IF seq[i] \notin wanted \/ Contains(v, seq[i]) \/ Len(v) >= most THEN v ELSE Append(v, seq[i])
           Rounds(g) ==
             [i \in 0 .. Len(seq) |->
                IF i = 0 THEN <<>>
                ELSE IF seq[i] \notin wanted \/ Contains(g[i - 1], seq[i]) \/ Len(g[i - 1]) >= most THEN g[i - 1]
                     ELSE Append(g[i - 1], seq[i])]
           w == CHOOSE g : g = Rounds(g)
           next == [i \in Nat |-> [v \in Seq(S) |-> IF i \in 1 .. Len(seq) THEN E(i, v) ELSE v]]
<1>1. Len(seq) \in Nat
  BY LenProperties, Zenon
<1>2. <<>> \in Seq(S)
  BY EmptySeq, Zenon
<1>3. ASSUME NEW i \in 1 .. Len(seq), NEW v \in Seq(S) PROVE E(i, v) \in Seq(S)
  <2>1. seq[i] \in S
    BY ElementOfSeq, Zenon
  <2>2. Append(v, seq[i]) \in Seq(S)
    BY <2>1, AppendProperties, Zenon
  <2>. QED
    BY <2>2, Zenon
<1>4. FirstOnes(seq, wanted, most) = w[Len(seq)]
  BY Zenon DEF FirstOnes
<1>5. \A g : Rounds(g) = [i \in 0 .. Len(seq) |-> IF i = 0 THEN <<>> ELSE E(i, g[i - 1])]
  BY Zenon
<1> HIDE DEF E, Rounds
<1>6. \A i \in 1 .. Len(seq) : i \in Nat /\ i # 0 /\ i \in 0 .. Len(seq)
  BY <1>1, SMT
<1>7. \A i \in 1 .. Len(seq) : \A v \in Seq(S) : next[i][v] = E(i, v) /\ next[i][v] \in Seq(S)
  BY <1>3, <1>6, Zenon
<1>8. \A i \in Nat : \A v \in Seq(S) : next[i][v] \in Seq(S)
  BY <1>3, Zenon
<1> HIDE DEF next
<1>9. PICK f : IsUpTo(Seq(S), <<>>, next, Len(seq), f)
  BY <1>1, <1>2, <1>8, UpToExists, Zenon
<1>10. /\ f \in [0 .. Len(seq) -> Seq(S)] /\ f[0] = <<>>
       /\ \A i \in 1 .. Len(seq) : f[i] = next[i][f[i - 1]]
  BY <1>9, Zenon DEF IsUpTo
<1>11. \A i \in 1 .. Len(seq) : i - 1 \in 0 .. Len(seq)
  BY <1>1, SMT
<1>12. \A i \in 0 .. Len(seq) : i = 0 \/ i \in 1 .. Len(seq)
  BY <1>1, SMT
<1>13. \A i \in 0 .. Len(seq) : f[i] = IF i = 0 THEN <<>> ELSE E(i, f[i - 1])
  BY <1>7, <1>10, <1>11, <1>12, Zenon
<1>14. f = Rounds(f)
  BY <1>5, <1>10, <1>13, Zenon
<1>15. w = Rounds(w)
  BY <1>14, Zenon
<1> HIDE DEF w
<1>16. 0 \in 0 .. Len(seq)
  BY <1>1, SMT
<1>17. /\ w = [i \in 0 .. Len(seq) |-> w[i]] /\ w[0] = <<>>
       /\ \A i \in 1 .. Len(seq) : w[i] = E(i, w[i - 1])
  BY <1>5, <1>6, <1>15, <1>16, Zenon
<1>18. \A i \in 1 .. Len(seq) : w[i - 1] \in Seq(S) => w[i] = next[i][w[i - 1]]
  BY <1>7, <1>17, Zenon
<1>19. \A i \in 1 .. Len(seq) : \A v \in Seq(S) : next[i][v] \in Seq(S)
  BY <1>7, Zenon
<1>20. IsUpTo(Seq(S), <<>>, next, Len(seq), w)
  BY <1>1, <1>2, <1>17, <1>18, <1>19, FunctionUpTo, Zenon
<1>21. w \in [0 .. Len(seq) -> Seq(S)]
  BY <1>20, Zenon DEF IsUpTo
<1>22. Len(seq) \in 0 .. Len(seq)
  BY <1>1, SMT
<1>. QED
  BY <1>4, <1>21, <1>22, Zenon

(* A slot that is filled is one, whatever groups are lost.                 *)
LEMMA FilledSlotIs ==
  ASSUME NEW face \in DOMAIN Faces, NEW S, NEW needed \in Seq(S), NEW lost
  PROVE  FilledSlot(face, needed, lost) \in SlotsOf(face)
<1> DEFINE groups == NeededGroups(face, needed)
<1>0. Len(groups) \in Nat
  <2>1. PICK n \in Nat : n = Len(needed)
    BY LenProperties, Zenon
  <2> DEFINE all == [i \in 1 .. n |-> GroupOf(face, needed[i])]
             R == {GroupOf(face, needed[i]) : i \in 1 .. n}
  <2>2. all \in [1 .. n -> R]
    BY Zenon
  <2>3. all = [i \in 1 .. Len(needed) |-> GroupOf(face, needed[i])]
    BY <2>1, Zenon
  <2>4. groups = FirstOnes(all, ToSet(all), MaxPageGroups)
    BY <2>3, Zenon DEF NeededGroups
  <2> HIDE DEF all, R
  <2>5. all \in Seq(R)
    BY <2>2, SMT
  <2>6. groups \in Seq(R)
    BY <2>4, <2>5, FirstOnesAre, Zenon
  <2>. QED
    BY <2>6, LenProperties, Zenon
<1> HIDE DEF groups
<1> DEFINE E(i, v) == IF groups[i] \in lost THEN v ELSE ExtractGroup(v, needed, groups[i])
           Rounds(g) ==
             [i \in 0 .. Len(groups) |->
                IF i = 0 THEN EmptySlot(face)
                ELSE IF groups[i] \in lost THEN g[i - 1] ELSE ExtractGroup(g[i - 1], needed, groups[i])]
           w == CHOOSE g : g = Rounds(g)
           next == [i \in Nat |-> [v \in SlotsOf(face) |-> IF i \in 1 .. Len(groups) THEN E(i, v) ELSE v]]
<1>1. Len(groups) \in Nat
  BY <1>0
<1>2. EmptySlot(face) \in SlotsOf(face)
  <2>1. PICK f : f = [g \in Glyphs(face) |-> NotExtracted]
    BY Zenon
  <2>2. NotExtracted \in Int
    BY SMT DEF NotExtracted
  <2>3. f \in [Glyphs(face) -> Int] /\ \A g \in Glyphs(face) : f[g] = NotExtracted
    BY <2>1, <2>2, Zenon
  <2>4. <<>> \in Buffers
    BY EmptySeq, Zenon DEF Buffers
  <2>5. IsSlot(face, <<>>, f)
    BY <2>3, <2>4, Zenon DEF IsSlot
  <2>6. EmptySlot(face) = [face |-> face, buffer |-> <<>>, offset |-> f]
    BY <2>1, Zenon DEF EmptySlot
  <2>. QED
    BY <2>5, <2>6, MadeSlotIs, Zenon
<1>3. ASSUME NEW i \in 1 .. Len(groups), NEW v \in SlotsOf(face) PROVE E(i, v) \in SlotsOf(face)
  <2>1. ExtractGroup(v, needed, groups[i]) \in SlotsOf(face)
    BY ExtractGroupIs, Zenon
  <2>. QED
    BY <2>1, Zenon
<1>4. FilledSlot(face, needed, lost) = w[Len(groups)]
  BY Zenon DEF FilledSlot, groups
<1>5. \A g : Rounds(g) = [i \in 0 .. Len(groups) |-> IF i = 0 THEN EmptySlot(face) ELSE E(i, g[i - 1])]
  BY Zenon
<1> HIDE DEF E, Rounds
<1>6. \A i \in 1 .. Len(groups) : i \in Nat /\ i # 0 /\ i \in 0 .. Len(groups)
  BY <1>1, SMT
<1>7. \A i \in 1 .. Len(groups) : \A v \in SlotsOf(face) : next[i][v] = E(i, v) /\ next[i][v] \in SlotsOf(face)
  BY <1>3, <1>6, Zenon
<1>8. \A i \in Nat : \A v \in SlotsOf(face) : next[i][v] \in SlotsOf(face)
  BY <1>3, Zenon
<1> HIDE DEF next
<1>9. PICK f : IsUpTo(SlotsOf(face), EmptySlot(face), next, Len(groups), f)
  BY <1>1, <1>2, <1>8, UpToExists, Zenon
<1>10. /\ f \in [0 .. Len(groups) -> SlotsOf(face)] /\ f[0] = EmptySlot(face)
       /\ \A i \in 1 .. Len(groups) : f[i] = next[i][f[i - 1]]
  BY <1>9, Zenon DEF IsUpTo
<1>11. \A i \in 1 .. Len(groups) : i - 1 \in 0 .. Len(groups)
  BY <1>1, SMT
<1>12. \A i \in 0 .. Len(groups) : i = 0 \/ i \in 1 .. Len(groups)
  BY <1>1, SMT
<1>13. \A i \in 0 .. Len(groups) : f[i] = IF i = 0 THEN EmptySlot(face) ELSE E(i, f[i - 1])
  BY <1>7, <1>10, <1>11, <1>12, Zenon
<1>14. f = Rounds(f)
  BY <1>5, <1>10, <1>13, Zenon
<1>15. w = Rounds(w)
  BY <1>14, Zenon
<1> HIDE DEF w
<1>16. 0 \in 0 .. Len(groups)
  BY <1>1, SMT
<1>17. /\ w = [i \in 0 .. Len(groups) |-> w[i]] /\ w[0] = EmptySlot(face)
       /\ \A i \in 1 .. Len(groups) : w[i] = E(i, w[i - 1])
  BY <1>5, <1>6, <1>15, <1>16, Zenon
<1>18. \A i \in 1 .. Len(groups) : w[i - 1] \in SlotsOf(face) => w[i] = next[i][w[i - 1]]
  BY <1>7, <1>17, Zenon
<1>19. \A i \in 1 .. Len(groups) : \A v \in SlotsOf(face) : next[i][v] \in SlotsOf(face)
  BY <1>7, Zenon
<1>20. IsUpTo(SlotsOf(face), EmptySlot(face), next, Len(groups), w)
  BY <1>1, <1>2, <1>17, <1>18, <1>19, FunctionUpTo, Zenon
<1>21. w \in [0 .. Len(groups) -> SlotsOf(face)]
  BY <1>20, Zenon DEF IsUpTo
<1>22. Len(groups) \in 0 .. Len(groups)
  BY <1>1, SMT
<1>. QED
  BY <1>4, <1>21, <1>22, Zenon

(* And so are the slots of a page that is prepared.                        *)
LEMMA PrewarmedAre ==
  ASSUME NEW slots \in Seq(Slots), NEW face \in DOMAIN Faces, NEW letters \in Seq(Letters), NEW lost, NEW noMemory
  PROVE  Prewarmed(slots, face, letters, lost, noMemory) \in Seq(Slots)
<1>1. PICK needed \in Seq(Letters) : needed = NeededGlyphs(face, letters)
  BY FirstOnesAre, Zenon DEF NeededGlyphs
<1>2. FilledSlot(face, needed, lost) \in Slots
  BY FilledSlotIs, Zenon DEF SlotsOf
<1>3. Append(slots, FilledSlot(face, needed, lost)) \in Seq(Slots)
  BY <1>2, AppendProperties, Zenon
<1>4. \/ Prewarmed(slots, face, letters, lost, noMemory) = slots
      \/ Prewarmed(slots, face, letters, lost, noMemory) = Append(slots, FilledSlot(face, needed, lost))
  BY <1>1, Zenon DEF Prewarmed
<1>. QED
  BY <1>3, <1>4, Zenon

(* A page prepared for all styles has slots too.                           *)
LEMMA WarmedPageIs ==
  ASSUME pageSlots \in Seq(Slots), scan.letters \in Seq(Letters), scan.family \in DOMAIN Families,
         NEW lost, NEW noMemory
  PROVE  WarmedPage(lost, noMemory) \in Seq(Slots)
<1> DEFINE E(i, v) == IF StyleNames[i] \notin scan.styles THEN v
                      ELSE Prewarmed(v, Families[scan.family][StyleNames[i]], scan.letters, lost,
                                     StyleNames[i] \in noMemory)
           Rounds(g) ==
             [i \in 0 .. Len(StyleNames) |->
                IF i = 0 THEN pageSlots
                ELSE IF StyleNames[i] \notin scan.styles THEN g[i - 1]
                         ELSE Prewarmed(g[i - 1], Families[scan.family][StyleNames[i]], scan.letters, lost,
                                        StyleNames[i] \in noMemory)]
           w == CHOOSE g : g = Rounds(g)
           next == [i \in Nat |-> [v \in Seq(Slots) |-> IF i \in 1 .. Len(StyleNames) THEN E(i, v) ELSE v]]
<1>1. Len(StyleNames) \in Nat
  BY SMT DEF StyleNames
<1>2. pageSlots \in Seq(Slots)
  OBVIOUS
<1>3. ASSUME NEW i \in 1 .. Len(StyleNames), NEW v \in Seq(Slots) PROVE E(i, v) \in Seq(Slots)
  <2>1. i \in DOMAIN StyleNames
    BY SMT DEF StyleNames
  <2>2. Families[scan.family][StyleNames[i]] \in DOMAIN Faces
    BY <2>1, FontAssumption, Zenon
  <2>3. Prewarmed(v, Families[scan.family][StyleNames[i]], scan.letters, lost, StyleNames[i] \in noMemory)
          \in Seq(Slots)
    BY <2>2, PrewarmedAre, Zenon
  <2>. QED
    BY <2>3, Zenon
<1>4. WarmedPage(lost, noMemory) = w[Len(StyleNames)]
  BY Zenon DEF WarmedPage
<1>5. \A g : Rounds(g) = [i \in 0 .. Len(StyleNames) |-> IF i = 0 THEN pageSlots ELSE E(i, g[i - 1])]
  BY Zenon
<1> HIDE DEF E, Rounds
<1>6. \A i \in 1 .. Len(StyleNames) : i \in Nat /\ i # 0 /\ i \in 0 .. Len(StyleNames)
  BY <1>1, SMT
<1>7. \A i \in 1 .. Len(StyleNames) : \A v \in Seq(Slots) : next[i][v] = E(i, v) /\ next[i][v] \in Seq(Slots)
  BY <1>3, <1>6, Zenon
<1>8. \A i \in Nat : \A v \in Seq(Slots) : next[i][v] \in Seq(Slots)
  BY <1>3, Zenon
<1> HIDE DEF next
<1>9. PICK f : IsUpTo(Seq(Slots), pageSlots, next, Len(StyleNames), f)
  BY <1>1, <1>2, <1>8, UpToExists, Zenon
<1>10. /\ f \in [0 .. Len(StyleNames) -> Seq(Slots)] /\ f[0] = pageSlots
       /\ \A i \in 1 .. Len(StyleNames) : f[i] = next[i][f[i - 1]]
  BY <1>9, Zenon DEF IsUpTo
<1>11. \A i \in 1 .. Len(StyleNames) : i - 1 \in 0 .. Len(StyleNames)
  BY <1>1, SMT
<1>12. \A i \in 0 .. Len(StyleNames) : i = 0 \/ i \in 1 .. Len(StyleNames)
  BY <1>1, SMT
<1>13. \A i \in 0 .. Len(StyleNames) : f[i] = IF i = 0 THEN pageSlots ELSE E(i, f[i - 1])
  BY <1>7, <1>10, <1>11, <1>12, Zenon
<1>14. f = Rounds(f)
  BY <1>5, <1>10, <1>13, Zenon
<1>15. w = Rounds(w)
  BY <1>14, Zenon
<1> HIDE DEF w
<1>16. 0 \in 0 .. Len(StyleNames)
  BY <1>1, SMT
<1>17. /\ w = [i \in 0 .. Len(StyleNames) |-> w[i]] /\ w[0] = pageSlots
       /\ \A i \in 1 .. Len(StyleNames) : w[i] = E(i, w[i - 1])
  BY <1>5, <1>6, <1>15, <1>16, Zenon
<1>18. \A i \in 1 .. Len(StyleNames) : w[i - 1] \in Seq(Slots) => w[i] = next[i][w[i - 1]]
  BY <1>7, <1>17, Zenon
<1>19. \A i \in 1 .. Len(StyleNames) : \A v \in Seq(Slots) : next[i][v] \in Seq(Slots)
  BY <1>7, Zenon
<1>20. IsUpTo(Seq(Slots), pageSlots, next, Len(StyleNames), w)
  BY <1>1, <1>2, <1>17, <1>18, <1>19, FunctionUpTo, Zenon
<1>21. w \in [0 .. Len(StyleNames) -> Seq(Slots)]
  BY <1>20, Zenon DEF IsUpTo
<1>22. Len(StyleNames) \in 0 .. Len(StyleNames)
  BY <1>1, SMT
<1>. QED
  BY <1>4, <1>21, <1>22, Zenon

(* What the page has of a glyph is the glyph.                              *)
LEMMA PagePixelsAre ==
  ASSUME pageSlots \in Seq(Slots), NEW face \in DOMAIN Faces, NEW g \in Glyphs(face), OnPage(face, g)
  PROVE  PagePixels(face, g) = GlyphBitmap(face, g)
<1> DEFINE of == {s \in DOMAIN pageSlots : pageSlots[s].face = face}
<1>1. of \in SUBSET Nat
  <2>1. PICK n \in Nat : n = Len(pageSlots) /\ DOMAIN pageSlots = 1 .. n
    BY LenProperties, Zenon
  <2>2. 1 .. n \subseteq Nat
    BY SMT
  <2>. QED
    BY <2>1, <2>2, Zenon
<1>2. PageSlotOf(face) = IF of = {} THEN 0 ELSE CHOOSE s \in of : \A t \in of : s <= t
  BY Zenon DEF PageSlotOf
<1>3. PageSlotOf(face) # 0 /\ pageSlots[PageSlotOf(face)].offset[g] # NotExtracted
  BY Zenon DEF OnPage
<1>4. PageSlotOf(face) \in of
  <2>1. of # {}
    BY <1>2, <1>3, Zenon
  <2> HIDE DEF of
  <2>2. \E s \in of : \A t \in of : s <= t
    BY <1>1, <2>1, LeastOf, Zenon
  <2>. QED
    BY <1>2, <2>1, <2>2, Zenon
<1>5. PICK slot \in Slots : slot = pageSlots[PageSlotOf(face)] /\ slot.face = face
  <2>1. PageSlotOf(face) \in DOMAIN pageSlots /\ pageSlots[PageSlotOf(face)].face = face
    BY <1>4, Zenon
  <2>2. DOMAIN pageSlots = 1 .. Len(pageSlots)
    BY LenProperties, Zenon
  <2>3. pageSlots[PageSlotOf(face)] \in Slots
    BY <2>1, <2>2, ElementOfSeq, Zenon
  <2>. QED
    BY <2>1, <2>3, Zenon
<1>6. PICK b, o : b = slot.buffer /\ o = slot.offset[g] /\ o # NotExtracted
  BY <1>3, <1>5, Zenon
<1>7. b \in Buffers /\ HoldsGlyph(b, o, face, g)
  BY <1>5, <1>6, Zenon DEF Slots, IsSlot
<1>8. PICK n \in Nat : n = Width(face, g) * Height(face, g)
  BY FaceIs, ProductIs, Zenon
<1>9. PICK q : q = GlyphBitmap(face, g)
  BY Zenon
<1>10. o \in Nat /\ o + n <= Len(b) /\ \A k \in 1 .. n : b[o + k] = q[k]
  BY <1>7, <1>8, <1>9, Zenon DEF HoldsGlyph
<1>11. PICK m \in Nat : m = Len(b)
  BY <1>7, LenProperties, Zenon DEF Buffers
<1>12. PICK first \in Int, last \in Int : first = o + 1 /\ last = o + n
  BY <1>10, SMT
<1>13. \A i \in first .. last : b[i] \in GlyphPixels
  <2>1. \A i \in first .. last : i \in 1 .. Len(b)
    BY <1>10, <1>11, <1>12, SMT
  <2>. QED
    BY <1>7, <2>1, ElementOfSeq, Zenon DEF Buffers
<1>14. PICK p : p = SubSeq(b, first, last)
  BY Zenon
<1>15. /\ p \in Seq(GlyphPixels) /\ Len(p) = (IF first <= last THEN last - first + 1 ELSE 0)
       /\ \A i \in 1 .. last - first + 1 : p[i] = b[first + i - 1]
  BY <1>13, <1>14, SubSeqProperties, SMTT(20)
<1>16. Len(p) = n /\ last - first + 1 = n /\ \A i \in 1 .. n : first + i - 1 = o + i
  BY <1>10, <1>12, <1>15, SMT
<1>17. p = [i \in 1 .. n |-> p[i]]
  <2>1. p \in [1 .. Len(p) -> GlyphPixels]
    BY <1>15, LenProperties, Zenon
  <2>. QED
    BY <1>16, <2>1, Zenon
<1>18. \A i \in 1 .. n : p[i] = q[i]
  BY <1>10, <1>15, <1>16, Zenon
<1>19. q = [i \in 1 .. n |-> <<face, g, i>>]
  BY <1>8, <1>9, Zenon DEF GlyphBitmap
<1>20. p = q
  BY <1>17, <1>18, <1>19, Zenon
<1>21. PagePixels(face, g) = p
  BY <1>5, <1>6, <1>8, <1>12, <1>14, Zenon DEF PagePixels
<1>. QED
  BY <1>9, <1>20, <1>21, Zenon

(* What the scope recorded, ...                                            *)
Scans == [scanning : BOOLEAN, letters : Seq(Letters), family : {0} \cup DOMAIN Families, styles : SUBSET PageStyles]
ScanInv == scan \in Scans /\ (scan.letters # <<>> => scan.family \in DOMAIN Families)

(* ... the group that was decompressed last, ...                           *)
HotInv == hotGroup.face \in DOMAIN Faces => hotGroup.pixels = GroupPixels(hotGroup.face, hotGroup.group)

(* ... the slots of the page, and what was drawn.                          *)
FontInv == pageSlots \in Seq(Slots) /\ HotInv /\ ScanInv /\ GlyphIsTheRightOne

(* A scope that is changed in one field stays one.                         *)
LEMMA ChangedScope ==
  ASSUME NEW B, NEW L, NEW F, NEW P, NEW r \in [scanning : B, letters : L, family : F, styles : P]
  PROVE  /\ \A b \in B : \A s : s = [r EXCEPT !.scanning = b] =>
              s \in [scanning : B, letters : L, family : F, styles : P] /\ s.letters = r.letters
         /\ \A l \in L : \A s : s = [r EXCEPT !.letters = l] =>
              s \in [scanning : B, letters : L, family : F, styles : P] /\ s.letters = l
<1>1. ASSUME NEW b \in B, NEW s, s = [r EXCEPT !.scanning = b]
      PROVE  s \in [scanning : B, letters : L, family : F, styles : P] /\ s.letters = r.letters
  BY <1>1, SMT
<1>2. ASSUME NEW l \in L, NEW s, s = [r EXCEPT !.letters = l]
      PROVE  s \in [scanning : B, letters : L, family : F, styles : P] /\ s.letters = l
  BY <1>2, SMT
<1>. QED
  BY <1>1, <1>2, Zenon

(* No group is none of a face.                                             *)
LEMMA NoGroupIs ==
  /\ NoGroup.face \notin DOMAIN Faces /\ <<>> \in Seq(Slots)
  /\ NoScope \in Scans /\ NoScope.letters = <<>> /\ [NoScope EXCEPT !.scanning = TRUE] \in Scans
  /\ [NoScope EXCEPT !.scanning = TRUE].letters = <<>>
<1>1. NoGroup.face = "none"
  BY SMT DEF NoGroup
<1>2. <<>> \in Seq(Slots) /\ <<>> \in Seq(Letters)
  BY EmptySeq, Zenon
<1>3. NoScope \in Scans /\ NoScope.letters = <<>>
  BY <1>2, SMT DEF NoScope, Scans
<1>4. [NoScope EXCEPT !.scanning = TRUE] \in Scans /\ [NoScope EXCEPT !.scanning = TRUE].letters = <<>>
  BY <1>3, ChangedScope, Zenon DEF Scans
<1>. QED
  BY <1>1, <1>2, <1>3, <1>4, FontAssumption, Zenon

(* It starts with nothing prepared, ...                                    *)
LEMMA FontStarts == FontInit => FontInv
BY NoGroupIs, Zenon DEF FontInit, FontInv, HotInv, ScanInv, GlyphIsTheRightOne

(* ... and so a scope opens ...                                            *)
LEMMA ScopeOpened ==
  ASSUME FontInv, OpenScope
  PROVE  FontInv'
<1>1. /\ scan' = [NoScope EXCEPT !.scanning = TRUE] /\ pageSlots' = <<>> /\ hotGroup' = NoGroup
      /\ drawn' = drawn
  BY Zenon DEF OpenScope
<1>2. pageSlots' \in Seq(Slots) /\ HotInv'
  BY <1>1, NoGroupIs, Zenon DEF HotInv
<1>3. ScanInv'
  BY <1>1, NoGroupIs, Zenon DEF ScanInv
<1>4. GlyphIsTheRightOne'
  BY <1>1, Zenon DEF FontInv, GlyphIsTheRightOne
<1>. QED
  BY <1>2, <1>3, <1>4, Zenon DEF FontInv

(* ... and closes.                                                         *)
LEMMA ScopeClosed ==
  ASSUME FontInv, CloseScope
  PROVE  FontInv'
<1>1. scan' = NoScope /\ pageSlots' = <<>> /\ hotGroup' = NoGroup /\ drawn' = drawn
  BY Zenon DEF CloseScope
<1>2. pageSlots' \in Seq(Slots) /\ HotInv'
  BY <1>1, NoGroupIs, Zenon DEF HotInv
<1>3. ScanInv'
  BY <1>1, NoGroupIs, Zenon DEF ScanInv
<1>4. GlyphIsTheRightOne'
  BY <1>1, Zenon DEF FontInv, GlyphIsTheRightOne
<1>. QED
  BY <1>2, <1>3, <1>4, Zenon DEF FontInv

(* A letter is recorded with the family of the first one.                  *)
LEMMA TextRecorded ==
  ASSUME FontInv, NEW family \in DOMAIN Families, NEW style \in PageStyles, NEW letter \in Letters,
         RecordText(family, style, letter)
  PROVE  FontInv'
<1>1. pageSlots' = pageSlots /\ hotGroup' = hotGroup /\ drawn' = drawn
  BY Zenon DEF RecordText
<1>2. PICK letters, first, styles :
        /\ letters = Append(scan.letters, letter) /\ first = (IF scan.family = 0 THEN family ELSE scan.family)
        /\ styles = scan.styles \cup {style}
        /\ scan' = [scanning |-> TRUE, letters |-> letters, family |-> first, styles |-> styles]
  BY Zenon DEF RecordText
<1>3. scan.letters \in Seq(Letters) /\ scan.family \in {0} \cup DOMAIN Families /\ scan.styles \in SUBSET PageStyles
  BY SMT DEF FontInv, ScanInv, Scans
<1>4. letters \in Seq(Letters)
  BY <1>2, <1>3, AppendProperties, Zenon
<1>5. first \in DOMAIN Families /\ styles \in SUBSET PageStyles
  BY <1>2, <1>3, Zenon
<1>6. scan' \in Scans /\ scan'.family = first
  BY <1>2, <1>4, <1>5, SMT DEF Scans
<1>7. ScanInv'
  BY <1>5, <1>6, Zenon DEF ScanInv, Scans
<1>8. HotInv' /\ GlyphIsTheRightOne'
  BY <1>1, Zenon DEF FontInv, HotInv, GlyphIsTheRightOne
<1>. QED
  BY <1>1, <1>7, <1>8, Zenon DEF FontInv

(* The page is prepared.                                                   *)
LEMMA ScanEnded ==
  ASSUME FontInv, NEW lost, NEW noMemory, EndScan(lost, noMemory)
  PROVE  FontInv'
<1>1. PICK r : r = [scan EXCEPT !.scanning = FALSE]
  BY Zenon
<1>2. PICK s : s = [r EXCEPT !.letters = <<>>]
  BY Zenon
<1>3. /\ scan' = s /\ hotGroup' = hotGroup /\ drawn' = drawn
      /\ pageSlots' = IF scan.letters = <<>> THEN pageSlots ELSE WarmedPage(lost, noMemory)
  BY <1>1, <1>2, Zenon DEF EndScan
<1>4. scan \in Scans /\ scan.letters \in Seq(Letters)
  BY SMT DEF FontInv, ScanInv, Scans
<1>5. r \in Scans
  BY <1>1, <1>4, ChangedScope, Zenon DEF Scans
<1>6. s \in Scans /\ s.letters = <<>>
  <2>1. <<>> \in Seq(Letters)
    BY EmptySeq, Zenon
  <2>. QED
    BY <1>2, <1>5, <2>1, ChangedScope, Zenon DEF Scans
<1>7. ScanInv'
  BY <1>3, <1>6, Zenon DEF ScanInv, Scans
<1>8. pageSlots' \in Seq(Slots)
  <2>1. CASE scan.letters = <<>>
    BY <1>3, <2>1, Zenon DEF FontInv
  <2>2. CASE scan.letters # <<>>
    <3>1. pageSlots \in Seq(Slots) /\ scan.family \in DOMAIN Families
      BY <2>2, Zenon DEF FontInv, ScanInv
    <3>. QED
      BY <1>3, <1>4, <2>2, <3>1, WarmedPageIs, Zenon
  <2>. QED
    BY <2>1, <2>2, Zenon
<1>9. HotInv' /\ GlyphIsTheRightOne'
  BY <1>3, Zenon DEF FontInv, HotInv, GlyphIsTheRightOne
<1>. QED
  BY <1>7, <1>8, <1>9, Zenon DEF FontInv

(* A glyph is drawn from the page, ...                                     *)
LEMMA PageGlyphDrawn ==
  ASSUME FontInv, NEW face \in DOMAIN Faces, NEW g \in Glyphs(face), DrawPageGlyph(face, g)
  PROVE  FontInv'
<1>1. /\ pageSlots' = pageSlots /\ hotGroup' = hotGroup /\ scan' = scan /\ OnPage(face, g)
      /\ drawn' = [face |-> face, glyph |-> g, pixels |-> PagePixels(face, g)]
  BY Zenon DEF DrawPageGlyph
<1>2. pageSlots \in Seq(Slots)
  BY Zenon DEF FontInv
<1>3. drawn'.face = face /\ drawn'.glyph = g /\ drawn'.pixels = PagePixels(face, g)
  BY <1>1, SMT
<1>4. PagePixels(face, g) = GlyphBitmap(face, g)
  BY <1>1, <1>2, PagePixelsAre, Zenon
<1>5. (drawn # Nothing => drawn.pixels = GlyphBitmap(drawn.face, drawn.glyph))'
  BY <1>3, <1>4, Zenon DEF GlyphBitmap, Width, Height
<1>6. HotInv' /\ ScanInv'
  BY <1>1, Zenon DEF FontInv, HotInv, ScanInv
<1>. QED
  BY <1>1, <1>2, <1>5, <1>6, Zenon DEF FontInv, GlyphIsTheRightOne

(* ... from the group that was decompressed last, or is now, ...           *)
LEMMA HotGlyphDrawn ==
  ASSUME FontInv, NEW face \in DOMAIN Faces, NEW g \in Glyphs(face), DrawHotGlyph(face, g)
  PROVE  FontInv'
<1>1. PICK group, hot :
        /\ group = GroupOf(face, g)
        /\ hot = (IF IsHot(face, group) THEN hotGroup
                  ELSE [face |-> face, group |-> group, pixels |-> GroupPixels(face, group)])
        /\ hotGroup' = hot /\ drawn' = [face |-> face, glyph |-> g, pixels |-> HotPixels(hot, face, g)]
        /\ pageSlots' = pageSlots /\ scan' = scan
  BY Zenon DEF DrawHotGlyph
<1>2. hot.face = face /\ hot.group = group /\ hot.pixels = GroupPixels(face, group)
  <2>1. CASE IsHot(face, group)
    BY <1>1, <2>1, Zenon DEF FontInv, HotInv, IsHot
  <2>2. CASE ~ IsHot(face, group)
    <3>1. hot = [face |-> face, group |-> group, pixels |-> GroupPixels(face, group)]
      BY <1>1, <2>2, Zenon
    <3>. QED
      BY <3>1, SMT
  <2>. QED
    BY <2>1, <2>2, Zenon
<1>3. HotPixels(hot, face, g) = GlyphBitmap(face, g)
  BY <1>1, <1>2, CompactedIs, Zenon DEF HotPixels
<1>4. drawn'.face = face /\ drawn'.glyph = g /\ drawn'.pixels = HotPixels(hot, face, g)
  BY <1>1, SMT
<1>5. (drawn # Nothing => drawn.pixels = GlyphBitmap(drawn.face, drawn.glyph))'
  BY <1>3, <1>4, Zenon
<1>6. HotInv'
  BY <1>1, <1>2, Zenon DEF HotInv
<1>7. pageSlots' \in Seq(Slots) /\ ScanInv'
  BY <1>1, Zenon DEF FontInv, ScanInv
<1>. QED
  BY <1>5, <1>6, <1>7, Zenon DEF FontInv, GlyphIsTheRightOne

(* ... or not at all.                                                      *)
LEMMA DrawingFailed ==
  ASSUME FontInv, NEW face \in DOMAIN Faces, NEW g \in Glyphs(face), FailToDraw(face, g)
  PROVE  FontInv'
<1>1. hotGroup' = NoGroup /\ drawn' = Nothing /\ pageSlots' = pageSlots /\ scan' = scan
  BY Zenon DEF FailToDraw
<1>2. HotInv' /\ GlyphIsTheRightOne'
  BY <1>1, NoGroupIs, Zenon DEF HotInv, GlyphIsTheRightOne
<1>3. pageSlots' \in Seq(Slots) /\ ScanInv'
  BY <1>1, Zenon DEF FontInv, ScanInv
<1>. QED
  BY <1>2, <1>3, Zenon DEF FontInv

(* So it is always.                                                        *)
LEMMA FontAlwaysKept == GraphicsSpec => []FontInv
<1>1. GraphicsInit => FontInv
  BY FontStarts, Zenon DEF GraphicsInit
<1>2. FontInv /\ [GraphicsNext]_graphicsVars => FontInv'
  <2> SUFFICES ASSUME FontInv, [GraphicsNext]_graphicsVars PROVE FontInv'
    BY Zenon
  <2>1. CASE UNCHANGED fontVars
    <3>1. pageSlots' = pageSlots /\ hotGroup' = hotGroup /\ scan' = scan /\ drawn' = drawn
      BY <2>1, Zenon DEF fontVars
    <3>. QED
      BY <3>1, Zenon DEF FontInv, HotInv, ScanInv, GlyphIsTheRightOne
  <2>2. CASE OpenScope
    BY <2>2, ScopeOpened, Zenon
  <2>3. CASE \E family \in DOMAIN Families, style \in PageStyles, letter \in Letters : RecordText(family, style, letter)
    BY <2>3, TextRecorded, Zenon
  <2>4. CASE \E lost \in SUBSET Groups, noMemory \in SUBSET scan.styles : EndScan(lost, noMemory)
    BY <2>4, ScanEnded, Zenon
  <2>5. CASE CloseScope
    BY <2>5, ScopeClosed, Zenon
  <2>6. CASE DrawGlyph
    BY <2>6, PageGlyphDrawn, HotGlyphDrawn, DrawingFailed, Zenon DEF DrawGlyph
  <2>7. UNCHANGED fontVars \/ FontNext
    BY Zenon DEF GraphicsNext, graphicsVars, Download, TakeScreenshot, ReadBitmap, DrawOnce, TakeText, UseFonts,
                 UseInflate
  <2>. QED
    BY <2>1, <2>2, <2>3, <2>4, <2>5, <2>6, <2>7, Zenon DEF FontNext
<1>. QED
  BY <1>1, <1>2, PTL DEF GraphicsSpec

(* A glyph that is drawn is the one that was asked for, whatever the faces *)
(* and their groups, the letters a page was prepared for and the limits of *)
(* the preparation, and whatever allocation or decompression failed before *)
(* (FontDecompressor.cpp:131-215, 245-463).                                *)
THEOREM GlyphIsAlwaysTheRightOne == GraphicsSpec => []GlyphIsTheRightOne
<1>1. FontInv => GlyphIsTheRightOne
  BY DEF FontInv
<1>. QED
  BY <1>1, FontAlwaysKept, PTL
=============================================================================
