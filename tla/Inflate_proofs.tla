--------------------------- MODULE Inflate_proofs ---------------------------
(***************************************************************************)
(* Proofs about decompression (Inflate), for a window, blocks, streams and *)
(* pieces of any size, and for codes of any lengths.                       *)
(*                                                                         *)
(* Every round of the loop puts out one byte or none, and the output of a  *)
(* call goes on where that of the calls before it ended.  So it is enough  *)
(* to know, after each round, which block and symbol the reader is at, how *)
(* much of a match is left, that the ring holds the last bytes of all that *)
(* came out, and that lzOff is the place of the byte that comes next.      *)
(*                                                                         *)
(* A symbol is decoded bit by bit.  After each bit, cur is the value of    *)
(* the bits so far, less the first word of their number and less how many  *)
(* words have it: so it is negative with the last bit of the word and not  *)
(* before, and then sum + cur is the rank of the symbol in the tree.       *)
(***************************************************************************)
EXTENDS Graphics, Numbers, SequenceTheorems, TLAPS

(* What comes out is the bytes of the data, or zero beyond the end of the  *)
(* source.                                                                 *)
Octets == Literals \cup {0}
SymbolsOfBlock == Symbols \cup {EndOfBlock}

IsSymbol(s) ==
  /\ s.kind \in {"literal", "match", "end"}
  /\ s.kind = "literal" => s.byte \in Octets
  /\ s.kind = "match" => s.length \in Nat \ {0} /\ s.distance \in Nat \ {0} /\ s.distance <= DictSize

(* The symbols of the format, and what they are made of.                   *)
LEMMA SymbolIs ==
  ASSUME NEW s \in SymbolsOfBlock
  PROVE  IsSymbol(s) /\ (s.kind = "end" <=> s = EndOfBlock)
<1>1. CASE \E c \in Literals : s = Literal(c)
  <2>1. PICK c \in Literals : s = Literal(c)
    BY <1>1
  <2>2. s.kind = "literal" /\ s.byte = c
    BY <2>1, SMT DEF Literal
  <2>3. EndOfBlock.kind = "end"
    BY SMT DEF EndOfBlock
  <2>4. "literal" # "end" /\ "literal" # "match"
    BY SMT
  <2>5. c \in Octets
    BY Zenon DEF Octets
  <2>. QED
    BY <2>2, <2>3, <2>4, <2>5, Zenon DEF IsSymbol
<1>2. CASE s \in Matches
  <2>1. s.kind = "match" /\ s.length \in 3 .. MaxLength /\ s.distance \in 1 .. DictSize
    BY <1>2, SMT DEF Matches
  <2>2. s.length \in Nat \ {0} /\ s.distance \in Nat \ {0} /\ s.distance <= DictSize
    BY <2>1, InflateAssumption, SMT
  <2>3. EndOfBlock.kind = "end"
    BY SMT DEF EndOfBlock
  <2>4. "match" # "end" /\ "literal" # "match"
    BY SMT
  <2>. QED
    BY <2>1, <2>2, <2>3, <2>4, Zenon DEF IsSymbol
<1>3. CASE s = EndOfBlock
  <2>1. s.kind = "end" /\ "end" # "literal" /\ "end" # "match"
    BY <1>3, SMT DEF EndOfBlock
  <2>. QED
    BY <1>3, <2>1, Zenon DEF IsSymbol
<1>. QED
  BY <1>1, <1>2, <1>3, Zenon DEF SymbolsOfBlock, Symbols

(* The bytes that a match stands for.                                      *)
IsRepeat(rep, data, length, distance) ==
  /\ rep \in Seq(Octets) /\ Len(rep) = length
  /\ \A i \in 1 .. length : rep[i] = data[Len(data) - distance + 1 + ((i - 1) % distance)]

(* They are taken from the end of the data, over and over.                 *)
LEMMA RepeatedIs ==
  ASSUME NEW data \in Seq(Octets), NEW length \in Nat, NEW distance \in Nat \ {0}, distance <= Len(data)
  PROVE  IsRepeat(Repeated(data, length, distance), data, length, distance)
<1> DEFINE place(i) == Len(data) - distance + 1 + ((i - 1) % distance)
           rep == [i \in 1 .. length |-> data[place(i)]]
<1>1. PICK n \in Nat : n = Len(data)
  BY LenProperties, Zenon
<1>2. ASSUME NEW i \in 1 .. length PROVE data[place(i)] \in Octets
  <2>1. PICK k \in Int : k = i - 1
    BY SMT
  <2>2. k % distance \in 0 .. distance - 1
    BY DivMod, Zenon
  <2>3. place(i) \in 1 .. n
    BY <1>1, <2>1, <2>2, SMT
  <2>. QED
    BY <1>1, <2>3, ElementOfSeq, Zenon
<1> HIDE DEF place
<1>3. rep \in [1 .. length -> Octets]
  BY <1>2, Zenon
<1>4. rep \in Seq(Octets) /\ Len(rep) = length
  <2> HIDE DEF rep
  <2>1. rep \in Seq(Octets)
    BY <1>3, SeqDef, Zenon
  <2>2. DOMAIN rep = 1 .. length
    BY <1>3, Zenon
  <2>. QED
    BY <2>1, <2>2, LenProperties, SMT
<1>5. \A i \in 1 .. length : rep[i] = data[Len(data) - distance + 1 + ((i - 1) % distance)]
  BY Zenon DEF place
<1>6. Repeated(data, length, distance) = rep
  BY Zenon DEF Repeated, place
<1>. QED
  BY <1>4, <1>5, <1>6, Zenon DEF IsRepeat

(* What a symbol stands for after some data is bytes, too.                 *)
LEMMA MeaningIs ==
  ASSUME NEW data \in Seq(Octets), NEW s \in SymbolsOfBlock
  PROVE  /\ Meaning(data, s) \in Seq(Octets)
         /\ s.kind = "literal" => Meaning(data, s) = <<s.byte>>
         /\ s.kind = "end" => Meaning(data, s) = <<>>
         /\ s.kind = "match" /\ Reaches(data, s) =>
              IsRepeat(Meaning(data, s), data, s.length, s.distance) /\ s.distance <= Len(data)
<1>1. IsSymbol(s)
  BY SymbolIs, Zenon
<1>2. "match" # "end" /\ "literal" # "match" /\ "end" # "literal"
  BY SMT
<1>3. CASE s.kind = "literal"
  <2>1. Meaning(data, s) = <<s.byte>>
    BY <1>3, Zenon DEF Meaning
  <2>2. s.byte \in Octets
    BY <1>1, <1>3, Zenon DEF IsSymbol
  <2>3. \A x \in Octets : <<x>> \in Seq(Octets)
    BY SMT
  <2>. QED
    BY <1>2, <1>3, <2>1, <2>2, <2>3, Zenon
<1>4. CASE s.kind = "match" /\ Reaches(data, s)
  <2>1. Meaning(data, s) = Repeated(data, s.length, s.distance)
    BY <1>2, <1>4, Zenon DEF Meaning
  <2>2. s.length \in Nat /\ s.distance \in Nat \ {0} /\ s.distance <= Len(data)
    BY <1>1, <1>4, Zenon DEF IsSymbol, Reaches
  <2>3. IsRepeat(Meaning(data, s), data, s.length, s.distance)
    BY <2>1, <2>2, RepeatedIs, Zenon
  <2>. QED
    BY <1>2, <1>4, <2>2, <2>3, Zenon DEF IsRepeat
<1>5. CASE s.kind # "literal" /\ ~ (s.kind = "match" /\ Reaches(data, s))
  <2>1. Meaning(data, s) = <<>>
    BY <1>5, Zenon DEF Meaning
  <2>. QED
    BY <1>5, <2>1, EmptySeq, Zenon
<1>. QED
  BY <1>3, <1>4, <1>5, Zenon

-----------------------------------------------------------------------------
(* Sequences of bytes and their prefixes.                                  *)
Data == Seq(Octets)

(* A prefix is the same, byte by byte, as far as it goes.                  *)
LEMMA PrefixIs ==
  ASSUME NEW s \in Data, NEW t \in Data
  PROVE  IsPrefix(s, t) <=> Len(s) <= Len(t) /\ \A i \in 1 .. Len(s) : s[i] = t[i]
<1>1. PICK m \in Nat, n \in Nat : m = Len(s) /\ n = Len(t)
  BY LenProperties, Zenon DEF Data
<1>2. SubSeq(s, 1, m) = s
  BY <1>1, SubSeqFull, Zenon DEF Data
<1>3. ASSUME m <= n
      PROVE  /\ SubSeq(t, 1, m) \in Data /\ Len(SubSeq(t, 1, m)) = m
             /\ \A i \in 1 .. m : SubSeq(t, 1, m)[i] = t[i]
  <2>1. \A i \in 1 .. m : i \in 1 .. n
    BY <1>3, SMT
  <2>2. \A i \in 1 .. m : t[i] \in Octets
    BY <1>1, <2>1, ElementOfSeq, Zenon DEF Data
  <2>. QED
    BY <2>2, SubSeqProperties, SMT DEF Data
<1>4. CASE m <= n
  <2>1. PICK u \in Data : u = SubSeq(t, 1, m)
    BY <1>3, <1>4, Zenon
  <2>2. Len(u) = m /\ \A i \in 1 .. m : u[i] = t[i]
    BY <1>3, <1>4, <2>1, Zenon
  <2>3. (\A i \in 1 .. m : s[i] = u[i]) => s = u
    BY <1>1, <2>2, SeqEqual, Zenon DEF Data
  <2>4. IsPrefix(s, t) <=> s = u
    BY <1>1, <1>2, <1>4, <2>1, Zenon DEF IsPrefix
  <2>. QED
    BY <1>1, <1>4, <2>2, <2>3, <2>4, Zenon
<1>5. CASE ~ (m <= n)
  BY <1>1, <1>5, Zenon DEF IsPrefix
<1>. QED
  BY <1>4, <1>5

(* Every sequence starts with itself, ...                                  *)
LEMMA PrefixOfItself ==
  ASSUME NEW s \in Data
  PROVE  IsPrefix(s, s)
<1>1. Len(s) \in Nat
  BY LenProperties, Zenon DEF Data
<1>2. Len(s) <= Len(s)
  BY <1>1, SMT
<1>. QED
  BY <1>2, PrefixIs, Zenon

(* ... and with what a start of it starts with.                            *)
LEMMA PrefixTransitive ==
  ASSUME NEW s \in Data, NEW t \in Data, NEW u \in Data, IsPrefix(s, t), IsPrefix(t, u)
  PROVE  IsPrefix(s, u)
<1>1. PICK k \in Nat, m \in Nat, n \in Nat : k = Len(s) /\ m = Len(t) /\ n = Len(u)
  BY LenProperties, Zenon DEF Data
<1>2. k <= m /\ m <= n /\ (\A i \in 1 .. k : s[i] = t[i]) /\ \A i \in 1 .. m : t[i] = u[i]
  BY <1>1, PrefixIs, Zenon
<1>3. k <= n /\ \A i \in 1 .. k : i \in 1 .. m
  BY <1>2, SMT
<1>4. \A i \in 1 .. k : s[i] = u[i]
  BY <1>2, <1>3, Zenon
<1>. QED
  BY <1>1, <1>3, <1>4, PrefixIs, Zenon

(* Two sequences in a row, byte by byte.                                   *)
LEMMA BothAre ==
  ASSUME NEW s \in Data, NEW t \in Data
  PROVE  /\ s \o t \in Data /\ Len(s \o t) = Len(s) + Len(t)
         /\ \A i \in 1 .. Len(s) + Len(t) : (s \o t)[i] = IF i <= Len(s) THEN s[i] ELSE t[i - Len(s)]
<1>1. /\ s \o t \in Seq(Octets)
      /\ Len(s \o t) = Len(s) + Len(t)
      /\ \A i \in 1 .. Len(s) + Len(t) : (s \o t)[i] = IF i <= Len(s) THEN s[i] ELSE t[i - Len(s)]
  BY ConcatProperties, Zenon DEF Data
<1>. QED
  BY <1>1, Zenon DEF Data

(* They start with the first of them.                                      *)
LEMMA PrefixOfBoth ==
  ASSUME NEW s \in Data, NEW t \in Data
  PROVE  s \o t \in Data /\ IsPrefix(s, s \o t) /\ Len(s \o t) = Len(s) + Len(t)
<1>1. PICK k \in Nat, m \in Nat : k = Len(s) /\ m = Len(t)
  BY LenProperties, Zenon DEF Data
<1>2. /\ s \o t \in Data /\ Len(s \o t) = k + m
      /\ \A i \in 1 .. k + m : (s \o t)[i] = IF i <= k THEN s[i] ELSE t[i - k]
  BY <1>1, BothAre, Zenon
<1>3. k <= k + m /\ \A i \in 1 .. k : i \in 1 .. k + m /\ i <= k
  BY SMT
<1>4. \A i \in 1 .. k : s[i] = (s \o t)[i]
  BY <1>2, <1>3, Zenon
<1>. QED
  BY <1>1, <1>2, <1>3, <1>4, PrefixIs, Zenon

(* A prefix of the same length is the whole.                               *)
LEMMA PrefixAsLong ==
  ASSUME NEW s \in Data, NEW t \in Data, IsPrefix(s, t), Len(s) = Len(t)
  PROVE  s = t
<1>1. \A i \in 1 .. Len(s) : s[i] = t[i]
  BY PrefixIs, Zenon
<1>. QED
  BY <1>1, SeqEqual, Zenon DEF Data

(* A byte more comes after all the others.                                 *)
LEMMA ByteAdded ==
  ASSUME NEW s \in Data, NEW c \in Octets
  PROVE  /\ Append(s, c) \in Data /\ Len(Append(s, c)) = Len(s) + 1
         /\ \A i \in 1 .. Len(s) : Append(s, c)[i] = s[i]
         /\ Append(s, c)[Len(s) + 1] = c
<1>1. /\ Append(s, c) \in Seq(Octets)
      /\ Append(s, c) # <<>>
      /\ Len(Append(s, c)) = Len(s) + 1
      /\ \A i \in 1 .. Len(s) : Append(s, c)[i] = s[i]
      /\ Append(s, c)[Len(s) + 1] = c
  BY AppendProperties, Zenon DEF Data
<1>. QED
  BY <1>1, Zenon DEF Data

(* And one that is shorter is a prefix with the next byte, too.            *)
LEMMA PrefixAndNext ==
  ASSUME NEW s \in Data, NEW t \in Data, NEW c \in Octets,
         IsPrefix(s, t), Len(s) < Len(t), c = t[Len(s) + 1]
  PROVE  Append(s, c) \in Data /\ IsPrefix(Append(s, c), t) /\ Len(Append(s, c)) = Len(s) + 1
<1>1. PICK k \in Nat, m \in Nat : k = Len(s) /\ m = Len(t)
  BY LenProperties, Zenon DEF Data
<1>2. /\ Append(s, c) \in Data /\ Len(Append(s, c)) = k + 1
      /\ \A i \in 1 .. k : Append(s, c)[i] = s[i]
      /\ Append(s, c)[k + 1] = c
  <2>1. /\ Append(s, c) \in Data /\ Len(Append(s, c)) = Len(s) + 1
        /\ \A i \in 1 .. Len(s) : Append(s, c)[i] = s[i]
        /\ Append(s, c)[Len(s) + 1] = c
    BY ByteAdded, Zenon
  <2>. QED
    BY <1>1, <2>1, Zenon
<1>3. \A i \in 1 .. k : s[i] = t[i]
  BY <1>1, PrefixIs, Zenon
<1>4. k + 1 <= m /\ \A i \in 1 .. k + 1 : i \in 1 .. k \/ i = k + 1
  BY <1>1, SMT
<1>5. \A i \in 1 .. k + 1 : Append(s, c)[i] = t[i]
  <2>1. Append(s, c)[k + 1] = t[k + 1]
    BY <1>1, <1>2, Zenon
  <2>. QED
    BY <1>2, <1>3, <1>4, <2>1, Zenon
<1>. QED
  BY <1>1, <1>2, <1>4, <1>5, PrefixIs, Zenon

(* Counting around a ring.                                                 *)

(* Every position is some rounds of the ring and a rest.                   *)
LEMMA Divided ==
  ASSUME NEW s \in Nat \ {0}, NEW a \in Int
  PROVE  \E q \in Int : \E r \in 0 .. s - 1 : a = s * q + r /\ a % s = r
<1>1. a = s * (a \div s) + (a % s) /\ a % s \in 0 .. s - 1 /\ a \div s \in Int
  BY DivMod, Zenon
<1>. QED
  BY <1>1, Zenon

(* The place after another is found by a step forward, ...                 *)
LEMMA RemainderOfNext ==
  ASSUME NEW s \in Nat \ {0}, NEW a \in Int
  PROVE  ((a % s) + 1) % s = (a + 1) % s
<1>1. PICK q \in Int, r \in 0 .. s - 1 : a = s * q + r /\ a % s = r
  BY Divided, Zenon
<1>2. CASE r + 1 < s
  <2>1. PICK t : t = r + 1
    BY Zenon
  <2>2. t \in 0 .. s - 1 /\ a + 1 = s * q + t /\ t = s * 0 + t
    BY <1>1, <1>2, <2>1, SMT
  <2>3. (s * q + t) % s = t /\ (s * 0 + t) % s = t
    BY <2>2, DivModOf, SMT
  <2>. QED
    BY <1>1, <2>1, <2>2, <2>3, Zenon
<1>3. CASE r + 1 = s
  <2>1. PICK p : p = q + 1
    BY Zenon
  <2>2. p \in Int /\ a + 1 = s * p + 0 /\ s = s * 1 + 0 /\ 0 \in 0 .. s - 1
    BY <1>1, <1>3, <2>1, SMT
  <2>3. (s * p + 0) % s = 0 /\ (s * 1 + 0) % s = 0
    BY <2>2, DivModOf, SMT
  <2>. QED
    BY <1>1, <1>3, <2>2, <2>3, Zenon
<1>. QED
  BY <1>1, <1>2, <1>3, SMT

(* ... and one before it by as many back as the ring is long at most.      *)
LEMMA RemainderBefore ==
  ASSUME NEW s \in Nat \ {0}, NEW a \in Int, NEW d \in 1 .. s
  PROVE  ((a % s) - d + s) % s = (a - d) % s
<1>1. PICK q \in Int, r \in 0 .. s - 1 : a = s * q + r /\ a % s = r
  BY Divided, Zenon
<1>2. CASE r < d
  <2>1. PICK t : t = r - d + s
    BY Zenon
  <2>2. PICK p : p = q - 1
    BY Zenon
  <2>3. t \in 0 .. s - 1 /\ p \in Int /\ a - d = s * p + t /\ t = s * 0 + t
    BY <1>1, <1>2, <2>1, <2>2, SMT
  <2>4. (s * p + t) % s = t /\ (s * 0 + t) % s = t
    BY <2>3, DivModOf, SMT
  <2>. QED
    BY <1>1, <2>1, <2>3, <2>4, Zenon
<1>3. CASE ~ (r < d)
  <2>1. PICK t : t = r - d
    BY Zenon
  <2>2. t \in 0 .. s - 1 /\ a - d = s * q + t /\ r - d + s = s * 1 + t
    BY <1>1, <1>3, <2>1, SMT
  <2>3. (s * q + t) % s = t /\ (s * 1 + t) % s = t
    BY <2>2, DivModOf, SMT
  <2>. QED
    BY <1>1, <2>2, <2>3, Zenon
<1>. QED
  BY <1>2, <1>3

(* Less than a round apart, two places are not the same.                   *)
LEMMA RemaindersDiffer ==
  ASSUME NEW s \in Nat \ {0}, NEW a \in Int, NEW b \in Int, a < b, b < a + s
  PROVE  a % s # b % s
<1>1. PICK q \in Int, r \in 0 .. s - 1 : a = s * q + r /\ a % s = r
  BY Divided, Zenon
<1>2. PICK p \in Int, t \in 0 .. s - 1 : b = s * p + t /\ b % s = t
  BY Divided, Zenon
<1>3. SUFFICES ASSUME r = t PROVE FALSE
  BY <1>1, <1>2, Zenon
<1>4. s * (p - q) = b - a
  BY <1>1, <1>2, <1>3, SMT
<1>5. CASE p - q >= 1
  <2>1. s * (p - q) >= s
    BY <1>5, SMT
  <2>. QED
    BY <1>4, <2>1, SMT
<1>6. CASE p - q <= 0
  <2>1. s * (p - q) <= 0
    BY <1>6, SMT
  <2>. QED
    BY <1>4, <2>1, SMT
<1>. QED
  BY <1>5, <1>6, SMT

(* What a match puts out repeats what was put out before, also where it    *)
(* reaches into itself.                                                    *)
RepeatsItself(whole, start, length, distance) ==
  \A k \in start + 1 .. start + length : k - distance \in 1 .. k - 1 /\ whole[k] = whole[k - distance]

(* And it does so for every byte of it.                                    *)
LEMMA MatchRepeats ==
  ASSUME NEW data \in Data, NEW rep, NEW length \in Nat, NEW distance \in Nat \ {0},
         distance <= Len(data), IsRepeat(rep, data, length, distance)
  PROVE  RepeatsItself(data \o rep, Len(data), length, distance)
<1>1. PICK n \in Nat : n = Len(data)
  BY LenProperties, Zenon DEF Data
<1>2. rep \in Data /\ Len(rep) = length
  BY Zenon DEF IsRepeat, Data
<1>3. \A i \in 1 .. n + length : (data \o rep)[i] = IF i <= n THEN data[i] ELSE rep[i - n]
  <2>1. \A i \in 1 .. Len(data) + Len(rep) :
          (data \o rep)[i] = IF i <= Len(data) THEN data[i] ELSE rep[i - Len(data)]
    BY <1>2, ConcatProperties, Zenon DEF Data
  <2>. QED
    BY <1>1, <1>2, <2>1, Zenon
<1> DEFINE place(j) == n - distance + 1 + j
<1>4. \A i \in 1 .. length : rep[i] = data[place((i - 1) % distance)]
  BY <1>1, Zenon DEF IsRepeat
<1>5. SUFFICES ASSUME NEW k \in n + 1 .. n + length
               PROVE  k - distance \in 1 .. k - 1 /\ (data \o rep)[k] = (data \o rep)[k - distance]
  BY <1>1, Zenon DEF RepeatsItself
<1>6. distance <= n
  BY <1>1
<1>7. k - distance \in 1 .. k - 1 /\ k - distance \in 1 .. n + length /\ k \in 1 .. n + length /\ ~ (k <= n)
  BY <1>6, SMT
<1>8. PICK i \in 1 .. length : i = k - n
  BY SMT
<1>9. (data \o rep)[k] = rep[i]
  BY <1>3, <1>7, <1>8, Zenon
<1>10. CASE i <= distance
  <2>1. PICK j : j = i - 1
    BY Zenon
  <2>2. j \in 0 .. distance - 1 /\ j = distance * 0 + j
    BY <1>10, <2>1, SMT
  <2>3. (distance * 0 + j) % distance = j
    BY <2>2, DivModOf, SMT
  <2>4. rep[i] = data[place(j)]
    BY <1>4, <2>1, <2>2, <2>3, Zenon
  <2>5. place(j) = k - distance /\ k - distance <= n
    BY <1>8, <1>10, <2>1, <2>2, SMT
  <2>6. (data \o rep)[k - distance] = data[k - distance]
    BY <1>3, <1>7, <2>5, Zenon
  <2> HIDE DEF place
  <2>. QED
    BY <1>7, <1>9, <2>4, <2>5, <2>6, Zenon
<1>11. CASE ~ (i <= distance)
  <2>1. PICK l : l = i - distance
    BY Zenon
  <2>2. l \in 1 .. length /\ k - distance - n = l /\ ~ (k - distance <= n)
    BY <1>8, <1>11, <2>1, SMT
  <2>3. PICK q \in Int, j \in 0 .. distance - 1 : l - 1 = distance * q + j /\ (l - 1) % distance = j
    <3>1. PICK m \in Int : m = l - 1
      BY <2>2, SMT
    <3>2. m = distance * (m \div distance) + (m % distance) /\ m % distance \in 0 .. distance - 1
          /\ m \div distance \in Int
      BY DivMod, Zenon
    <3>. QED
      BY <3>1, <3>2, Zenon
  <2>4. PICK p : p = q + 1
    BY Zenon
  <2>5. p \in Int /\ i - 1 = distance * p + j
    BY <2>1, <2>2, <2>3, <2>4, SMT
  <2>6. (distance * p + j) % distance = j
    BY <2>5, DivModOf, Zenon
  <2>7. rep[i] = data[place(j)] /\ rep[l] = data[place(j)]
    <3>1. (i - 1) % distance = j
      BY <2>5, <2>6, Zenon
    <3> HIDE DEF place
    <3>2. rep[i] = data[place((i - 1) % distance)] /\ rep[l] = data[place((l - 1) % distance)]
      BY <1>4, <2>2, Zenon
    <3>. QED
      BY <2>3, <3>1, <3>2, Zenon
  <2>8. (data \o rep)[k - distance] = rep[l]
    BY <1>3, <1>7, <2>2, Zenon
  <2>. QED
    BY <1>7, <1>9, <2>7, <2>8, Zenon
<1>. QED
  BY <1>10, <1>11

-----------------------------------------------------------------------------
(* What the symbols of a block stand for, one after the other.             *)
Growth(symbols) ==
  [i \in Nat |-> [v \in Data |-> IF i \in 1 .. Len(symbols) THEN v \o Meaning(v, symbols[i]) ELSE v]]

(* A symbol makes data of data.                                            *)
LEMMA GrowthIs ==
  ASSUME NEW symbols \in Seq(SymbolsOfBlock), NEW i \in Nat, NEW v \in Data
  PROVE  /\ Growth(symbols)[i][v] = IF i \in 1 .. Len(symbols) THEN v \o Meaning(v, symbols[i]) ELSE v
         /\ Growth(symbols)[i][v] \in Data
<1>1. Growth(symbols)[i][v] = IF i \in 1 .. Len(symbols) THEN v \o Meaning(v, symbols[i]) ELSE v
  BY Zenon DEF Growth
<1>2. ASSUME i \in 1 .. Len(symbols) PROVE v \o Meaning(v, symbols[i]) \in Data
  <2>1. symbols[i] \in SymbolsOfBlock
    BY <1>2, ElementOfSeq, Zenon
  <2>2. Meaning(v, symbols[i]) \in Data
    BY <2>1, MeaningIs, Zenon DEF Data
  <2>. QED
    BY <2>2, PrefixOfBoth, Zenon
<1>. QED
  BY <1>1, <1>2, Zenon

(* The expansion by the first symbols is a recursion.                      *)
LEMMA ExpandedByGrows ==
  ASSUME NEW data \in Data, NEW symbols \in Seq(SymbolsOfBlock), NEW n \in 0 .. Len(symbols)
  PROVE  \E w : IsUpTo(Data, data, Growth(symbols), n, w) /\ ExpandedBy(data, symbols, n) = w[n]
<1> DEFINE Rounds(g) == [i \in 0 .. n |-> IF i = 0 THEN data ELSE g[i - 1] \o Meaning(g[i - 1], symbols[i])]
           w == CHOOSE g : g = Rounds(g)
<1>1. n \in Nat /\ Len(symbols) \in Nat
  BY LenProperties, SMT
<1>2. \A i \in 1 .. n : i \in Nat /\ i \in 1 .. Len(symbols) /\ i \in 0 .. n /\ i - 1 \in 0 .. n /\ i # 0
  BY <1>1, SMT
<1>3. \A i \in Nat : \A v \in Data : Growth(symbols)[i][v] \in Data
  BY GrowthIs, Zenon
<1>4. PICK f : IsUpTo(Data, data, Growth(symbols), n, f)
  BY <1>1, <1>3, UpToExists, Zenon
<1>5. f \in [0 .. n -> Data] /\ f[0] = data
  BY <1>4, Zenon DEF IsUpTo
<1>6. ASSUME NEW i \in 1 .. n PROVE f[i] = f[i - 1] \o Meaning(f[i - 1], symbols[i])
  <2>1. f[i] = Growth(symbols)[i][f[i - 1]]
    BY <1>4, Zenon DEF IsUpTo
  <2>2. f[i - 1] \in Data
    BY <1>2, <1>5, Zenon
  <2>. QED
    BY <1>2, <2>1, <2>2, GrowthIs, Zenon
<1>7. f = Rounds(f)
  <2>1. \A i \in 0 .. n : i # 0 => i \in 1 .. n
    BY <1>1, SMT
  <2>2. \A i \in 0 .. n : f[i] = IF i = 0 THEN data ELSE f[i - 1] \o Meaning(f[i - 1], symbols[i])
    BY <1>5, <1>6, <2>1, Zenon
  <2>. QED
    BY <1>5, <2>2, Zenon
<1>8. w = Rounds(w)
  BY <1>7, Zenon
<1>9. ExpandedBy(data, symbols, n) = w[n]
  BY Zenon DEF ExpandedBy
<1> HIDE DEF w
<1>10. \A i \in 0 .. n : w[i] = IF i = 0 THEN data ELSE w[i - 1] \o Meaning(w[i - 1], symbols[i])
  BY <1>8, Zenon
<1>11. 0 \in 0 .. n
  BY <1>1, SMT
<1>12. w[0] = data /\ \A i \in 1 .. n : w[i] = w[i - 1] \o Meaning(w[i - 1], symbols[i])
  BY <1>2, <1>10, <1>11, Zenon
<1> DEFINE S == {i \in Nat : w[i] \in Data /\ (i \in 1 .. n => w[i] = Growth(symbols)[i][w[i - 1]])}
<1>13. 0 \in S
  BY <1>12, SMT
<1>14. ASSUME NEW i \in 1 .. n, i - 1 \in S PROVE i \in S
  <2>1. w[i - 1] \in Data
    BY <1>14, Zenon
  <2>2. w[i] = Growth(symbols)[i][w[i - 1]] /\ Growth(symbols)[i][w[i - 1]] \in Data
    BY <1>2, <1>12, <2>1, GrowthIs, Zenon
  <2>. QED
    BY <1>2, <2>2, Zenon
<1>15. 0 .. n \subseteq S
  <2> HIDE DEF S
  <2>. QED
    BY <1>1, <1>13, <1>14, InductionUpTo, Zenon
<1>16. \A i \in 0 .. n : w[i] \in Data /\ (i \in 1 .. n => w[i] = Growth(symbols)[i][w[i - 1]])
  BY <1>15, Zenon
<1>17. w \in [0 .. n -> Data]
  <2>1. w = [i \in 0 .. n |-> w[i]]
    BY <1>8, Zenon
  <2>. QED
    BY <1>16, <2>1, Zenon
<1>18. IsUpTo(Data, data, Growth(symbols), n, w)
  BY <1>2, <1>12, <1>16, <1>17, Zenon DEF IsUpTo
<1>. QED
  BY <1>9, <1>18, Zenon

(* So each symbol adds what it means.                                      *)
LEMMA ExpandedByIs ==
  ASSUME NEW data \in Data, NEW symbols \in Seq(SymbolsOfBlock)
  PROVE  /\ ExpandedBy(data, symbols, 0) = data
         /\ \A n \in 0 .. Len(symbols) : ExpandedBy(data, symbols, n) \in Data
         /\ \A n \in 1 .. Len(symbols) :
              /\ ExpandedBy(data, symbols, n - 1) \in Data
              /\ ExpandedBy(data, symbols, n)
                   = ExpandedBy(data, symbols, n - 1) \o Meaning(ExpandedBy(data, symbols, n - 1), symbols[n])
<1>1. Len(symbols) \in Nat
  BY LenProperties, Zenon
<1>2. ASSUME NEW n \in 0 .. Len(symbols) PROVE ExpandedBy(data, symbols, n) \in Data
  <2>1. PICK w : IsUpTo(Data, data, Growth(symbols), n, w) /\ ExpandedBy(data, symbols, n) = w[n]
    BY ExpandedByGrows, Zenon
  <2>2. n \in 0 .. n
    BY SMT
  <2>. QED
    BY <2>1, <2>2, Zenon DEF IsUpTo
<1>3. ExpandedBy(data, symbols, 0) = data
  <2>1. 0 \in 0 .. Len(symbols)
    BY <1>1, SMT
  <2>2. PICK w : IsUpTo(Data, data, Growth(symbols), 0, w) /\ ExpandedBy(data, symbols, 0) = w[0]
    BY <2>1, ExpandedByGrows, Zenon
  <2>. QED
    BY <2>2, Zenon DEF IsUpTo
<1>4. ASSUME NEW n \in 1 .. Len(symbols)
      PROVE  /\ ExpandedBy(data, symbols, n - 1) \in Data
             /\ ExpandedBy(data, symbols, n)
                  = ExpandedBy(data, symbols, n - 1) \o Meaning(ExpandedBy(data, symbols, n - 1), symbols[n])
  <2>1. PICK m : m = n - 1
    BY Zenon
  <2>2. /\ n \in Nat /\ m \in Nat /\ n \in 0 .. Len(symbols) /\ m \in 0 .. Len(symbols)
        /\ m <= n /\ m \in 0 .. m /\ n \in 1 .. n
    BY <1>1, <2>1, SMT
  <2>3. PICK w : IsUpTo(Data, data, Growth(symbols), n, w) /\ ExpandedBy(data, symbols, n) = w[n]
    BY <2>2, ExpandedByGrows, Zenon
  <2>4. PICK u : IsUpTo(Data, data, Growth(symbols), m, u) /\ ExpandedBy(data, symbols, m) = u[m]
    BY <2>2, ExpandedByGrows, Zenon
  <2>5. u[m] = w[m]
    <3>1. \A j \in 0 .. m : j <= n => u[j] = w[j]
      <4>1. m \in Nat /\ n \in Nat /\ IsUpTo(Data, data, Growth(symbols), n, w) /\ IsUpTo(Data, data, Growth(symbols), m, u)
        BY <2>2, <2>3, <2>4, Zenon
      <4>. QED
        BY <4>1, UpToIsUnique, SMT
    <3>. QED
      BY <2>2, <3>1, Zenon
  <2>6. w[n] = Growth(symbols)[n][w[m]]
    BY <2>1, <2>2, <2>3, Zenon DEF IsUpTo
  <2>7. u[m] \in Data
    BY <1>2, <2>2, <2>4, Zenon
  <2>8. w[n] = w[m] \o Meaning(w[m], symbols[n])
    BY <2>2, <2>5, <2>6, <2>7, GrowthIs, Zenon
  <2>. QED
    BY <2>1, <2>3, <2>4, <2>5, <2>7, <2>8, Zenon
<1>. QED
  BY <1>2, <1>3, <1>4, Zenon

(* And what the first symbols stand for is the start of what more do.      *)
LEMMA ExpandedByStarts ==
  ASSUME NEW data \in Data, NEW symbols \in Seq(SymbolsOfBlock),
         NEW m \in 0 .. Len(symbols), NEW n \in 0 .. Len(symbols), m <= n
  PROVE  IsPrefix(ExpandedBy(data, symbols, m), ExpandedBy(data, symbols, n))
<1> DEFINE e(i) == ExpandedBy(data, symbols, i)
           S == {i \in Nat : m <= i => IsPrefix(e(m), e(i))}
<1>1. PICK N \in Nat : N = Len(symbols)
  BY LenProperties, Zenon
<1>2. e(m) \in Data /\ IsPrefix(e(m), e(m))
  BY ExpandedByIs, PrefixOfItself, Zenon
<1>3. 0 \in S
  <2>1. m <= 0 => m = 0
    BY SMT
  <2>. QED
    BY <1>2, <2>1, SMT
<1>4. ASSUME NEW i \in 1 .. N, i - 1 \in S PROVE i \in S
  <2>1. PICK k : k = i - 1
    BY Zenon
  <2>2. i \in Nat /\ k \in 0 .. N /\ i \in 0 .. N /\ (m <= i => m = i \/ m <= k)
    BY <2>1, SMT
  <2>3. e(k) \in Data /\ e(i) \in Data /\ e(i) = e(k) \o Meaning(e(k), symbols[i])
    BY <1>1, <2>1, <2>2, ExpandedByIs, Zenon
  <2>4. IsPrefix(e(k), e(i))
    <3>1. symbols[i] \in SymbolsOfBlock
      BY <1>1, ElementOfSeq, Zenon
    <3>2. Meaning(e(k), symbols[i]) \in Data
      BY <2>3, <3>1, MeaningIs, Zenon DEF Data
    <3>. QED
      BY <2>3, <3>2, PrefixOfBoth, Zenon
  <2>5. m <= k => IsPrefix(e(m), e(k))
    BY <1>4, <2>1, Zenon
  <2>6. m <= k => IsPrefix(e(m), e(i))
    BY <1>2, <2>3, <2>4, <2>5, PrefixTransitive, Zenon
  <2>. QED
    BY <1>2, <2>2, <2>6, Zenon
<1>5. 0 .. N \subseteq S
  <2> HIDE DEF S
  <2>. QED
    BY <1>3, <1>4, InductionUpTo, Zenon
<1>. QED
  BY <1>1, <1>5, Zenon

-----------------------------------------------------------------------------
(* Blocks: only the last symbol may be the end.                            *)
IsBlock(b) ==
  /\ b.stored \in BOOLEAN
  /\ b.stored => b.bytes \in Data /\ b.length = Len(b.bytes)
  /\ ~ b.stored =>
       /\ b.symbols \in Seq(SymbolsOfBlock)
       /\ \A i \in 1 .. Len(b.symbols) : b.symbols[i].kind = "end" => i = Len(b.symbols)

(* The sequences that are tried are sequences.                             *)
LEMMA UpToIs ==
  ASSUME NEW n \in Nat, NEW set, NEW s \in UpTo(n, set)
  PROVE  s \in Seq(set)
<1>1. PICK k \in 0 .. n : s \in [1 .. k -> set]
  BY Zenon DEF UpTo
<1>2. k \in Nat
  BY SMT
<1>. QED
  BY <1>1, <1>2, SeqDef, Zenon

(* A block that is tried is one.                                           *)
LEMMA BlockIs ==
  ASSUME NEW b \in Blocks
  PROVE  IsBlock(b)
<1>1. CASE \E s \in UpTo(2, Literals) : b = [stored |-> TRUE, bytes |-> s, length |-> Len(s)]
  <2>1. PICK s \in UpTo(2, Literals) : b = [stored |-> TRUE, bytes |-> s, length |-> Len(s)]
    BY <1>1, Zenon
  <2>2. b.stored = TRUE /\ b.bytes = s /\ b.length = Len(s)
    BY <2>1, SMT
  <2>3. 2 \in Nat
    BY SMT
  <2>4. s \in Seq(Literals)
    BY <2>3, UpToIs, Zenon
  <2>5. Literals \subseteq Octets
    BY Zenon DEF Octets
  <2>6. s \in Seq(Octets)
    BY <2>4, <2>5, SeqMonotonic, Zenon
  <2>. QED
    BY <2>2, <2>6, Zenon DEF IsBlock, Data
<1>2. CASE \E s \in UpTo(MaxSymbols, Symbols) : \E e \in {<<EndOfBlock>>, <<>>} :
             b = [stored |-> FALSE, symbols |-> s \o e]
  <2>1. PICK s \in UpTo(MaxSymbols, Symbols), e \in {<<EndOfBlock>>, <<>>} :
          b = [stored |-> FALSE, symbols |-> s \o e]
    BY <1>2, Zenon
  <2>2. b.stored = FALSE /\ b.symbols = s \o e
    BY <2>1, SMT
  <2>3. MaxSymbols \in Nat
    BY InflateAssumption, SMT
  <2>4. s \in Seq(Symbols)
    BY <2>3, UpToIs, Zenon
  <2>5. Symbols \subseteq SymbolsOfBlock /\ EndOfBlock \in SymbolsOfBlock
    BY Zenon DEF SymbolsOfBlock
  <2>6. s \in Seq(SymbolsOfBlock)
    BY <2>4, <2>5, SeqMonotonic, Zenon
  <2>7. e \in Seq(SymbolsOfBlock) /\ Len(e) <= 1
    <3>1. \A x \in SymbolsOfBlock : <<x>> \in Seq(SymbolsOfBlock) /\ Len(<<x>>) <= 1
      BY SMT
    <3>2. <<>> \in Seq(SymbolsOfBlock) /\ Len(<<>>) <= 1
      BY SMT
    <3>. QED
      BY <2>5, <3>1, <3>2, Zenon
  <2>8. PICK k \in Nat, l \in Nat : k = Len(s) /\ l = Len(e)
    BY <2>6, <2>7, LenProperties, Zenon
  <2>9. /\ s \o e \in Seq(SymbolsOfBlock) /\ Len(s \o e) = Len(s) + Len(e)
        /\ \A i \in 1 .. Len(s) + Len(e) : (s \o e)[i] = IF i <= Len(s) THEN s[i] ELSE e[i - Len(s)]
    BY <2>6, <2>7, ConcatProperties, Zenon
  <2>10. ASSUME NEW i \in 1 .. k, i \in Int PROVE s[i].kind # "end"
    <3>1. s[i] \in Symbols
      BY <2>4, <2>8, ElementOfSeq, Zenon
    <3>2. CASE s[i] \in Matches
      BY <3>2, SMT DEF Matches
    <3>3. CASE \E c \in Literals : s[i] = Literal(c)
      <4>1. PICK c \in Literals : s[i] = Literal(c)
        BY <3>3
      <4>2. Literal(c).kind = "literal"
        BY SMT DEF Literal
      <4>. QED
        BY <4>1, <4>2, SMT
    <3>. QED
      BY <3>1, <3>2, <3>3, Zenon DEF Symbols
  <2>11. ASSUME NEW i \in 1 .. Len(s \o e), (s \o e)[i].kind = "end" PROVE i = Len(s \o e)
    <3>1. i \in 1 .. k + l
      BY <2>8, <2>9, <2>11, Zenon
    <3>2. CASE i <= k
      <4>1. i \in 1 .. k /\ i \in Int
        BY <3>1, <3>2, SMT
      <4>2. (s \o e)[i] = s[i]
        BY <2>8, <2>9, <3>1, <3>2, Zenon
      <4>. QED
        BY <2>10, <2>11, <4>1, <4>2, Zenon
    <3>3. CASE ~ (i <= k)
      <4>1. i = k + l
        BY <2>7, <2>8, <3>1, <3>3, SMT
      <4>. QED
        BY <2>8, <2>9, <4>1, Zenon
    <3>. QED
      BY <3>2, <3>3
  <2>12. PICK t : t = s \o e
    BY Zenon
  <2>13. t \in Seq(SymbolsOfBlock) /\ \A i \in 1 .. Len(t) : t[i].kind = "end" => i = Len(t)
    BY <2>9, <2>11, <2>12, Zenon
  <2>14. ~ b.stored /\ b.stored \in BOOLEAN /\ b.symbols = t
    BY <2>2, <2>12, Zenon
  <2>15. b.symbols \in Seq(SymbolsOfBlock)
         /\ \A i \in 1 .. Len(b.symbols) : b.symbols[i].kind = "end" => i = Len(b.symbols)
    BY <2>13, <2>14, SMT
  <2>. QED
    BY <2>14, <2>15, Zenon DEF IsBlock
<1>3. \/ \E s \in UpTo(2, Literals) : b = [stored |-> TRUE, bytes |-> s, length |-> Len(s)]
      \/ \E s \in UpTo(MaxSymbols, Symbols) : \E e \in {<<EndOfBlock>>, <<>>} :
            b = [stored |-> FALSE, symbols |-> s \o e]
  BY SMT DEF Blocks
<1>. QED
  BY <1>1, <1>2, <1>3, Zenon

(* A block adds to the data.                                               *)
LEMMA ExpandedIs ==
  ASSUME NEW data \in Data, NEW b \in Blocks
  PROVE  Expanded(data, b) \in Data /\ IsPrefix(data, Expanded(data, b))
<1>1. IsBlock(b)
  BY BlockIs, Zenon
<1>2. CASE b.stored
  <2>1. Expanded(data, b) = data \o b.bytes /\ b.bytes \in Data
    BY <1>1, <1>2, Zenon DEF Expanded, IsBlock
  <2>. QED
    BY <2>1, PrefixOfBoth, Zenon
<1>3. CASE ~ b.stored
  <2>1. Expanded(data, b) = ExpandedBy(data, b.symbols, Len(b.symbols)) /\ b.symbols \in Seq(SymbolsOfBlock)
    BY <1>1, <1>3, Zenon DEF Expanded, IsBlock
  <2>2. Len(b.symbols) \in Nat
    BY <2>1, LenProperties, Zenon
  <2>3. 0 \in 0 .. Len(b.symbols) /\ Len(b.symbols) \in 0 .. Len(b.symbols) /\ 0 <= Len(b.symbols)
    BY <2>2, SMT
  <2>4. ExpandedBy(data, b.symbols, 0) = data /\ Expanded(data, b) \in Data
    BY <2>1, <2>3, ExpandedByIs, Zenon
  <2>5. IsPrefix(ExpandedBy(data, b.symbols, 0), ExpandedBy(data, b.symbols, Len(b.symbols)))
    BY <2>1, <2>3, ExpandedByStarts, Zenon
  <2>. QED
    BY <2>1, <2>4, <2>5, Zenon
<1>. QED
  BY <1>2, <1>3

(* What the blocks stand for, one after the other.                         *)
Growing(blocks) ==
  [i \in Nat |-> [v \in Data |-> IF i \in 1 .. Len(blocks) THEN Expanded(v, blocks[i]) ELSE v]]

(* A block makes data of data.                                             *)
LEMMA GrowingIs ==
  ASSUME NEW blocks \in Seq(Blocks), NEW i \in Nat, NEW v \in Data
  PROVE  /\ Growing(blocks)[i][v] = IF i \in 1 .. Len(blocks) THEN Expanded(v, blocks[i]) ELSE v
         /\ Growing(blocks)[i][v] \in Data
<1>1. Growing(blocks)[i][v] = IF i \in 1 .. Len(blocks) THEN Expanded(v, blocks[i]) ELSE v
  BY Zenon DEF Growing
<1>2. ASSUME i \in 1 .. Len(blocks) PROVE Expanded(v, blocks[i]) \in Data
  <2>1. blocks[i] \in Blocks
    BY <1>2, ElementOfSeq, Zenon
  <2>. QED
    BY <2>1, ExpandedIs, Zenon
<1>. QED
  BY <1>1, <1>2, Zenon

(* The expansion of the first blocks is a recursion.                       *)
LEMMA ExpandedUpToGrows ==
  ASSUME NEW blocks \in Seq(Blocks), NEW n \in 0 .. Len(blocks)
  PROVE  \E w : IsUpTo(Data, <<>>, Growing(blocks), n, w) /\ ExpandedUpTo(blocks, n) = w[n]
<1> DEFINE Rounds(g) == [i \in 0 .. n |-> IF i = 0 THEN <<>> ELSE Expanded(g[i - 1], blocks[i])]
           w == CHOOSE g : g = Rounds(g)
<1>1. n \in Nat /\ Len(blocks) \in Nat
  BY LenProperties, SMT
<1>2. \A i \in 1 .. n : i \in Nat /\ i \in 1 .. Len(blocks) /\ i \in 0 .. n /\ i - 1 \in 0 .. n /\ i # 0
  BY <1>1, SMT
<1>3. \A i \in Nat : \A v \in Data : Growing(blocks)[i][v] \in Data
  BY GrowingIs, Zenon
<1>0. <<>> \in Data
  BY EmptySeq, Zenon DEF Data
<1>4. PICK f : IsUpTo(Data, <<>>, Growing(blocks), n, f)
  BY <1>0, <1>1, <1>3, UpToExists, Zenon
<1>5. f \in [0 .. n -> Data] /\ f[0] = <<>>
  BY <1>4, Zenon DEF IsUpTo
<1>6. ASSUME NEW i \in 1 .. n PROVE f[i] = Expanded(f[i - 1], blocks[i])
  <2>1. f[i] = Growing(blocks)[i][f[i - 1]]
    BY <1>4, Zenon DEF IsUpTo
  <2>2. f[i - 1] \in Data
    BY <1>2, <1>5, Zenon
  <2>. QED
    BY <1>2, <2>1, <2>2, GrowingIs, Zenon
<1>7. f = Rounds(f)
  <2>1. \A i \in 0 .. n : i # 0 => i \in 1 .. n
    BY <1>1, SMT
  <2>2. \A i \in 0 .. n : f[i] = IF i = 0 THEN <<>> ELSE Expanded(f[i - 1], blocks[i])
    BY <1>5, <1>6, <2>1, Zenon
  <2>. QED
    BY <1>5, <2>2, Zenon
<1>8. w = Rounds(w)
  BY <1>7, Zenon
<1>9. ExpandedUpTo(blocks, n) = w[n]
  BY Zenon DEF ExpandedUpTo
<1> HIDE DEF w
<1>10. \A i \in 0 .. n : w[i] = IF i = 0 THEN <<>> ELSE Expanded(w[i - 1], blocks[i])
  BY <1>8, Zenon
<1>11. 0 \in 0 .. n
  BY <1>1, SMT
<1>12. w[0] = <<>> /\ \A i \in 1 .. n : w[i] = Expanded(w[i - 1], blocks[i])
  BY <1>2, <1>10, <1>11, Zenon
<1> DEFINE S == {i \in Nat : w[i] \in Data /\ (i \in 1 .. n => w[i] = Growing(blocks)[i][w[i - 1]])}
<1>13. 0 \in S
  BY <1>0, <1>12, SMT
<1>14. ASSUME NEW i \in 1 .. n, i - 1 \in S PROVE i \in S
  <2>1. w[i - 1] \in Data
    BY <1>14, Zenon
  <2>2. w[i] = Growing(blocks)[i][w[i - 1]] /\ Growing(blocks)[i][w[i - 1]] \in Data
    BY <1>2, <1>12, <2>1, GrowingIs, Zenon
  <2>. QED
    BY <1>2, <2>2, Zenon
<1>15. 0 .. n \subseteq S
  <2> HIDE DEF S
  <2>. QED
    BY <1>1, <1>13, <1>14, InductionUpTo, Zenon
<1>16. \A i \in 0 .. n : w[i] \in Data /\ (i \in 1 .. n => w[i] = Growing(blocks)[i][w[i - 1]])
  BY <1>15, Zenon
<1>17. w \in [0 .. n -> Data]
  <2>1. w = [i \in 0 .. n |-> w[i]]
    BY <1>8, Zenon
  <2>. QED
    BY <1>16, <2>1, Zenon
<1>18. IsUpTo(Data, <<>>, Growing(blocks), n, w)
  BY <1>2, <1>12, <1>16, <1>17, Zenon DEF IsUpTo
<1>. QED
  BY <1>9, <1>18, Zenon

(* So each block is expanded after those before it.                        *)
LEMMA ExpandedUpToIs ==
  ASSUME NEW blocks \in Seq(Blocks)
  PROVE  /\ ExpandedUpTo(blocks, 0) = <<>>
         /\ \A n \in 0 .. Len(blocks) : ExpandedUpTo(blocks, n) \in Data
         /\ \A n \in 1 .. Len(blocks) :
              /\ ExpandedUpTo(blocks, n - 1) \in Data
              /\ ExpandedUpTo(blocks, n)
                   = Expanded(ExpandedUpTo(blocks, n - 1), blocks[n])
<1>1. Len(blocks) \in Nat
  BY LenProperties, Zenon
<1>2. ASSUME NEW n \in 0 .. Len(blocks) PROVE ExpandedUpTo(blocks, n) \in Data
  <2>1. PICK w : IsUpTo(Data, <<>>, Growing(blocks), n, w) /\ ExpandedUpTo(blocks, n) = w[n]
    BY ExpandedUpToGrows, Zenon
  <2>2. n \in 0 .. n
    BY SMT
  <2>. QED
    BY <2>1, <2>2, Zenon DEF IsUpTo
<1>3. ExpandedUpTo(blocks, 0) = <<>>
  <2>1. 0 \in 0 .. Len(blocks)
    BY <1>1, SMT
  <2>2. PICK w : IsUpTo(Data, <<>>, Growing(blocks), 0, w) /\ ExpandedUpTo(blocks, 0) = w[0]
    BY <2>1, ExpandedUpToGrows, Zenon
  <2>. QED
    BY <2>2, Zenon DEF IsUpTo
<1>4. ASSUME NEW n \in 1 .. Len(blocks)
      PROVE  /\ ExpandedUpTo(blocks, n - 1) \in Data
             /\ ExpandedUpTo(blocks, n)
                  = Expanded(ExpandedUpTo(blocks, n - 1), blocks[n])
  <2>1. PICK m : m = n - 1
    BY Zenon
  <2>2. /\ n \in Nat /\ m \in Nat /\ n \in 0 .. Len(blocks) /\ m \in 0 .. Len(blocks)
        /\ m <= n /\ m \in 0 .. m /\ n \in 1 .. n
    BY <1>1, <2>1, SMT
  <2>3. PICK w : IsUpTo(Data, <<>>, Growing(blocks), n, w) /\ ExpandedUpTo(blocks, n) = w[n]
    BY <2>2, ExpandedUpToGrows, Zenon
  <2>4. PICK u : IsUpTo(Data, <<>>, Growing(blocks), m, u) /\ ExpandedUpTo(blocks, m) = u[m]
    BY <2>2, ExpandedUpToGrows, Zenon
  <2>5. u[m] = w[m]
    <3>1. \A j \in 0 .. m : j <= n => u[j] = w[j]
      <4>1. m \in Nat /\ n \in Nat /\ IsUpTo(Data, <<>>, Growing(blocks), n, w) /\ IsUpTo(Data, <<>>, Growing(blocks), m, u)
        BY <2>2, <2>3, <2>4, Zenon
      <4>. QED
        BY <4>1, UpToIsUnique, SMT
    <3>. QED
      BY <2>2, <3>1, Zenon
  <2>6. w[n] = Growing(blocks)[n][w[m]]
    BY <2>1, <2>2, <2>3, Zenon DEF IsUpTo
  <2>7. u[m] \in Data
    BY <1>2, <2>2, <2>4, Zenon
  <2>8. w[n] = Expanded(w[m], blocks[n])
    BY <2>2, <2>5, <2>6, <2>7, GrowingIs, Zenon
  <2>. QED
    BY <2>1, <2>3, <2>4, <2>5, <2>7, <2>8, Zenon
<1>. QED
  BY <1>2, <1>3, <1>4, Zenon

(* And what the first blocks stand for is the start of what more do.       *)
LEMMA ExpandedUpToStarts ==
  ASSUME NEW blocks \in Seq(Blocks),
         NEW m \in 0 .. Len(blocks), NEW n \in 0 .. Len(blocks), m <= n
  PROVE  IsPrefix(ExpandedUpTo(blocks, m), ExpandedUpTo(blocks, n))
<1> DEFINE e(i) == ExpandedUpTo(blocks, i)
           S == {i \in Nat : m <= i => IsPrefix(e(m), e(i))}
<1>1. PICK N \in Nat : N = Len(blocks)
  BY LenProperties, Zenon
<1>2. e(m) \in Data /\ IsPrefix(e(m), e(m))
  BY ExpandedUpToIs, PrefixOfItself, Zenon
<1>3. 0 \in S
  <2>1. m <= 0 => m = 0
    BY SMT
  <2>. QED
    BY <1>2, <2>1, SMT
<1>4. ASSUME NEW i \in 1 .. N, i - 1 \in S PROVE i \in S
  <2>1. PICK k : k = i - 1
    BY Zenon
  <2>2. i \in Nat /\ k \in 0 .. N /\ i \in 0 .. N /\ (m <= i => m = i \/ m <= k)
    BY <2>1, SMT
  <2>3. e(k) \in Data /\ e(i) \in Data /\ e(i) = Expanded(e(k), blocks[i])
    BY <1>1, <2>1, <2>2, ExpandedUpToIs, Zenon
  <2>4. IsPrefix(e(k), e(i))
    <3>1. blocks[i] \in Blocks
      BY <1>1, ElementOfSeq, Zenon
    <3>. QED
      BY <2>3, <3>1, ExpandedIs, Zenon
  <2>5. m <= k => IsPrefix(e(m), e(k))
    BY <1>4, <2>1, Zenon
  <2>6. m <= k => IsPrefix(e(m), e(i))
    BY <1>2, <2>3, <2>4, <2>5, PrefixTransitive, Zenon
  <2>. QED
    BY <1>2, <2>2, <2>6, Zenon
<1>5. 0 .. N \subseteq S
  <2> HIDE DEF S
  <2>. QED
    BY <1>3, <1>4, InductionUpTo, Zenon
<1>. QED
  BY <1>1, <1>5, Zenon

(* A block more changes nothing before it.                                 *)
LEMMA ExpandedUpToKept ==
  ASSUME NEW blocks \in Seq(Blocks), NEW b \in Blocks, NEW n \in 0 .. Len(blocks)
  PROVE  ExpandedUpTo(Append(blocks, b), n) = ExpandedUpTo(blocks, n)
<1> DEFINE more == Append(blocks, b)
           S == {i \in Nat : ExpandedUpTo(more, i) = ExpandedUpTo(blocks, i)}
<1>1. PICK N \in Nat : N = Len(blocks)
  BY LenProperties, Zenon
<1>2. more \in Seq(Blocks) /\ Len(more) = Len(blocks) + 1 /\ \A i \in 1 .. Len(blocks) : more[i] = blocks[i]
  BY AppendProperties, SMT
<1> HIDE DEF more
<1>3. 0 \in S
  <2>1. ExpandedUpTo(more, 0) = ExpandedUpTo(blocks, 0)
    BY <1>2, ExpandedUpToIs, Zenon
  <2>2. 0 \in Nat
    BY SMT
  <2>. QED
    BY <2>1, <2>2, Zenon
<1>4. ASSUME NEW i \in 1 .. N, i - 1 \in S PROVE i \in S
  <2>1. i \in 1 .. Len(blocks) /\ i \in 1 .. Len(more) /\ i \in Nat
    BY <1>1, <1>2, SMT
  <2>2. ExpandedUpTo(blocks, i) = Expanded(ExpandedUpTo(blocks, i - 1), blocks[i])
    BY <2>1, ExpandedUpToIs, Zenon
  <2>3. ExpandedUpTo(more, i) = Expanded(ExpandedUpTo(more, i - 1), more[i])
    BY <1>2, <2>1, ExpandedUpToIs, Zenon
  <2>4. ExpandedUpTo(more, i - 1) = ExpandedUpTo(blocks, i - 1)
    BY <1>4, Zenon
  <2>. QED
    BY <1>2, <2>1, <2>2, <2>3, <2>4, Zenon
<1>5. 0 .. N \subseteq S
  <2> HIDE DEF S
  <2>. QED
    BY <1>1, <1>3, <1>4, InductionUpTo, Zenon
<1>. QED
  BY <1>1, <1>5, Zenon DEF more

-----------------------------------------------------------------------------
(* The reader, field by field.                                             *)
Statuses == {"ok", "done", "error"}
Rings == [0 .. DictSize - 1 -> Octets] \cup {<<>>}
Readers ==
  [status : Statuses, streaming : BOOLEAN, block : Nat, at : Nat, curlen : Nat, lzOff : Int,
   ring : Rings, dictIdx : Nat, dest : Data]

Has(r, status, streaming, block, at, curlen, lzOff, ring, dictIdx, dest) ==
  /\ r \in Readers
  /\ r.status = status /\ r.streaming = streaming /\ r.block = block /\ r.at = at /\ r.curlen = curlen
  /\ r.lzOff = lzOff /\ r.ring = ring /\ r.dictIdx = dictIdx /\ r.dest = dest

(* Setting one field keeps the others: the status, ...                     *)
LEMMA SetStatus ==
  ASSUME NEW r \in Readers, NEW v \in Statuses
  PROVE  Has([r EXCEPT !.status = v], v, r.streaming, r.block, r.at, r.curlen, r.lzOff, r.ring, r.dictIdx, r.dest)
<1>1. \A t \in Readers : \A m \in Statuses : [t EXCEPT !.status = m] \in Readers
  BY Zenon DEF Readers
<1>2. PICK p : p = [r EXCEPT !.status = v]
  BY Zenon
<1>3. /\ p.status = v /\ p.streaming = r.streaming /\ p.block = r.block /\ p.at = r.at /\ p.curlen = r.curlen
      /\ p.lzOff = r.lzOff /\ p.ring = r.ring /\ p.dictIdx = r.dictIdx /\ p.dest = r.dest
  BY <1>2, SMT DEF Readers
<1>. QED
  BY <1>1, <1>2, <1>3, Zenon DEF Has

(* ... the block, ...                                                      *)
LEMMA SetBlock ==
  ASSUME NEW r \in Readers, NEW v \in Nat
  PROVE  Has([r EXCEPT !.block = v], r.status, r.streaming, v, r.at, r.curlen, r.lzOff, r.ring, r.dictIdx, r.dest)
<1>1. \A t \in Readers : \A m \in Nat : [t EXCEPT !.block = m] \in Readers
  BY Zenon DEF Readers
<1>2. PICK p : p = [r EXCEPT !.block = v]
  BY Zenon
<1>3. /\ p.block = v /\ p.status = r.status /\ p.streaming = r.streaming /\ p.at = r.at /\ p.curlen = r.curlen
      /\ p.lzOff = r.lzOff /\ p.ring = r.ring /\ p.dictIdx = r.dictIdx /\ p.dest = r.dest
  BY <1>2, SMT DEF Readers
<1>. QED
  BY <1>1, <1>2, <1>3, Zenon DEF Has

(* ... the place in it, ...                                                *)
LEMMA SetAt ==
  ASSUME NEW r \in Readers, NEW v \in Nat
  PROVE  Has([r EXCEPT !.at = v], r.status, r.streaming, r.block, v, r.curlen, r.lzOff, r.ring, r.dictIdx, r.dest)
<1>1. \A t \in Readers : \A m \in Nat : [t EXCEPT !.at = m] \in Readers
  BY Zenon DEF Readers
<1>2. PICK p : p = [r EXCEPT !.at = v]
  BY Zenon
<1>3. /\ p.at = v /\ p.status = r.status /\ p.streaming = r.streaming /\ p.block = r.block /\ p.curlen = r.curlen
      /\ p.lzOff = r.lzOff /\ p.ring = r.ring /\ p.dictIdx = r.dictIdx /\ p.dest = r.dest
  BY <1>2, SMT DEF Readers
<1>. QED
  BY <1>1, <1>2, <1>3, Zenon DEF Has

(* ... what is left of a match, ...                                        *)
LEMMA SetCurlen ==
  ASSUME NEW r \in Readers, NEW v \in Nat
  PROVE  Has([r EXCEPT !.curlen = v], r.status, r.streaming, r.block, r.at, v, r.lzOff, r.ring, r.dictIdx, r.dest)
<1>1. \A t \in Readers : \A m \in Nat : [t EXCEPT !.curlen = m] \in Readers
  BY Zenon DEF Readers
<1>2. PICK p : p = [r EXCEPT !.curlen = v]
  BY Zenon
<1>3. /\ p.curlen = v /\ p.status = r.status /\ p.streaming = r.streaming /\ p.block = r.block /\ p.at = r.at
      /\ p.lzOff = r.lzOff /\ p.ring = r.ring /\ p.dictIdx = r.dictIdx /\ p.dest = r.dest
  BY <1>2, SMT DEF Readers
<1>. QED
  BY <1>1, <1>2, <1>3, Zenon DEF Has

(* ... where it goes on from, ...                                          *)
LEMMA SetLzOff ==
  ASSUME NEW r \in Readers, NEW v \in Int
  PROVE  Has([r EXCEPT !.lzOff = v], r.status, r.streaming, r.block, r.at, r.curlen, v, r.ring, r.dictIdx, r.dest)
<1>1. \A t \in Readers : \A m \in Int : [t EXCEPT !.lzOff = m] \in Readers
  BY Zenon DEF Readers
<1>2. PICK p : p = [r EXCEPT !.lzOff = v]
  BY Zenon
<1>3. /\ p.lzOff = v /\ p.status = r.status /\ p.streaming = r.streaming /\ p.block = r.block /\ p.at = r.at
      /\ p.curlen = r.curlen /\ p.ring = r.ring /\ p.dictIdx = r.dictIdx /\ p.dest = r.dest
  BY <1>2, SMT DEF Readers
<1>. QED
  BY <1>1, <1>2, <1>3, Zenon DEF Has

(* ... the ring, ...                                                       *)
LEMMA SetRing ==
  ASSUME NEW r \in Readers, NEW v \in Rings
  PROVE  Has([r EXCEPT !.ring = v], r.status, r.streaming, r.block, r.at, r.curlen, r.lzOff, v, r.dictIdx, r.dest)
<1>1. \A t \in Readers : \A m \in Rings : [t EXCEPT !.ring = m] \in Readers
  BY Zenon DEF Readers
<1>2. PICK p : p = [r EXCEPT !.ring = v]
  BY Zenon
<1>3. /\ p.ring = v /\ p.status = r.status /\ p.streaming = r.streaming /\ p.block = r.block /\ p.at = r.at
      /\ p.curlen = r.curlen /\ p.lzOff = r.lzOff /\ p.dictIdx = r.dictIdx /\ p.dest = r.dest
  BY <1>2, SMT DEF Readers
<1>. QED
  BY <1>1, <1>2, <1>3, Zenon DEF Has

(* ... the place in it, ...                                                *)
LEMMA SetDictIdx ==
  ASSUME NEW r \in Readers, NEW v \in Nat
  PROVE  Has([r EXCEPT !.dictIdx = v], r.status, r.streaming, r.block, r.at, r.curlen, r.lzOff, r.ring, v, r.dest)
<1>1. \A t \in Readers : \A m \in Nat : [t EXCEPT !.dictIdx = m] \in Readers
  BY Zenon DEF Readers
<1>2. PICK p : p = [r EXCEPT !.dictIdx = v]
  BY Zenon
<1>3. /\ p.dictIdx = v /\ p.status = r.status /\ p.streaming = r.streaming /\ p.block = r.block /\ p.at = r.at
      /\ p.curlen = r.curlen /\ p.lzOff = r.lzOff /\ p.ring = r.ring /\ p.dest = r.dest
  BY <1>2, SMT DEF Readers
<1>. QED
  BY <1>1, <1>2, <1>3, Zenon DEF Has

(* ... and the buffer of the call.                                         *)
LEMMA SetDest ==
  ASSUME NEW r \in Readers, NEW v \in Data
  PROVE  Has([r EXCEPT !.dest = v], r.status, r.streaming, r.block, r.at, r.curlen, r.lzOff, r.ring, r.dictIdx, v)
<1>1. \A t \in Readers : \A m \in Data : [t EXCEPT !.dest = m] \in Readers
  BY Zenon DEF Readers
<1>2. PICK p : p = [r EXCEPT !.dest = v]
  BY Zenon
<1>3. /\ p.dest = v /\ p.status = r.status /\ p.streaming = r.streaming /\ p.block = r.block /\ p.at = r.at
      /\ p.curlen = r.curlen /\ p.lzOff = r.lzOff /\ p.ring = r.ring /\ p.dictIdx = r.dictIdx
  BY <1>2, SMT DEF Readers
<1>. QED
  BY <1>1, <1>2, <1>3, Zenon DEF Has

-----------------------------------------------------------------------------
(* The ring holds the last bytes that came out.                            *)
RingHolds(streaming, ring, dictIdx, data) ==
  streaming =>
    /\ ring \in [0 .. DictSize - 1 -> Octets]
    /\ dictIdx = Len(data) % DictSize
    /\ \A j \in 1 .. Len(data) : Len(data) < j + DictSize => ring[(j - 1) % DictSize] = data[j]

(* And where there is none, the call has put out all of them.              *)
InDest(streaming, dest, data) == ~ streaming => dest = data

(* Where a match goes on from.                                             *)
Offset(streaming, lzOff, distance, data) ==
  lzOff = IF streaming THEN (Len(data) - distance) % DictSize ELSE - distance

Carries(r, data) ==
  /\ r \in Readers /\ data \in Data
  /\ RingHolds(r.streaming, r.ring, r.dictIdx, data) /\ InDest(r.streaming, r.dest, data)

(* A byte that enters the ring leaves the ones that still count.           *)
LEMMA RingHoldsNext ==
  ASSUME NEW ring, NEW idx, NEW data \in Data, NEW c \in Octets, RingHolds(TRUE, ring, idx, data)
  PROVE  /\ RingHolds(TRUE, [ring EXCEPT ![idx] = c], (idx + 1) % DictSize, Append(data, c))
         /\ idx \in 0 .. DictSize - 1 /\ (idx + 1) % DictSize \in Nat
<1> DEFINE next == [ring EXCEPT ![idx] = c]
<1>1. DictSize \in Nat \ {0}
  BY InflateAssumption, SMT
<1>2. PICK n \in Nat : n = Len(data)
  BY LenProperties, Zenon DEF Data
<1>3. /\ ring \in [0 .. DictSize - 1 -> Octets] /\ idx = n % DictSize
      /\ \A j \in 1 .. n : n < j + DictSize => ring[(j - 1) % DictSize] = data[j]
  BY <1>2, Zenon DEF RingHolds
<1>4. n \in Int /\ n + 1 \in Int
  BY SMT
<1>5. \A a \in Int : a % DictSize \in 0 .. DictSize - 1
  BY <1>1, DivMod, Zenon
<1>6. idx \in 0 .. DictSize - 1
  BY <1>3, <1>4, <1>5, Zenon
<1>7. next \in [0 .. DictSize - 1 -> Octets]
  BY <1>3, Zenon
<1>8. (idx + 1) % DictSize = (n + 1) % DictSize
  BY <1>1, <1>3, <1>4, RemainderOfNext, Zenon
<1>9. /\ Append(data, c) \in Data /\ Len(Append(data, c)) = Len(data) + 1
      /\ \A j \in 1 .. Len(data) : Append(data, c)[j] = data[j]
      /\ Append(data, c)[Len(data) + 1] = c
  BY ByteAdded, Zenon
<1>10. ASSUME NEW j \in 1 .. n + 1, n + 1 < j + DictSize
       PROVE  next[(j - 1) % DictSize] = Append(data, c)[j]
  <2>1. PICK i : i = j - 1
    BY Zenon
  <2>2. CASE j = n + 1
    <3>1. i = n
      BY <2>1, <2>2, SMT
    <3>. QED
      BY <1>2, <1>3, <1>6, <1>9, <2>1, <2>2, <3>1, Zenon
  <2>3. CASE j # n + 1
    <3>1. j \in 1 .. n /\ n < j + DictSize /\ i \in Int /\ i < n /\ n < i + DictSize
      BY <1>1, <1>10, <2>1, <2>3, SMT
    <3>2. i % DictSize # idx
      BY <1>1, <1>3, <1>4, <3>1, RemaindersDiffer, Zenon
    <3>3. i % DictSize \in 0 .. DictSize - 1
      BY <1>5, <3>1, Zenon
    <3>4. next[i % DictSize] = ring[i % DictSize]
      BY <1>3, <3>2, <3>3, Zenon
    <3>5. ring[i % DictSize] = data[j]
      BY <1>3, <2>1, <3>1, Zenon
    <3>6. Append(data, c)[j] = data[j]
      BY <1>2, <1>9, <3>1, Zenon
    <3>. QED
      BY <2>1, <3>4, <3>5, <3>6, Zenon
  <2>. QED
    BY <2>2, <2>3
<1> HIDE DEF next
<1>11. RingHolds(TRUE, next, (idx + 1) % DictSize, Append(data, c))
  BY <1>2, <1>7, <1>8, <1>9, <1>10, Zenon DEF RingHolds
<1>12. (idx + 1) % DictSize \in Nat
  <2>1. \A a \in 0 .. DictSize - 1 : a \in Nat
    BY <1>1, SMT
  <2>. QED
    BY <1>4, <1>5, <1>8, <2>1, Zenon
<1>. QED
  BY <1>6, <1>11, <1>12, Zenon DEF next

(* A byte is put out.                                                      *)
LEMMA PutIs ==
  ASSUME NEW r, NEW data, Carries(r, data), NEW c \in Octets
  PROVE  /\ Has(Put(r, c), r.status, r.streaming, r.block, r.at, r.curlen, r.lzOff, Put(r, c).ring,
               Put(r, c).dictIdx, Append(r.dest, c))
         /\ Carries(Put(r, c), Append(data, c))
<1> DEFINE p == [r EXCEPT !.dest = Append(@, c)]
           q == [p EXCEPT !.ring = [@ EXCEPT ![r.dictIdx] = c]]
           idx == (r.dictIdx + 1) % DictSize
<1>1. /\ r \in Readers /\ data \in Data /\ RingHolds(r.streaming, r.ring, r.dictIdx, data)
      /\ InDest(r.streaming, r.dest, data)
  BY Zenon DEF Carries
<1>2. r.dest \in Data /\ r.streaming \in BOOLEAN
  BY <1>1, SMT DEF Readers
<1>3. Append(r.dest, c) \in Data /\ Append(data, c) \in Data
  BY <1>1, <1>2, AppendProperties, Zenon DEF Data
<1>4. p = [r EXCEPT !.dest = Append(r.dest, c)]
  BY Zenon
<1>5. Has(p, r.status, r.streaming, r.block, r.at, r.curlen, r.lzOff, r.ring, r.dictIdx, Append(r.dest, c))
  BY <1>1, <1>3, <1>4, SetDest, Zenon
<1>6. InDest(r.streaming, Append(r.dest, c), Append(data, c))
  BY <1>1, Zenon DEF InDest
<1>7. CASE ~ r.streaming
  <2>1. Put(r, c) = p
    BY <1>7, Zenon DEF Put
  <2> HIDE DEF p
  <2>2. /\ p \in Readers /\ p.streaming = r.streaming /\ p.dest = Append(r.dest, c)
        /\ p.ring = r.ring /\ p.dictIdx = r.dictIdx
    BY <1>5, Zenon DEF Has
  <2>3. RingHolds(p.streaming, p.ring, p.dictIdx, Append(data, c))
    BY <1>7, <2>2, Zenon DEF RingHolds
  <2>. QED
    BY <1>3, <1>5, <1>6, <2>1, <2>2, <2>3, Zenon DEF Carries
<1>8. CASE r.streaming
  <2>1. Put(r, c) = [q EXCEPT !.dictIdx = idx]
    BY <1>8, Zenon DEF Put
  <2>2. r.streaming = TRUE
    BY <1>2, <1>8, Zenon
  <2>3. /\ RingHolds(TRUE, [r.ring EXCEPT ![r.dictIdx] = c], idx, Append(data, c))
        /\ idx \in Nat
    BY <1>1, <2>2, RingHoldsNext, Zenon
  <2>4. [r.ring EXCEPT ![r.dictIdx] = c] \in Rings
    BY <2>3, Zenon DEF RingHolds, Rings
  <2> HIDE DEF p
  <2>5. p \in Readers /\ p.ring = r.ring
    BY <1>5, Zenon DEF Has
  <2>6. q = [p EXCEPT !.ring = [r.ring EXCEPT ![r.dictIdx] = c]]
    BY <2>5, Zenon
  <2>7. Has(q, p.status, p.streaming, p.block, p.at, p.curlen, p.lzOff,
            [r.ring EXCEPT ![r.dictIdx] = c], p.dictIdx, p.dest)
    BY <2>4, <2>5, <2>6, SetRing, Zenon
  <2> HIDE DEF q, idx
  <2>8. q \in Readers
    BY <2>7, Zenon DEF Has
  <2>9. Has(Put(r, c), q.status, q.streaming, q.block, q.at, q.curlen, q.lzOff, q.ring, idx, q.dest)
    BY <2>1, <2>3, <2>8, SetDictIdx, Zenon
  <2>10. Has(Put(r, c), r.status, r.streaming, r.block, r.at, r.curlen, r.lzOff,
             [r.ring EXCEPT ![r.dictIdx] = c], idx, Append(r.dest, c))
    BY <1>5, <2>7, <2>9, Zenon DEF Has
  <2>11. PICK s : s = Put(r, c)
    BY Zenon
  <2>12. /\ s \in Readers /\ s.streaming = r.streaming /\ s.dest = Append(r.dest, c)
         /\ s.ring = [r.ring EXCEPT ![r.dictIdx] = c] /\ s.dictIdx = idx
    BY <2>10, <2>11, Zenon DEF Has
  <2>13. RingHolds(s.streaming, s.ring, s.dictIdx, Append(data, c)) /\ InDest(s.streaming, s.dest, Append(data, c))
    BY <1>6, <2>2, <2>3, <2>12, Zenon
  <2>14. Carries(s, Append(data, c))
    BY <1>3, <2>12, <2>13, Zenon DEF Carries
  <2>15. Has(s, r.status, r.streaming, r.block, r.at, r.curlen, r.lzOff, s.ring, s.dictIdx, Append(r.dest, c))
    BY <2>10, <2>11, Zenon DEF Has
  <2>. QED
    BY <2>11, <2>14, <2>15, Zenon
<1>. QED
  BY <1>7, <1>8

(* Other fields do not matter to that.                                     *)
LEMMA CarriesStill ==
  ASSUME NEW p, NEW q, NEW data, Carries(p, data), NEW status, NEW block, NEW at, NEW curlen, NEW lzOff,
         Has(q, status, p.streaming, block, at, curlen, lzOff, p.ring, p.dictIdx, p.dest)
  PROVE  Carries(q, data)
<1>1. q \in Readers /\ q.streaming = p.streaming /\ q.ring = p.ring /\ q.dictIdx = p.dictIdx /\ q.dest = p.dest
  BY Zenon DEF Has
<1>2. /\ data \in Data /\ RingHolds(p.streaming, p.ring, p.dictIdx, data) /\ InDest(p.streaming, p.dest, data)
  BY Zenon DEF Carries
<1>. QED
  BY <1>1, <1>2, Zenon DEF Carries

(* What is copied is the byte that the match reaches back to, and the next *)
(* one is found after it.                                                  *)
Copies(r, data, c, distance) ==
  /\ Carries(CopyByte(r), Append(data, c))
  /\ Offset(r.streaming, CopyByte(r).lzOff, distance, Append(data, c))
  /\ Has(CopyByte(r), r.status, r.streaming, r.block, r.at, r.curlen - 1, CopyByte(r).lzOff,
         CopyByte(r).ring, CopyByte(r).dictIdx, Append(r.dest, c))

(* So what it puts out goes along with the data.                           *)
LEMMA CopyByteIs ==
  ASSUME NEW r, NEW data, Carries(r, data), NEW d \in Nat \ {0}, d <= Len(data), d <= DictSize,
         Offset(r.streaming, r.lzOff, d, data), r.curlen > 0,
         NEW c, c = data[Len(data) - d + 1]
  PROVE  c \in Octets /\ Copies(r, data, c, d)
<1> DEFINE taken == IF r.streaming THEN r.ring[r.lzOff] ELSE r.dest[Len(r.dest) + r.lzOff + 1]
           q == Put(r, c)
           p == [q EXCEPT !.curlen = @ - 1]
           lzOff == (r.lzOff + 1) % DictSize
<1>1. /\ r \in Readers /\ data \in Data /\ RingHolds(r.streaming, r.ring, r.dictIdx, data)
      /\ InDest(r.streaming, r.dest, data)
  BY Zenon DEF Carries
<1>2. r.streaming \in BOOLEAN /\ r.curlen \in Nat /\ r.lzOff \in Int
  BY <1>1, SMT DEF Readers
<1>3. PICK n \in Nat : n = Len(data)
  BY <1>1, LenProperties, Zenon DEF Data
<1>4. PICK j : j = n - d + 1
  BY Zenon
<1>5. PICK i : i = n - d
  BY Zenon
<1>6. d <= n
  BY <1>3, Zenon
<1>7. /\ j \in 1 .. n /\ j - 1 = i /\ i \in Int /\ n < j + DictSize /\ n + 1 - d = i + 1
      /\ DictSize \in Nat \ {0}
  BY <1>4, <1>5, <1>6, InflateAssumption, SMT
<1>8. c = data[j]
  BY <1>3, <1>4, Zenon
<1>9. c \in Octets
  BY <1>1, <1>3, <1>7, <1>8, ElementOfSeq, Zenon DEF Data
<1>10. taken = c
  <2>1. CASE r.streaming
    <3>1. r.lzOff = i % DictSize
      BY <1>3, <1>5, <2>1, Zenon DEF Offset
    <3>2. r.ring[(j - 1) % DictSize] = data[j]
      BY <1>1, <1>3, <1>7, <2>1, Zenon DEF RingHolds
    <3>. QED
      BY <1>7, <1>8, <2>1, <3>1, <3>2, Zenon
  <2>2. CASE ~ r.streaming
    <3>1. r.lzOff = - d /\ r.dest = data
      BY <1>1, <2>2, Zenon DEF Offset, InDest
    <3>2. n + (- d) + 1 = j
      BY <1>4, SMT
    <3>. QED
      BY <1>3, <1>8, <2>2, <3>1, <3>2, Zenon
  <2>. QED
    BY <2>1, <2>2
<1>11. /\ Has(q, r.status, r.streaming, r.block, r.at, r.curlen, r.lzOff, q.ring, q.dictIdx, Append(r.dest, c))
       /\ Carries(q, Append(data, c))
  BY <1>9, PutIs, Zenon
<1>12. CopyByte(r) = IF r.streaming THEN [p EXCEPT !.lzOff = (@ + 1) % DictSize] ELSE p
  <2>1. CopyByte(r) = IF r.streaming
                        THEN [[Put(r, taken) EXCEPT !.curlen = @ - 1] EXCEPT !.lzOff = (@ + 1) % DictSize]
                        ELSE [Put(r, taken) EXCEPT !.curlen = @ - 1]
    BY Zenon DEF CopyByte
  <2> HIDE DEF taken
  <2>. QED
    BY <1>10, <2>1, Zenon
<1> HIDE DEF taken, q
<1>13. /\ q \in Readers /\ q.curlen = r.curlen /\ q.lzOff = r.lzOff /\ q.streaming = r.streaming
       /\ q.dest = Append(r.dest, c) /\ q.status = r.status /\ q.block = r.block /\ q.at = r.at
  BY <1>11, Zenon DEF Has
<1>14. PICK k \in Nat : k = r.curlen - 1
  BY <1>2, SMT
<1>15. p = [q EXCEPT !.curlen = k]
  BY <1>13, <1>14, Zenon
<1>16. Has(p, r.status, r.streaming, r.block, r.at, k, r.lzOff, q.ring, q.dictIdx, Append(r.dest, c))
  <2>1. Has(p, q.status, q.streaming, q.block, q.at, k, q.lzOff, q.ring, q.dictIdx, q.dest)
    BY <1>13, <1>15, SetCurlen, Zenon
  <2> HIDE DEF p
  <2>. QED
    BY <1>13, <2>1, Zenon DEF Has
<1> HIDE DEF p
<1>17. Len(Append(data, c)) - d = i + 1
  <2>1. Len(Append(data, c)) = Len(data) + 1
    BY <1>1, <1>9, ByteAdded, Zenon
  <2>2. PICK m : m = Len(Append(data, c))
    BY Zenon
  <2>3. m = n + 1
    BY <1>3, <2>1, <2>2, Zenon
  <2>. QED
    BY <1>5, <2>2, <2>3, SMT
<1>18. PICK s : s = CopyByte(r)
  BY Zenon
<1>19. /\ Offset(r.streaming, s.lzOff, d, Append(data, c))
       /\ Has(s, r.status, r.streaming, r.block, r.at, k, s.lzOff, q.ring, q.dictIdx, Append(r.dest, c))
  <2>1. CASE ~ r.streaming
    <3>1. s = p
      BY <1>12, <1>18, <2>1, Zenon
    <3>2. s.lzOff = r.lzOff
      BY <1>16, <3>1, Zenon DEF Has
    <3>3. Offset(r.streaming, s.lzOff, d, Append(data, c))
      BY <2>1, <3>2, Zenon DEF Offset
    <3>. QED
      BY <1>16, <3>1, <3>2, <3>3, Zenon
  <2>2. CASE r.streaming
    <3>1. p \in Readers /\ p.lzOff = r.lzOff
      BY <1>16, Zenon DEF Has
    <3>2. s = [p EXCEPT !.lzOff = lzOff]
      BY <1>12, <1>18, <2>2, <3>1, Zenon
    <3>3. r.lzOff = i % DictSize
      BY <1>3, <1>5, <2>2, Zenon DEF Offset
    <3>4. lzOff = (i + 1) % DictSize
      BY <1>7, <3>3, RemainderOfNext, Zenon
    <3>5. lzOff \in Int
      <4>1. PICK a \in Int : a = i + 1
        BY <1>7, SMT
      <4>2. a % DictSize \in 0 .. DictSize - 1
        BY <1>7, DivMod, Zenon
      <4>3. \A x \in 0 .. DictSize - 1 : x \in Int
        BY SMT
      <4>. QED
        BY <3>4, <4>1, <4>2, <4>3, Zenon
    <3> HIDE DEF lzOff
    <3>6. Has(s, p.status, p.streaming, p.block, p.at, p.curlen, lzOff, p.ring, p.dictIdx, p.dest)
      BY <3>1, <3>2, <3>5, SetLzOff, Zenon
    <3>7. s.lzOff = lzOff
      BY <3>6, Zenon DEF Has
    <3>8. Has(s, r.status, r.streaming, r.block, r.at, k, s.lzOff, q.ring, q.dictIdx, Append(r.dest, c))
      BY <1>16, <3>6, <3>7, Zenon DEF Has
    <3>9. Offset(r.streaming, s.lzOff, d, Append(data, c))
      BY <1>17, <2>2, <3>4, <3>7, Zenon DEF Offset
    <3>. QED
      BY <3>8, <3>9, Zenon
  <2>. QED
    BY <2>1, <2>2
<1>20. Carries(s, Append(data, c))
  <2>1. Has(s, r.status, q.streaming, r.block, r.at, k, s.lzOff, q.ring, q.dictIdx, q.dest)
    BY <1>13, <1>19, Zenon
  <2>. QED
    BY <1>11, <2>1, CarriesStill, Zenon
<1>21. Has(s, r.status, r.streaming, r.block, r.at, r.curlen - 1, s.lzOff, s.ring, s.dictIdx, Append(r.dest, c))
  BY <1>14, <1>19, Zenon DEF Has
<1>. QED
  BY <1>9, <1>18, <1>19, <1>20, <1>21, Zenon DEF Copies

-----------------------------------------------------------------------------
(* A stream: every match reaches back into the data before it.             *)
StreamIs ==
  /\ stream \in Seq(Blocks)
  /\ \A n \in 1 .. Len(stream) :
       /\ ReachesBack(ExpandedUpTo(stream, n - 1), stream[n])
       /\ ~ stream[n].stored => stream[n].symbols # <<>>

(* In the middle of the bytes of a block: curlen is one more than what is  *)
(* left of them.                                                           *)
InStored(at, curlen, stored, before, data) ==
  /\ at \in 1 .. Len(stored) + 1
  /\ Len(data) = Len(before) + at - 1 /\ IsPrefix(data, before \o stored)
  /\ curlen = IF at = 1 THEN 0 ELSE Len(stored) - at + 2

(* In the middle of its symbols, or of a match that is one of them.        *)
InMatch(streaming, lzOff, curlen, symbol, data) ==
  /\ symbol.kind = "match" /\ curlen <= symbol.length
  /\ Offset(streaming, lzOff, symbol.distance, data)

InSymbols(streaming, at, curlen, lzOff, symbols, before, data) ==
  /\ at \in 1 .. Len(symbols) + 1
  /\ \A i \in 1 .. Len(symbols) : i < at => symbols[i].kind # "end"
  /\ Len(data) + curlen = Len(ExpandedBy(before, symbols, at - 1))
  /\ IsPrefix(data, ExpandedBy(before, symbols, at - 1))
  /\ curlen > 0 => at > 1 /\ InMatch(streaming, lzOff, curlen, symbols[at - 1], data)

InBlock(r, b, before, data) ==
  IF b.stored THEN InStored(r.at, r.curlen, b.bytes, before, data)
  ELSE InSymbols(r.streaming, r.at, r.curlen, r.lzOff, b.symbols, before, data)

IsAt(r, data) ==
  /\ r.block \in 1 .. Len(stream)
  /\ InBlock(r, stream[r.block], ExpandedUpTo(stream, r.block - 1), data)

(* What came out is the start of what the stream stands for, and what      *)
(* comes next is known.                                                    *)
Kept(r, data) ==
  /\ r.status = "ok" => IsAt(r, data)
  /\ r.status = "done" => data = Expansion(stream)
  /\ r.status = "error" => IsPrefix(data, Expansion(stream)) /\ ~ IsWhole(stream)

(* A round of the loop puts out a byte or none.                            *)
GoesOn(r, data, s) ==
  \/ Carries(s, data) /\ Kept(s, data) /\ s.dest = r.dest
  \/ \E c \in Octets : Carries(s, Append(data, c)) /\ Kept(s, Append(data, c)) /\ s.dest = Append(r.dest, c)

(* A block of the stream expands what those before it stand for.           *)
LEMMA BlockOfStream ==
  ASSUME StreamIs, NEW n \in 1 .. Len(stream)
  PROVE  /\ stream[n] \in Blocks /\ IsBlock(stream[n])
         /\ ExpandedUpTo(stream, n - 1) \in Data /\ ExpandedUpTo(stream, n) \in Data
         /\ ExpandedUpTo(stream, n) = Expanded(ExpandedUpTo(stream, n - 1), stream[n])
         /\ IsPrefix(ExpandedUpTo(stream, n), Expansion(stream)) /\ Expansion(stream) \in Data
<1>1. stream \in Seq(Blocks)
  BY Zenon DEF StreamIs
<1>2. Len(stream) \in Nat
  BY <1>1, LenProperties, Zenon
<1>3. stream[n] \in Blocks
  BY <1>1, ElementOfSeq, Zenon
<1>4. /\ ExpandedUpTo(stream, n - 1) \in Data
      /\ ExpandedUpTo(stream, n) = Expanded(ExpandedUpTo(stream, n - 1), stream[n])
  BY <1>1, ExpandedUpToIs, Zenon
<1>5. n \in 0 .. Len(stream) /\ Len(stream) \in 0 .. Len(stream) /\ n <= Len(stream)
  BY <1>2, SMT
<1>6. ExpandedUpTo(stream, n) \in Data /\ ExpandedUpTo(stream, Len(stream)) \in Data
  BY <1>1, <1>5, ExpandedUpToIs, Zenon
<1>7. IsPrefix(ExpandedUpTo(stream, n), ExpandedUpTo(stream, Len(stream)))
  BY <1>1, <1>5, ExpandedUpToStarts, Zenon
<1>8. IsBlock(stream[n])
  BY <1>3, BlockIs, Zenon
<1>. QED
  BY <1>3, <1>4, <1>6, <1>7, <1>8, Zenon DEF Expansion

(* At the first byte or symbol of a block.                                 *)
LEMMA AtFirst ==
  ASSUME StreamIs, NEW n \in 1 .. Len(stream), NEW r, r.block = n, r.at = 1, r.curlen = 0
  PROVE  IsAt(r, ExpandedUpTo(stream, n - 1))
<1> DEFINE b == stream[n]
<1>1. PICK data \in Data : data = ExpandedUpTo(stream, n - 1)
  BY BlockOfStream, Zenon
<1>2. IsBlock(b)
  BY BlockOfStream, Zenon
<1>3. PICK m \in Nat : m = Len(data)
  BY LenProperties, Zenon DEF Data
<1> HIDE DEF b
<1>4. CASE b.stored
  <2>1. b.bytes \in Data
    BY <1>2, <1>4, Zenon DEF IsBlock
  <2>2. PICK k \in Nat : k = Len(b.bytes)
    BY <2>1, LenProperties, Zenon DEF Data
  <2>3. 1 \in 1 .. k + 1 /\ m = m + 1 - 1
    BY SMT
  <2>4. IsPrefix(data, data \o b.bytes)
    BY <2>1, PrefixOfBoth, Zenon
  <2>5. InStored(r.at, r.curlen, b.bytes, data, data)
    BY <1>3, <2>2, <2>3, <2>4, Zenon DEF InStored
  <2>. QED
    BY <1>1, <1>4, <2>5, Zenon DEF IsAt, InBlock, b
<1>5. CASE ~ b.stored
  <2>1. b.symbols \in Seq(SymbolsOfBlock)
    BY <1>2, <1>5, Zenon DEF IsBlock
  <2>2. PICK k \in Nat : k = Len(b.symbols)
    BY <2>1, LenProperties, Zenon
  <2>3. 1 \in 1 .. k + 1 /\ m = m + 0 /\ 1 - 1 = 0 /\ ~ (0 > 0) /\ \A i \in 1 .. k : ~ (i < 1)
    BY SMT
  <2>4. ExpandedBy(data, b.symbols, 0) = data /\ IsPrefix(data, data)
    BY <2>1, ExpandedByIs, PrefixOfItself, Zenon
  <2>5. InSymbols(r.streaming, r.at, r.curlen, r.lzOff, b.symbols, data, data)
    BY <1>3, <2>2, <2>3, <2>4, Zenon DEF InSymbols
  <2>. QED
    BY <1>1, <1>5, <2>5, Zenon DEF IsAt, InBlock, b
<1>. QED
  BY <1>4, <1>5

(* The next block, or the end.                                             *)
LEMMA EndBlockIs ==
  ASSUME StreamIs, NEW r, NEW data, Carries(r, data), r.status = "ok", r.curlen = 0,
         r.block \in 1 .. Len(stream), data = ExpandedUpTo(stream, r.block)
  PROVE  Carries(EndBlock(r), data) /\ Kept(EndBlock(r), data) /\ EndBlock(r).dest = r.dest
<1>1. r \in Readers
  BY Zenon DEF Carries
<1>2. "ok" # "done" /\ "ok" # "error" /\ "done" # "error" /\ "done" \in Statuses
  BY SMT DEF Statuses
<1>3. PICK s : s = EndBlock(r)
  BY Zenon
<1>4. CASE r.block = Len(stream)
  <2>1. s = [r EXCEPT !.status = "done"]
    BY <1>3, <1>4, Zenon DEF EndBlock
  <2>2. Has(s, "done", r.streaming, r.block, r.at, r.curlen, r.lzOff, r.ring, r.dictIdx, r.dest)
    BY <1>1, <1>2, <2>1, SetStatus, Zenon
  <2>3. Carries(s, data)
    BY <2>2, CarriesStill, Zenon
  <2>4. s.status = "done" /\ s.dest = r.dest
    BY <2>2, Zenon DEF Has
  <2>5. Kept(s, data)
    BY <1>2, <1>4, <2>4, Zenon DEF Kept, Expansion
  <2>. QED
    BY <1>3, <2>3, <2>4, <2>5, Zenon
<1>5. CASE r.block # Len(stream)
  <2> DEFINE p == [r EXCEPT !.block = @ + 1]
  <2>1. s = [p EXCEPT !.at = 1]
    BY <1>3, <1>5, Zenon DEF EndBlock
  <2>2. Len(stream) \in Nat
    BY LenProperties, Zenon DEF StreamIs
  <2>3. PICK n : n = r.block + 1
    BY Zenon
  <2>4. n \in 1 .. Len(stream) /\ n \in Nat /\ 1 \in Nat /\ n - 1 = r.block
    BY <1>5, <2>2, <2>3, SMT
  <2>5. p = [r EXCEPT !.block = n]
    BY <2>3, Zenon
  <2> HIDE DEF p
  <2>6. Has(p, r.status, r.streaming, n, r.at, r.curlen, r.lzOff, r.ring, r.dictIdx, r.dest)
    BY <1>1, <2>4, <2>5, SetBlock, Zenon
  <2>7. p \in Readers
    BY <2>6, Zenon DEF Has
  <2>8. Has(s, p.status, p.streaming, p.block, 1, p.curlen, p.lzOff, p.ring, p.dictIdx, p.dest)
    BY <2>1, <2>4, <2>7, SetAt, Zenon
  <2>9. Has(s, r.status, r.streaming, n, 1, r.curlen, r.lzOff, r.ring, r.dictIdx, r.dest)
    BY <2>6, <2>8, Zenon DEF Has
  <2>10. Carries(s, data)
    BY <2>9, CarriesStill, Zenon
  <2>11. s.status = "ok" /\ s.block = n /\ s.at = 1 /\ s.curlen = 0 /\ s.dest = r.dest
    BY <2>9, Zenon DEF Has
  <2>12. IsAt(s, data)
    <3>1. IsAt(s, ExpandedUpTo(stream, n - 1))
      BY <2>4, <2>11, AtFirst, Zenon
    <3>. QED
      BY <2>4, <3>1, Zenon
  <2>13. Kept(s, data)
    BY <1>2, <2>11, <2>12, Zenon DEF Kept
  <2>. QED
    BY <1>3, <2>10, <2>11, <2>13, Zenon
<1>. QED
  BY <1>4, <1>5

(* A byte of a block that is stored, or its end.                           *)
LEMMA StoredBlockIs ==
  ASSUME StreamIs, NEW r, NEW data, Carries(r, data), r.status = "ok",
         r.block \in 1 .. Len(stream), NEW b, b = stream[r.block], b.stored, IsAt(r, data)
  PROVE  GoesOn(r, data, StoredBlock(r, b.bytes, b.length))
<1>1. PICK before \in Data : before = ExpandedUpTo(stream, r.block - 1)
  BY BlockOfStream, Zenon
<1>2. PICK stored \in Data : stored = b.bytes /\ b.length = Len(stored)
  BY BlockOfStream, Zenon DEF IsBlock
<1>3. r \in Readers /\ data \in Data
  BY Zenon DEF Carries
<1>4. r.at \in Nat /\ r.curlen \in Nat
  BY <1>3, SMT DEF Readers
<1>5. PICK k \in Nat, m \in Nat : k = Len(stored) /\ m = Len(before)
  BY LenProperties, Zenon DEF Data
<1>6. InStored(r.at, r.curlen, stored, before, data)
  BY <1>1, <1>2, Zenon DEF IsAt, InBlock
<1>7. PICK n \in Nat : n = r.at
  BY <1>4, Zenon
<1>8. /\ n \in 1 .. k + 1 /\ Len(data) = m + n - 1 /\ IsPrefix(data, before \o stored)
      /\ r.curlen = IF n = 1 THEN 0 ELSE k - n + 2
  BY <1>5, <1>6, <1>7, Zenon DEF InStored
<1>9. before \o stored \in Data /\ Len(before \o stored) = m + k
  BY <1>5, PrefixOfBoth, Zenon
<1>10. Expanded(before, b) = before \o stored
  BY <1>2, Zenon DEF Expanded
<1>11. PICK left \in Nat : left = (IF r.curlen = 0 THEN k + 1 ELSE r.curlen) - 1 /\ left = k - n + 1
  BY <1>8, SMT
<1> DEFINE rest == [r EXCEPT !.curlen = left]
           next == [rest EXCEPT !.at = @ + 1]
<1>12. StoredBlock(r, b.bytes, b.length)
         = IF left = 0 THEN EndBlock(rest) ELSE Put(next, IF n <= k THEN stored[n] ELSE 0)
  <2> DEFINE l == (IF r.curlen = 0 THEN b.length + 1 ELSE r.curlen) - 1
  <2>1. StoredBlock(r, b.bytes, b.length)
          = IF l = 0 THEN EndBlock([r EXCEPT !.curlen = l])
            ELSE Put([[r EXCEPT !.curlen = l] EXCEPT !.at = @ + 1],
                     IF r.at <= Len(b.bytes) THEN b.bytes[r.at] ELSE 0)
    BY Zenon DEF StoredBlock
  <2>2. l = left
    BY <1>2, <1>5, <1>11, Zenon
  <2> HIDE DEF l
  <2>3. r.at = n /\ Len(b.bytes) = k /\ b.bytes = stored
    BY <1>2, <1>5, <1>7, Zenon
  <2>. QED
    BY <2>1, <2>2, <2>3, Zenon
<1> HIDE DEF rest
<1>13. Has(rest, r.status, r.streaming, r.block, r.at, left, r.lzOff, r.ring, r.dictIdx, r.dest)
  BY <1>3, SetCurlen, Zenon DEF rest
<1>14. Carries(rest, data)
  BY <1>13, CarriesStill, Zenon
<1>15. /\ rest \in Readers /\ rest.status = "ok" /\ rest.curlen = left /\ rest.block = r.block
       /\ rest.at = n /\ rest.dest = r.dest /\ rest.streaming = r.streaming
  BY <1>7, <1>13, Zenon DEF Has
<1>16. CASE left = 0
  <2>1. m + n - 1 = m + k
    BY <1>11, <1>16, SMT
  <2>2. data = before \o stored
    BY <1>3, <1>8, <1>9, <2>1, PrefixAsLong, Zenon
  <2>3. data = ExpandedUpTo(stream, r.block)
    BY <1>1, <1>10, <2>2, BlockOfStream, Zenon
  <2>4. Carries(EndBlock(rest), data) /\ Kept(EndBlock(rest), data) /\ EndBlock(rest).dest = rest.dest
    BY <1>14, <1>15, <1>16, <2>3, EndBlockIs, Zenon
  <2>. QED
    BY <1>12, <1>15, <1>16, <2>4, Zenon DEF GoesOn
<1>17. CASE left # 0
  <2>1. n \in 1 .. k /\ n <= k
    BY <1>8, <1>11, <1>17, SMT
  <2>2. PICK c \in Octets : c = stored[n]
    BY <1>5, <2>1, ElementOfSeq, Zenon DEF Data
  <2>3. PICK i \in Nat : i = n + 1
    BY SMT
  <2>4. next = [rest EXCEPT !.at = i]
    BY <1>15, <2>3, Zenon
  <2> HIDE DEF next
  <2>5. Has(next, rest.status, rest.streaming, rest.block, i, rest.curlen, rest.lzOff, rest.ring, rest.dictIdx, rest.dest)
    BY <1>15, <2>4, SetAt, Zenon
  <2>6. Carries(next, data)
    BY <1>14, <2>5, CarriesStill, Zenon
  <2>7. PICK s : s = Put(next, c)
    BY Zenon
  <2>8. /\ Has(s, next.status, next.streaming, next.block, next.at, next.curlen, next.lzOff, s.ring,
               s.dictIdx, Append(next.dest, c))
        /\ Carries(s, Append(data, c))
    BY <2>6, <2>7, PutIs, Zenon
  <2>9. /\ next.status = "ok" /\ next.block = r.block /\ next.at = i /\ next.curlen = left /\ next.dest = r.dest
    BY <1>15, <2>5, Zenon DEF Has
  <2>10. s.status = "ok" /\ s.block = r.block /\ s.at = i /\ s.curlen = left /\ s.dest = Append(r.dest, c)
    BY <2>8, <2>9, Zenon DEF Has
  <2>11. PICK l \in Nat : l = Len(data)
    BY <1>3, LenProperties, Zenon DEF Data
  <2>12. /\ l = m + n - 1 /\ l < m + k /\ l + 1 \in 1 .. m + k /\ ~ (l + 1 <= m) /\ (l + 1) - m = n
    BY <1>8, <2>1, <2>11, SMT
  <2>13. c = (before \o stored)[l + 1]
    <3>1. \A j \in 1 .. Len(before) + Len(stored) :
            (before \o stored)[j] = IF j <= Len(before) THEN before[j] ELSE stored[j - Len(before)]
      BY BothAre, Zenon
    <3>. QED
      <4>1. \A j \in 1 .. m + k : (before \o stored)[j] = IF j <= m THEN before[j] ELSE stored[j - m]
        BY <1>5, <3>1, Zenon
      <4>2. (before \o stored)[l + 1] = stored[(l + 1) - m]
        BY <2>12, <4>1, Zenon
      <4>. QED
        BY <2>2, <2>12, <4>2, Zenon
  <2>14. IsPrefix(Append(data, c), before \o stored) /\ Len(Append(data, c)) = l + 1
    <3>1. Len(data) < Len(before \o stored) /\ c = (before \o stored)[Len(data) + 1]
      BY <1>9, <2>11, <2>12, <2>13, Zenon
    <3>2. IsPrefix(Append(data, c), before \o stored) /\ Len(Append(data, c)) = Len(data) + 1
      BY <1>3, <1>8, <1>9, <3>1, PrefixAndNext, Zenon
    <3>. QED
      BY <2>11, <3>2, Zenon
  <2>15. i \in 1 .. k + 1 /\ l + 1 = m + i - 1 /\ i # 1 /\ left = k - i + 2
    BY <1>11, <2>1, <2>3, <2>12, SMT
  <2>16. InStored(i, left, stored, before, Append(data, c))
    BY <1>5, <2>14, <2>15, Zenon DEF InStored
  <2>17. IsAt(s, Append(data, c))
    BY <1>1, <1>2, <2>10, <2>16, Zenon DEF IsAt, InBlock
  <2>18. "ok" # "done" /\ "ok" # "error"
    BY SMT
  <2>19. Kept(s, Append(data, c))
    BY <2>10, <2>17, <2>18, Zenon DEF Kept
  <2>20. StoredBlock(r, b.bytes, b.length) = s
    BY <1>12, <1>17, <2>1, <2>2, <2>7, Zenon
  <2>. QED
    BY <2>8, <2>10, <2>19, <2>20, Zenon DEF GoesOn
<1>. QED
  BY <1>16, <1>17

(* The symbols of a block of the stream.                                   *)
AreSymbols(symbols, before) ==
  /\ symbols \in Seq(SymbolsOfBlock) /\ symbols # <<>>
  /\ \A i \in 1 .. Len(symbols) :
       /\ symbols[i].kind = "end" => i = Len(symbols)
       /\ Reaches(ExpandedBy(before, symbols, i - 1), symbols[i])

(* Those of a block that is not stored are such.                           *)
LEMMA SymbolsOfStream ==
  ASSUME StreamIs, NEW n \in 1 .. Len(stream), NEW b, b = stream[n], ~ b.stored
  PROVE  /\ AreSymbols(b.symbols, ExpandedUpTo(stream, n - 1))
         /\ ExpandedUpTo(stream, n) = ExpandedBy(ExpandedUpTo(stream, n - 1), b.symbols, Len(b.symbols))
<1>1. /\ b.symbols \in Seq(SymbolsOfBlock)
      /\ \A i \in 1 .. Len(b.symbols) : b.symbols[i].kind = "end" => i = Len(b.symbols)
  BY BlockOfStream, Zenon DEF IsBlock
<1>2. ReachesBack(ExpandedUpTo(stream, n - 1), b) /\ b.symbols # <<>>
  BY Zenon DEF StreamIs
<1>3. DOMAIN b.symbols = 1 .. Len(b.symbols)
  BY <1>1, LenProperties, Zenon
<1>4. \A i \in 1 .. Len(b.symbols) :
        Reaches(ExpandedBy(ExpandedUpTo(stream, n - 1), b.symbols, i - 1), b.symbols[i])
  BY <1>2, <1>3, Zenon DEF ReachesBack
<1>5. ExpandedUpTo(stream, n) = ExpandedBy(ExpandedUpTo(stream, n - 1), b.symbols, Len(b.symbols))
  BY BlockOfStream, Zenon DEF Expanded
<1>. QED
  BY <1>1, <1>2, <1>4, <1>5, Zenon DEF AreSymbols

(* The next byte of a match.                                               *)
LEMMA CopyKeeps ==
  ASSUME StreamIs, NEW r, NEW data, Carries(r, data), r.status = "ok",
         r.block \in 1 .. Len(stream), NEW b, b = stream[r.block], ~ b.stored, IsAt(r, data), r.curlen > 0
  PROVE  GoesOn(r, data, CopyByte(r))
<1>1. PICK before \in Data : before = ExpandedUpTo(stream, r.block - 1)
  BY BlockOfStream, Zenon
<1>2. PICK symbols : symbols = b.symbols
  BY Zenon
<1>3. symbols \in Seq(SymbolsOfBlock) /\ AreSymbols(symbols, before)
  BY <1>1, <1>2, SymbolsOfStream, Zenon DEF AreSymbols
<1>4. r \in Readers /\ data \in Data
  BY Zenon DEF Carries
<1>5. r.at \in Nat /\ r.curlen \in Nat
  BY <1>4, SMT DEF Readers
<1>6. PICK N \in Nat, l \in Nat : N = Len(symbols) /\ l = Len(data)
  BY <1>3, <1>4, LenProperties, Zenon DEF Data
<1>7. PICK at \in Nat, curlen \in Nat : at = r.at /\ curlen = r.curlen /\ curlen > 0
  BY <1>5, Zenon
<1>8. InSymbols(r.streaming, at, curlen, r.lzOff, symbols, before, data)
  BY <1>1, <1>2, <1>7, Zenon DEF IsAt, InBlock
<1>9. PICK n : n = at - 1
  BY Zenon
<1>10. /\ at \in 1 .. N + 1 /\ at > 1 /\ \A i \in 1 .. N : i < at => symbols[i].kind # "end"
       /\ l + curlen = Len(ExpandedBy(before, symbols, n)) /\ IsPrefix(data, ExpandedBy(before, symbols, n))
       /\ InMatch(r.streaming, r.lzOff, curlen, symbols[n], data)
  BY <1>6, <1>7, <1>8, <1>9, Zenon DEF InSymbols
<1>11. n \in 1 .. N
  BY <1>9, <1>10, SMT
<1>12. PICK symbol \in SymbolsOfBlock : symbol = symbols[n]
  BY <1>3, <1>6, <1>11, ElementOfSeq, Zenon
<1>13. /\ symbol.kind = "match" /\ curlen <= symbol.length
       /\ Offset(r.streaming, r.lzOff, symbol.distance, data)
  BY <1>10, <1>12, Zenon DEF InMatch
<1>14. symbol.length \in Nat \ {0} /\ symbol.distance \in Nat \ {0} /\ symbol.distance <= DictSize
  BY <1>13, SymbolIs, Zenon DEF IsSymbol
<1>15. PICK length \in Nat, d \in Nat \ {0} : length = symbol.length /\ d = symbol.distance
  BY <1>14, SMT
<1>0. PICK start \in Data : /\ start = ExpandedBy(before, symbols, n - 1)
                            /\ ExpandedBy(before, symbols, n) = start \o Meaning(start, symbol)
  BY <1>3, <1>6, <1>11, <1>12, ExpandedByIs, Zenon
<1>16. PICK rep : /\ start = ExpandedBy(before, symbols, n - 1) /\ rep = Meaning(start, symbol)
                  /\ ExpandedBy(before, symbols, n) = start \o rep
  BY <1>0, Zenon
<1>17. IsRepeat(rep, start, length, d) /\ d <= Len(start)
  <2>1. start \in Seq(Octets)
    BY Zenon DEF Data
  <2>2. Reaches(start, symbol)
    BY <1>3, <1>6, <1>11, <1>12, <1>16, Zenon DEF AreSymbols
  <2>. QED
    BY <1>13, <1>15, <1>16, <2>1, <2>2, MeaningIs, Zenon
<1>18. PICK whole \in Data : whole = start \o rep /\ Len(whole) = Len(start) + length
  <2>1. rep \in Data /\ Len(rep) = length
    BY <1>17, Zenon DEF IsRepeat, Data
  <2>. QED
    BY <2>1, BothAre, Zenon
<1>19. PICK m \in Nat : m = Len(start)
  BY LenProperties, Zenon DEF Data
<1>20. l + curlen = m + length /\ IsPrefix(data, whole)
  BY <1>10, <1>16, <1>18, <1>19, Zenon
<1>21. PICK k \in Nat : k = l + 1
  BY SMT
<1>22. k \in m + 1 .. m + length /\ l < m + length
  BY <1>7, <1>13, <1>15, <1>20, <1>21, SMT
<1>23. k - d \in 1 .. k - 1 /\ whole[k] = whole[k - d]
  <2>1. RepeatsItself(start \o rep, Len(start), length, d)
    BY <1>17, MatchRepeats, Zenon
  <2>. QED
    BY <1>18, <1>19, <1>22, <2>1, Zenon DEF RepeatsItself
<1>24. k - d = l - d + 1 /\ l - d + 1 \in 1 .. l /\ d <= l /\ d <= DictSize
  BY <1>14, <1>15, <1>21, <1>23, SMT
<1>25. PICK c : c = data[l - d + 1]
  BY Zenon
<1>26. c = whole[l + 1]
  <2>1. \A i \in 1 .. l : data[i] = whole[i]
    BY <1>4, <1>6, <1>20, PrefixIs, Zenon
  <2>2. data[l - d + 1] = whole[l - d + 1]
    BY <1>24, <2>1, Zenon
  <2>. QED
    BY <1>21, <1>23, <1>24, <1>25, <2>2, Zenon
<1>27. c \in Octets /\ Copies(r, data, c, d)
  BY <1>6, <1>7, <1>13, <1>15, <1>24, <1>25, CopyByteIs, Zenon
<1>28. Append(data, c) \in Data /\ IsPrefix(Append(data, c), whole) /\ Len(Append(data, c)) = l + 1
  <2>1. Len(data) < Len(whole) /\ c = whole[Len(data) + 1]
    BY <1>6, <1>18, <1>19, <1>22, <1>26, Zenon
  <2>2. /\ Append(data, c) \in Data /\ IsPrefix(Append(data, c), whole)
        /\ Len(Append(data, c)) = Len(data) + 1
    BY <1>4, <1>20, <1>27, <2>1, PrefixAndNext, Zenon
  <2>. QED
    BY <1>6, <2>2, Zenon
<1>29. PICK s : s = CopyByte(r)
  BY Zenon
<1>30. PICK left \in Nat : left = curlen - 1
  BY <1>7, SMT
<1>31. /\ Carries(s, Append(data, c)) /\ Offset(r.streaming, s.lzOff, d, Append(data, c))
       /\ s.status = "ok" /\ s.streaming = r.streaming /\ s.block = r.block /\ s.at = at /\ s.curlen = left
       /\ s.dest = Append(r.dest, c)
  BY <1>7, <1>27, <1>29, <1>30, Zenon DEF Copies, Has
<1>32. (l + 1) + left = m + length /\ left <= length
  <2>1. curlen <= length
    BY <1>13, <1>15, Zenon
  <2>. QED
    BY <1>7, <1>20, <1>30, <2>1, SMT
<1>33. InMatch(s.streaming, s.lzOff, left, symbols[n], Append(data, c))
  BY <1>12, <1>13, <1>15, <1>31, <1>32, Zenon DEF InMatch
<1>34. ExpandedBy(before, symbols, at - 1) = whole /\ Len(whole) = m + length
  BY <1>9, <1>16, <1>18, <1>19, Zenon
<1>35. InSymbols(s.streaming, s.at, s.curlen, s.lzOff, symbols, before, Append(data, c))
  BY <1>6, <1>9, <1>10, <1>28, <1>31, <1>32, <1>33, <1>34, Zenon DEF InSymbols
<1>36. IsAt(s, Append(data, c))
  BY <1>1, <1>2, <1>31, <1>35, Zenon DEF IsAt, InBlock
<1>37. "ok" # "done" /\ "ok" # "error"
  BY SMT
<1>38. Kept(s, Append(data, c))
  BY <1>31, <1>36, <1>37, Zenon DEF Kept
<1>. QED
  BY <1>27, <1>29, <1>31, <1>38, Zenon DEF GoesOn

(* Where a match starts, what it reaches back to is found.                 *)
StartOf(r, offs) == IF r.streaming THEN (r.dictIdx - offs + DictSize) % DictSize ELSE - offs

(* So it is, in the ring and in the buffer of the call.                    *)
LEMMA StartIsOffset ==
  ASSUME NEW r, NEW data, Carries(r, data), NEW d \in Nat \ {0}, d <= DictSize
  PROVE  Offset(r.streaming, StartOf(r, d), d, data) /\ StartOf(r, d) \in Int
<1>1. data \in Data /\ RingHolds(r.streaming, r.ring, r.dictIdx, data)
  BY Zenon DEF Carries
<1>2. PICK n \in Nat : n = Len(data)
  BY <1>1, LenProperties, Zenon DEF Data
<1>3. DictSize \in Nat \ {0} /\ d \in 1 .. DictSize /\ n \in Int /\ - d \in Int
  BY InflateAssumption, SMT
<1>4. CASE r.streaming
  <2>1. r.dictIdx = n % DictSize
    BY <1>1, <1>2, <1>4, Zenon DEF RingHolds
  <2>2. ((n % DictSize) - d + DictSize) % DictSize = (n - d) % DictSize
    BY <1>3, RemainderBefore, Zenon
  <2>3. PICK i \in Int : i = n - d
    BY SMT
  <2>4. i % DictSize \in 0 .. DictSize - 1
    BY <1>3, DivMod, Zenon
  <2>5. \A x \in 0 .. DictSize - 1 : x \in Int
    BY SMT
  <2>6. StartOf(r, d) = (n - d) % DictSize
    BY <1>4, <2>1, <2>2, Zenon DEF StartOf
  <2>7. StartOf(r, d) \in Int
    BY <2>3, <2>4, <2>5, <2>6, Zenon
  <2>. QED
    BY <1>2, <1>4, <2>6, <2>7, Zenon DEF Offset
<1>5. CASE ~ r.streaming
  <2>1. StartOf(r, d) = - d
    BY <1>5, Zenon DEF StartOf
  <2>. QED
    BY <1>3, <1>5, <2>1, Zenon DEF Offset
<1>. QED
  BY <1>4, <1>5

(* Between two symbols.                                                    *)
AtSymbol(r, data, symbols, before) ==
  /\ r.at \in 1 .. Len(symbols) + 1
  /\ \A i \in 1 .. Len(symbols) : i < r.at => symbols[i].kind # "end"
  /\ data = ExpandedBy(before, symbols, r.at - 1)

(* Where no match is being copied, the reader is there.                    *)
LEMMA BetweenSymbols ==
  ASSUME StreamIs, NEW r, NEW data, Carries(r, data), r.block \in 1 .. Len(stream),
         NEW b, b = stream[r.block], ~ b.stored, IsAt(r, data), r.curlen = 0
  PROVE  AtSymbol(r, data, b.symbols, ExpandedUpTo(stream, r.block - 1))
<1>1. PICK before \in Data : before = ExpandedUpTo(stream, r.block - 1)
  BY BlockOfStream, Zenon
<1>2. PICK symbols : symbols = b.symbols
  BY Zenon
<1>3. symbols \in Seq(SymbolsOfBlock)
  BY <1>1, <1>2, SymbolsOfStream, Zenon DEF AreSymbols
<1>4. r \in Readers /\ data \in Data
  BY Zenon DEF Carries
<1>5. PICK at \in Nat : at = r.at
  BY <1>4, SMT DEF Readers
<1>6. InSymbols(r.streaming, at, 0, r.lzOff, symbols, before, data)
  BY <1>1, <1>2, <1>5, Zenon DEF IsAt, InBlock
<1>7. PICK N \in Nat, l \in Nat : N = Len(symbols) /\ l = Len(data)
  BY <1>3, <1>4, LenProperties, Zenon DEF Data
<1>8. /\ at \in 1 .. N + 1 /\ \A i \in 1 .. N : i < at => symbols[i].kind # "end"
      /\ l + 0 = Len(ExpandedBy(before, symbols, at - 1)) /\ IsPrefix(data, ExpandedBy(before, symbols, at - 1))
  BY <1>6, <1>7, Zenon DEF InSymbols
<1>9. at - 1 \in 0 .. N /\ l + 0 = l
  BY <1>8, SMT
<1>10. ExpandedBy(before, symbols, at - 1) \in Data
  BY <1>3, <1>7, <1>9, ExpandedByIs, Zenon
<1>11. data = ExpandedBy(before, symbols, at - 1)
  BY <1>4, <1>7, <1>8, <1>9, <1>10, PrefixAsLong, Zenon
<1>. QED
  BY <1>1, <1>2, <1>5, <1>7, <1>8, <1>11, Zenon DEF AtSymbol

(* A literal.                                                              *)
LEMMA LiteralIs ==
  ASSUME StreamIs, NEW r, NEW data, Carries(r, data), r.status = "ok", r.block \in 1 .. Len(stream),
         NEW b, b = stream[r.block], ~ b.stored, r.curlen = 0,
         AtSymbol(r, data, b.symbols, ExpandedUpTo(stream, r.block - 1)),
         r.at <= Len(b.symbols), NEW symbol, symbol = b.symbols[r.at], symbol.kind = "literal",
         NEW next, next = [r EXCEPT !.at = @ + 1]
  PROVE  GoesOn(r, data, Put(next, symbol.byte))
<1>1. PICK before \in Data : before = ExpandedUpTo(stream, r.block - 1)
  BY BlockOfStream, Zenon
<1>2. PICK symbols : symbols = b.symbols
  BY Zenon
<1>3. symbols \in Seq(SymbolsOfBlock)
  BY <1>1, <1>2, SymbolsOfStream, Zenon DEF AreSymbols
<1>4. r \in Readers /\ data \in Data
  BY Zenon DEF Carries
<1>5. PICK at \in Nat : at = r.at
  BY <1>4, SMT DEF Readers
<1>6. PICK N \in Nat, l \in Nat : N = Len(symbols) /\ l = Len(data)
  BY <1>3, <1>4, LenProperties, Zenon DEF Data
<1>7. /\ at \in 1 .. N + 1 /\ at <= N /\ \A i \in 1 .. N : i < at => symbols[i].kind # "end"
      /\ data = ExpandedBy(before, symbols, at - 1)
  BY <1>1, <1>2, <1>5, <1>6, Zenon DEF AtSymbol
<1>8. at \in 1 .. N
  BY <1>7, SMT
<1>9. symbol \in SymbolsOfBlock
  BY <1>2, <1>3, <1>5, <1>6, <1>8, ElementOfSeq, Zenon
<1>10. PICK c \in Octets : c = symbol.byte
  BY <1>9, SymbolIs, Zenon DEF IsSymbol
<1>11. Meaning(data, symbol) = <<c>>
  <2>1. data \in Seq(Octets)
    BY <1>4, Zenon DEF Data
  <2>. QED
    BY <1>9, <1>10, <2>1, MeaningIs, Zenon
<1>12. ExpandedBy(before, symbols, at) = Append(data, c)
  <2>1. ExpandedBy(before, symbols, at) = data \o Meaning(data, symbols[at])
    BY <1>3, <1>6, <1>7, <1>8, ExpandedByIs, Zenon
  <2>2. ExpandedBy(before, symbols, at) = data \o <<c>>
    BY <1>2, <1>5, <1>11, <2>1, Zenon
  <2>3. Append(data, c) = data \o <<c>>
    BY <1>4, AppendIsConcat, Zenon DEF Data
  <2>. QED
    BY <2>2, <2>3, Zenon
<1>13. PICK i \in Nat : i = at + 1
  BY SMT
<1>14. next = [r EXCEPT !.at = i]
  BY <1>5, <1>13, Zenon
<1>15. Has(next, r.status, r.streaming, r.block, i, r.curlen, r.lzOff, r.ring, r.dictIdx, r.dest)
  BY <1>4, <1>14, SetAt, Zenon
<1>16. Carries(next, data)
  BY <1>15, CarriesStill, Zenon
<1>17. PICK s : s = Put(next, c)
  BY Zenon
<1>18. /\ Has(s, next.status, next.streaming, next.block, next.at, next.curlen, next.lzOff, s.ring,
              s.dictIdx, Append(next.dest, c))
       /\ Carries(s, Append(data, c))
  BY <1>16, <1>17, PutIs, Zenon
<1>19. /\ next.status = "ok" /\ next.block = r.block /\ next.at = i /\ next.curlen = 0 /\ next.dest = r.dest
  BY <1>15, Zenon DEF Has
<1>20. s.status = "ok" /\ s.block = r.block /\ s.at = i /\ s.curlen = 0 /\ s.dest = Append(r.dest, c)
  BY <1>18, <1>19, Zenon DEF Has
<1>21. /\ Append(data, c) \in Data /\ IsPrefix(Append(data, c), Append(data, c))
       /\ Len(Append(data, c)) = l + 1
  BY <1>4, <1>6, ByteAdded, PrefixOfItself, Zenon
<1>22. i \in 1 .. N + 1 /\ i - 1 = at /\ (l + 1) + 0 = l + 1 /\ ~ (0 > 0)
  BY <1>8, <1>13, SMT
<1>23. ASSUME NEW j \in 1 .. N, j < i PROVE symbols[j].kind # "end"
  <2>1. CASE j = at
    <3>1. "literal" # "end"
      BY SMT
    <3>. QED
      BY <1>2, <1>5, <2>1, <3>1, Zenon
  <2>2. CASE j # at
    <3>1. j < at
      BY <1>13, <1>23, <2>2, SMT
    <3>. QED
      BY <1>7, <3>1, Zenon
  <2>. QED
    BY <2>1, <2>2
<1>24. InSymbols(s.streaming, i, 0, s.lzOff, symbols, before, Append(data, c))
  BY <1>6, <1>12, <1>21, <1>22, <1>23, Zenon DEF InSymbols
<1>25. IsAt(s, Append(data, c))
  BY <1>1, <1>2, <1>20, <1>24, Zenon DEF IsAt, InBlock
<1>26. "ok" # "done" /\ "ok" # "error"
  BY SMT
<1>27. Kept(s, Append(data, c))
  BY <1>20, <1>25, <1>26, Zenon DEF Kept
<1>. QED
  BY <1>10, <1>17, <1>18, <1>20, <1>27, Zenon DEF GoesOn

(* The end of the block.                                                   *)
LEMMA EndIs ==
  ASSUME StreamIs, NEW r, NEW data, Carries(r, data), r.status = "ok", r.block \in 1 .. Len(stream),
         NEW b, b = stream[r.block], ~ b.stored, r.curlen = 0,
         AtSymbol(r, data, b.symbols, ExpandedUpTo(stream, r.block - 1)),
         r.at <= Len(b.symbols), b.symbols[r.at].kind = "end"
  PROVE  GoesOn(r, data, EndBlock(r))
<1>1. PICK before \in Data : before = ExpandedUpTo(stream, r.block - 1)
  BY BlockOfStream, Zenon
<1>2. PICK symbols : symbols = b.symbols
  BY Zenon
<1>3. symbols \in Seq(SymbolsOfBlock) /\ AreSymbols(symbols, before)
  BY <1>1, <1>2, SymbolsOfStream, Zenon DEF AreSymbols
<1>4. r \in Readers /\ data \in Data
  BY Zenon DEF Carries
<1>5. PICK at \in Nat : at = r.at
  BY <1>4, SMT DEF Readers
<1>6. PICK N \in Nat : N = Len(symbols)
  BY <1>3, LenProperties, Zenon
<1>7. at \in 1 .. N + 1 /\ at <= N /\ data = ExpandedBy(before, symbols, at - 1)
  BY <1>1, <1>2, <1>5, <1>6, Zenon DEF AtSymbol
<1>8. at \in 1 .. N
  BY <1>7, SMT
<1>9. at = N
  BY <1>2, <1>3, <1>5, <1>6, <1>8, Zenon DEF AreSymbols
<1>10. symbols[at] \in SymbolsOfBlock /\ symbols[at].kind = "end"
  BY <1>2, <1>3, <1>5, <1>6, <1>8, ElementOfSeq, Zenon
<1>11. Meaning(data, symbols[at]) = <<>>
  <2>1. data \in Seq(Octets)
    BY <1>4, Zenon DEF Data
  <2>. QED
    BY <1>10, <2>1, MeaningIs, Zenon
<1>12. ExpandedBy(before, symbols, at) = data
  <2>1. ExpandedBy(before, symbols, at) = data \o Meaning(data, symbols[at])
    BY <1>3, <1>6, <1>7, <1>8, ExpandedByIs, Zenon
  <2>2. data \o <<>> = data
    BY <1>4, ConcatEmptySeq, Zenon DEF Data
  <2>. QED
    BY <1>11, <2>1, <2>2, Zenon
<1>13. data = ExpandedUpTo(stream, r.block)
  BY <1>1, <1>2, <1>6, <1>9, <1>12, SymbolsOfStream, Zenon
<1>14. Carries(EndBlock(r), data) /\ Kept(EndBlock(r), data) /\ EndBlock(r).dest = r.dest
  BY <1>13, EndBlockIs, Zenon
<1>. QED
  BY <1>14, Zenon DEF GoesOn

(* The source ends before the block does.                                  *)
LEMMA MissingEndIs ==
  ASSUME StreamIs, NEW r, NEW data, Carries(r, data), r.status = "ok", r.block \in 1 .. Len(stream),
         NEW b, b = stream[r.block], ~ b.stored, r.curlen = 0,
         AtSymbol(r, data, b.symbols, ExpandedUpTo(stream, r.block - 1)), r.at > Len(b.symbols),
         NEW s, s = [r EXCEPT !.status = "error"]
  PROVE  GoesOn(r, data, s)
<1>1. PICK before \in Data : before = ExpandedUpTo(stream, r.block - 1)
  BY BlockOfStream, Zenon
<1>2. PICK symbols : symbols = b.symbols
  BY Zenon
<1>3. symbols \in Seq(SymbolsOfBlock) /\ AreSymbols(symbols, before)
  BY <1>1, <1>2, SymbolsOfStream, Zenon DEF AreSymbols
<1>4. r \in Readers /\ data \in Data
  BY Zenon DEF Carries
<1>5. PICK at \in Nat : at = r.at
  BY <1>4, SMT DEF Readers
<1>6. PICK N \in Nat : N = Len(symbols) /\ N # 0
  <2>1. Len(symbols) \in Nat \ {0}
    BY <1>3, EmptySeq, Zenon DEF AreSymbols
  <2>. QED
    BY <2>1, SMT
<1>7. /\ at \in 1 .. N + 1 /\ at > N /\ data = ExpandedBy(before, symbols, at - 1)
      /\ \A i \in 1 .. N : i < at => symbols[i].kind # "end"
  BY <1>1, <1>2, <1>5, <1>6, Zenon DEF AtSymbol
<1>8. at - 1 = N /\ N \in 1 .. N /\ N < at
  BY <1>6, <1>7, SMT
<1>9. data = ExpandedUpTo(stream, r.block)
  BY <1>1, <1>2, <1>6, <1>7, <1>8, SymbolsOfStream, Zenon
<1>10. IsPrefix(data, Expansion(stream))
  BY <1>9, BlockOfStream, Zenon
<1>11. ~ IsWhole(stream)
  <2>1. symbols[N].kind # "end"
    BY <1>7, <1>8, Zenon
  <2>2. EndOfBlock.kind = "end"
    BY SMT DEF EndOfBlock
  <2>3. Last(symbols) # EndOfBlock
    BY <1>6, <2>1, <2>2, Zenon DEF Last
  <2>4. r.block \in DOMAIN stream
    BY LenProperties, Zenon DEF StreamIs
  <2>. QED
    BY <1>2, <2>3, <2>4, Zenon DEF IsWhole
<1>12. "ok" # "error" /\ "done" # "error" /\ "error" \in Statuses
  BY SMT DEF Statuses
<1>13. Has(s, "error", r.streaming, r.block, r.at, r.curlen, r.lzOff, r.ring, r.dictIdx, r.dest)
  BY <1>4, <1>12, SetStatus, Zenon
<1>14. Carries(s, data)
  BY <1>13, CarriesStill, Zenon
<1>15. s.status = "error" /\ s.dest = r.dest
  BY <1>13, Zenon DEF Has
<1>16. Kept(s, data)
  BY <1>10, <1>11, <1>12, <1>15, Zenon DEF Kept
<1>. QED
  BY <1>14, <1>15, <1>16, Zenon DEF GoesOn

(* The first byte of a match.                                              *)
LEMMA StartMatchIs ==
  ASSUME StreamIs, NEW r, NEW data, Carries(r, data), r.status = "ok", r.block \in 1 .. Len(stream),
         NEW b, b = stream[r.block], ~ b.stored, r.curlen = 0,
         AtSymbol(r, data, b.symbols, ExpandedUpTo(stream, r.block - 1)),
         r.at <= Len(b.symbols), NEW symbol, symbol = b.symbols[r.at], symbol.kind = "match"
  PROVE  GoesOn(r, data, StartMatch(r, symbol.length, symbol.distance))
<1>1. PICK before \in Data : before = ExpandedUpTo(stream, r.block - 1)
  BY BlockOfStream, Zenon
<1>2. PICK symbols : symbols = b.symbols
  BY Zenon
<1>3. symbols \in Seq(SymbolsOfBlock) /\ AreSymbols(symbols, before)
  BY <1>1, <1>2, SymbolsOfStream, Zenon DEF AreSymbols
<1>4. r \in Readers /\ data \in Data
  BY Zenon DEF Carries
<1>5. PICK at \in Nat : at = r.at
  BY <1>4, SMT DEF Readers
<1>6. PICK N \in Nat, l \in Nat : N = Len(symbols) /\ l = Len(data)
  BY <1>3, <1>4, LenProperties, Zenon DEF Data
<1>7. /\ at \in 1 .. N + 1 /\ at <= N /\ data = ExpandedBy(before, symbols, at - 1)
      /\ \A i \in 1 .. N : i < at => symbols[i].kind # "end"
  BY <1>1, <1>2, <1>5, <1>6, Zenon DEF AtSymbol
<1>8. at \in 1 .. N
  BY <1>7, SMT
<1>9. symbol \in SymbolsOfBlock /\ symbols[at] = symbol
  BY <1>2, <1>3, <1>5, <1>6, <1>8, ElementOfSeq, Zenon
<1>10. symbol.length \in Nat \ {0} /\ symbol.distance \in Nat \ {0} /\ symbol.distance <= DictSize
  BY <1>9, SymbolIs, Zenon DEF IsSymbol
<1>11. PICK length \in Nat \ {0}, d \in Nat \ {0} : length = symbol.length /\ d = symbol.distance
  BY <1>10, Zenon
<1>12. Reaches(data, symbol)
  BY <1>3, <1>6, <1>7, <1>8, <1>9, Zenon DEF AreSymbols
<1>13. PICK rep : rep = Meaning(data, symbol)
  BY Zenon
<1>14. IsRepeat(rep, data, length, d) /\ d <= l
  <2>1. data \in Seq(Octets)
    BY <1>4, Zenon DEF Data
  <2>. QED
    BY <1>6, <1>9, <1>11, <1>12, <1>13, <2>1, MeaningIs, Zenon
<1>15. ExpandedBy(before, symbols, at) = data \o rep
  <2>1. ExpandedBy(before, symbols, at) = data \o Meaning(data, symbols[at])
    BY <1>3, <1>6, <1>7, <1>8, ExpandedByIs, Zenon
  <2>. QED
    BY <1>9, <1>13, <2>1, Zenon
<1>16. IsPrefix(data, data \o rep) /\ Len(data \o rep) = l + length
  <2>1. rep \in Data /\ Len(rep) = length
    BY <1>14, Zenon DEF IsRepeat, Data
  <2>. QED
    BY <1>4, <1>6, <2>1, PrefixOfBoth, Zenon
<1> DEFINE p == [r EXCEPT !.at = @ + 1]
           q == [p EXCEPT !.curlen = length]
           next == [q EXCEPT !.lzOff = StartOf(r, d)]
<1>17. d <= DictSize /\ ~ (d > DictSize)
  <2>1. d <= DictSize
    BY <1>10, <1>11, Zenon
  <2>. QED
    BY <2>1, InflateAssumption, SMT
<1>18. ~ (d > IF r.streaming THEN DictSize ELSE Len(r.dest))
  <2>1. CASE r.streaming
    BY <1>17, <2>1, Zenon
  <2>2. CASE ~ r.streaming
    <3>1. r.dest = data
      BY <2>2, Zenon DEF Carries, InDest
    <3>2. ~ (d > l)
      BY <1>14, SMT
    <3>. QED
      BY <1>6, <2>2, <3>1, <3>2, Zenon
  <2>. QED
    BY <2>1, <2>2
<1>19. StartMatch(r, length, d) = CopyByte(next)
  BY <1>18, Zenon DEF StartMatch, StartOf
<1>20. PICK i \in Nat : i = at + 1
  BY SMT
<1>21. p = [r EXCEPT !.at = i]
  BY <1>5, <1>20, Zenon
<1> HIDE DEF p
<1>22. Has(p, r.status, r.streaming, r.block, i, r.curlen, r.lzOff, r.ring, r.dictIdx, r.dest)
  BY <1>4, <1>21, SetAt, Zenon
<1>23. p \in Readers /\ length \in Nat
  BY <1>22, SMT DEF Has
<1>24. Has(q, p.status, p.streaming, p.block, p.at, length, p.lzOff, p.ring, p.dictIdx, p.dest)
  BY <1>23, SetCurlen, Zenon
<1> HIDE DEF q
<1>25. q \in Readers
  BY <1>24, Zenon DEF Has
<1>26. Offset(r.streaming, StartOf(r, d), d, data) /\ StartOf(r, d) \in Int
  BY <1>17, StartIsOffset, Zenon
<1>27. Has(next, q.status, q.streaming, q.block, q.at, q.curlen, StartOf(r, d), q.ring, q.dictIdx, q.dest)
  BY <1>25, <1>26, SetLzOff, Zenon
<1> HIDE DEF next
<1>28. Has(next, r.status, r.streaming, r.block, i, length, StartOf(r, d), r.ring, r.dictIdx, r.dest)
  BY <1>22, <1>24, <1>27, Zenon DEF Has
<1>29. Carries(next, data)
  BY <1>28, CarriesStill, Zenon
<1>30. /\ next.status = "ok" /\ next.streaming = r.streaming /\ next.block = r.block /\ next.at = i
       /\ next.curlen = length /\ next.lzOff = StartOf(r, d) /\ next.dest = r.dest
  BY <1>28, Zenon DEF Has
<1>31. i \in 1 .. N + 1 /\ i > 1 /\ i - 1 = at /\ length > 0 /\ length <= length
  BY <1>8, <1>20, SMT
<1>32. InMatch(r.streaming, StartOf(r, d), length, symbols[at], data)
  BY <1>9, <1>11, <1>26, <1>31, Zenon DEF InMatch
<1>33. ASSUME NEW j \in 1 .. N, j < i PROVE symbols[j].kind # "end"
  <2>1. CASE j = at
    <3>1. "match" # "end"
      BY SMT
    <3>. QED
      BY <1>9, <2>1, <3>1, Zenon
  <2>2. CASE j # at
    <3>1. j < at
      BY <1>20, <1>33, <2>2, SMT
    <3>. QED
      BY <1>7, <3>1, Zenon
  <2>. QED
    BY <2>1, <2>2
<1>34. InSymbols(r.streaming, i, length, StartOf(r, d), symbols, before, data)
  BY <1>6, <1>15, <1>16, <1>31, <1>32, <1>33, Zenon DEF InSymbols
<1>35. IsAt(next, data)
  BY <1>1, <1>2, <1>30, <1>34, Zenon DEF IsAt, InBlock
<1>36. GoesOn(next, data, CopyByte(next))
  BY <1>29, <1>30, <1>31, <1>35, CopyKeeps, Zenon
<1>37. GoesOn(r, data, CopyByte(next))
  BY <1>30, <1>36, Zenon DEF GoesOn
<1>. QED
  BY <1>11, <1>19, <1>37, Zenon

(* A round of the loop.                                                    *)
LEMMA InflateStepIs ==
  ASSUME StreamIs, NEW r, NEW data, Carries(r, data), Kept(r, data), r.status = "ok"
  PROVE  GoesOn(r, data, InflateStep(r))
<1>1. IsAt(r, data) /\ r.block \in 1 .. Len(stream)
  BY Zenon DEF Kept, IsAt
<1>2. PICK b : b = stream[r.block]
  BY Zenon
<1>3. IsBlock(b)
  BY <1>1, <1>2, BlockOfStream, Zenon
<1>4. r \in Readers
  BY Zenon DEF Carries
<1>5. r.curlen \in Nat /\ r.at \in Nat
  BY <1>4, SMT DEF Readers
<1>6. CASE b.stored
  <2>1. InflateStep(r) = StoredBlock(r, b.bytes, b.length)
    BY <1>2, <1>6, Zenon DEF InflateStep
  <2>. QED
    BY <1>1, <1>2, <1>6, <2>1, StoredBlockIs, Zenon
<1>7. CASE ~ b.stored
  <2>1. InflateStep(r) = BlockData(r, b.symbols)
    BY <1>2, <1>7, Zenon DEF InflateStep
  <2>2. CASE r.curlen > 0
    <3>1. BlockData(r, b.symbols) = CopyByte(r)
      BY <2>2, Zenon DEF BlockData
    <3>. QED
      BY <1>1, <1>2, <1>7, <2>1, <2>2, <3>1, CopyKeeps, Zenon
  <2>3. CASE ~ (r.curlen > 0)
    <3>1. r.curlen = 0
      BY <1>5, <2>3, SMT
    <3>2. AtSymbol(r, data, b.symbols, ExpandedUpTo(stream, r.block - 1))
      BY <1>1, <1>2, <1>7, <3>1, BetweenSymbols, Zenon
    <3>3. b.symbols \in Seq(SymbolsOfBlock)
      BY <1>3, <1>7, Zenon DEF IsBlock
    <3>4. PICK N \in Nat : N = Len(b.symbols)
      BY <3>3, LenProperties, Zenon
    <3>5. CASE r.at > N
      <4>1. BlockData(r, b.symbols) = [r EXCEPT !.status = "error"]
        BY <2>3, <3>4, <3>5, Zenon DEF BlockData
      <4>2. PICK s : s = [r EXCEPT !.status = "error"]
        BY Zenon
      <4>3. r.at > Len(b.symbols)
        BY <3>4, <3>5, Zenon
      <4>4. GoesOn(r, data, s)
        BY <1>1, <1>2, <1>7, <3>1, <3>2, <4>2, <4>3, MissingEndIs, Zenon
      <4>. QED
        BY <2>1, <4>1, <4>2, <4>4, Zenon
    <3>6. CASE ~ (r.at > N)
      <4>1. r.at <= N
        BY <1>5, <3>6, SMT
      <4>2. PICK symbol : symbol = b.symbols[r.at]
        BY Zenon
      <4>3. BlockData(r, b.symbols)
              = CASE symbol.kind = "literal" -> Put([r EXCEPT !.at = @ + 1], symbol.byte)
                  [] symbol.kind = "end"     -> EndBlock(r)
                  [] symbol.kind = "match"   -> StartMatch(r, symbol.length, symbol.distance)
        BY <2>3, <3>4, <3>6, <4>2, Zenon DEF BlockData
      <4>4. symbol.kind \in {"literal", "match", "end"}
        <5>1. r.at \in 1 .. N
          BY <1>5, <3>2, <3>4, <4>1, SMT DEF AtSymbol
        <5>2. symbol \in SymbolsOfBlock
          BY <3>3, <3>4, <4>2, <5>1, ElementOfSeq, Zenon
        <5>. QED
          BY <5>2, SymbolIs, Zenon DEF IsSymbol
      <4>5. "literal" # "end" /\ "match" # "end" /\ "literal" # "match"
        BY SMT
      <4>6. CASE symbol.kind = "literal"
        <5>0. PICK next : next = [r EXCEPT !.at = @ + 1]
          BY Zenon
        <5>1. BlockData(r, b.symbols) = Put(next, symbol.byte)
          BY <4>3, <4>5, <4>6, <5>0, Zenon
        <5>2. r.at <= Len(b.symbols)
          BY <3>4, <4>1, Zenon
        <5>3. GoesOn(r, data, Put(next, symbol.byte))
          BY <1>1, <1>2, <1>7, <3>1, <3>2, <4>2, <4>6, <5>0, <5>2, LiteralIs, Zenon
        <5>. QED
          BY <2>1, <5>1, <5>3, Zenon
      <4>7. CASE symbol.kind = "end"
        <5>1. BlockData(r, b.symbols) = EndBlock(r)
          BY <4>3, <4>5, <4>7, Zenon
        <5>. QED
          BY <1>1, <1>2, <1>7, <2>1, <3>1, <3>2, <3>4, <4>1, <4>2, <4>7, <5>1, EndIs, Zenon
      <4>8. CASE symbol.kind = "match"
        <5>1. BlockData(r, b.symbols) = StartMatch(r, symbol.length, symbol.distance)
          BY <4>3, <4>5, <4>8, Zenon
        <5>. QED
          BY <1>1, <1>2, <1>7, <2>1, <3>1, <3>2, <3>4, <4>1, <4>2, <4>8, <5>1, StartMatchIs, Zenon
      <4>. QED
        BY <4>4, <4>6, <4>7, <4>8, Zenon
    <3>. QED
      BY <3>5, <3>6
  <2>. QED
    BY <2>2, <2>3
<1>. QED
  BY <1>6, <1>7

(* Whatever the reader is at, what came out is the start of what the       *)
(* stream stands for.                                                      *)
LEMMA AtIsPrefix ==
  ASSUME StreamIs, NEW r \in Readers, NEW data \in Data, IsAt(r, data)
  PROVE  IsPrefix(data, Expansion(stream))
<1>1. r.block \in 1 .. Len(stream)
  BY Zenon DEF IsAt
<1>2. PICK b : b = stream[r.block]
  BY Zenon
<1>3. PICK before \in Data : before = ExpandedUpTo(stream, r.block - 1)
  BY <1>1, BlockOfStream, Zenon
<1>4. PICK after \in Data : after = ExpandedUpTo(stream, r.block)
  BY <1>1, BlockOfStream, Zenon
<1>5. /\ IsBlock(b) /\ after = Expanded(before, b)
      /\ IsPrefix(after, Expansion(stream)) /\ Expansion(stream) \in Data
  BY <1>1, <1>2, <1>3, <1>4, BlockOfStream, Zenon
<1>6. CASE b.stored
  <2>1. InStored(r.at, r.curlen, b.bytes, before, data)
    BY <1>2, <1>3, <1>6, Zenon DEF IsAt, InBlock
  <2>2. after = before \o b.bytes
    BY <1>5, <1>6, Zenon DEF Expanded
  <2>3. IsPrefix(data, after)
    BY <2>1, <2>2, Zenon DEF InStored
  <2>. QED
    BY <1>5, <2>3, PrefixTransitive, Zenon
<1>7. CASE ~ b.stored
  <2>1. PICK symbols : symbols = b.symbols
    BY Zenon
  <2>2. symbols \in Seq(SymbolsOfBlock) /\ after = ExpandedBy(before, symbols, Len(symbols))
    BY <1>5, <1>7, <2>1, Zenon DEF Expanded, IsBlock
  <2>3. PICK at \in Nat : at = r.at
    BY SMT DEF Readers
  <2>4. PICK N \in Nat : N = Len(symbols)
    BY <2>2, LenProperties, Zenon
  <2>5. InSymbols(r.streaming, at, r.curlen, r.lzOff, symbols, before, data)
    BY <1>2, <1>3, <1>7, <2>1, <2>3, Zenon DEF IsAt, InBlock
  <2>6. at \in 1 .. N + 1 /\ IsPrefix(data, ExpandedBy(before, symbols, at - 1))
    BY <2>4, <2>5, Zenon DEF InSymbols
  <2>7. PICK n : n = at - 1
    BY Zenon
  <2>8. n \in 0 .. N /\ N \in 0 .. N /\ n <= N
    BY <2>6, <2>7, SMT
  <2>9. ExpandedBy(before, symbols, n) \in Data
    BY <2>2, <2>4, <2>8, ExpandedByIs, Zenon
  <2>10. IsPrefix(ExpandedBy(before, symbols, n), after)
    BY <2>2, <2>4, <2>8, ExpandedByStarts, Zenon
  <2>11. IsPrefix(data, after)
    BY <2>6, <2>7, <2>9, <2>10, PrefixTransitive, Zenon
  <2>. QED
    BY <1>5, <2>11, PrefixTransitive, Zenon
<1>. QED
  BY <1>6, <1>7

(* The buffer of a call is no part of that.                                *)
LEMMA KeptStill ==
  ASSUME NEW r, NEW s, NEW data, Kept(r, data), NEW ring, NEW dictIdx, NEW dest,
         Has(s, r.status, r.streaming, r.block, r.at, r.curlen, r.lzOff, ring, dictIdx, dest)
  PROVE  Kept(s, data)
<1>1. /\ s.status = r.status /\ s.streaming = r.streaming /\ s.block = r.block /\ s.at = r.at
      /\ s.curlen = r.curlen /\ s.lzOff = r.lzOff
  BY Zenon DEF Has
<1>2. IsAt(r, data) => IsAt(s, data)
  BY <1>1, Zenon DEF IsAt, InBlock
<1>. QED
  BY <1>1, <1>2, Zenon DEF Kept

(* What a call has put out follows what the calls before it did.           *)
IsRead(s) == Carries(s, out \o s.dest) /\ Kept(s, out \o s.dest)

(* So it is after every round, ...                                         *)
LEMMA StepIsRead ==
  ASSUME StreamIs, out \in Data, NEW s \in Readers, IsRead(s), s.status = "ok"
  PROVE  InflateStep(s) \in Readers /\ IsRead(InflateStep(s))
<1>1. PICK t : t = InflateStep(s)
  BY Zenon
<1>2. GoesOn(s, out \o s.dest, t)
  BY <1>1, InflateStepIs, Zenon DEF IsRead
<1>3. s.dest \in Data
  BY SMT DEF Readers
<1>4. CASE Carries(t, out \o s.dest) /\ Kept(t, out \o s.dest) /\ t.dest = s.dest
  <2>1. t \in Readers
    BY <1>4, Zenon DEF Carries
  <2>. QED
    BY <1>1, <1>4, <2>1, Zenon DEF IsRead
<1>5. CASE \E c \in Octets : /\ Carries(t, Append(out \o s.dest, c)) /\ Kept(t, Append(out \o s.dest, c))
                             /\ t.dest = Append(s.dest, c)
  <2>1. PICK c \in Octets : /\ Carries(t, Append(out \o s.dest, c)) /\ Kept(t, Append(out \o s.dest, c))
                            /\ t.dest = Append(s.dest, c)
    BY <1>5, Zenon
  <2>2. t \in Readers
    BY <2>1, Zenon DEF Carries
  <2>3. PICK d \in Data : d = <<c>>
    <3>1. \A x \in Octets : <<x>> \in Seq(Octets)
      BY SMT
    <3>. QED
      BY <3>1, Zenon DEF Data
  <2>4. \A e \in Data : Append(e, c) = e \o d
    BY <2>3, AppendIsConcat, Zenon DEF Data
  <2>5. out \o s.dest \in Data
    BY <1>3, BothAre, Zenon
  <2>6. (out \o s.dest) \o d = out \o (s.dest \o d)
    <3>1. PICK u : u = s.dest
      BY Zenon
    <3>2. out \in Seq(Octets) /\ u \in Seq(Octets) /\ d \in Seq(Octets)
      BY <1>3, <3>1, Zenon DEF Data
    <3>3. (out \o u) \o d = out \o (u \o d)
      BY <3>2, ConcatAssociative, SMT
    <3>. QED
      BY <3>1, <3>3, Zenon
  <2>7. Append(out \o s.dest, c) = out \o Append(s.dest, c)
    BY <1>3, <2>4, <2>5, <2>6, Zenon
  <2>. QED
    BY <1>1, <2>1, <2>2, <2>7, Zenon DEF IsRead
<1>. QED
  BY <1>2, <1>4, <1>5, Zenon DEF GoesOn

(* ... and after all of those of a call.                                   *)
LEMMA UncompressIs ==
  ASSUME StreamIs, out \in Data, NEW r, NEW len \in Nat,
         NEW first \in Readers, first = [r EXCEPT !.dest = <<>>], IsRead(first)
  PROVE  Uncompress(r, len) \in Readers /\ IsRead(Uncompress(r, len))
<1> DEFINE V == {s \in Readers : IsRead(s)}
           goes(s) == IF s.status # "ok" \/ Len(s.dest) >= len THEN s ELSE InflateStep(s)
           next == [n \in Nat |-> [s \in V |-> goes(s)]]
           Rounds(g) == [n \in Nat |-> IF n = 0 THEN [r EXCEPT !.dest = <<>>]
                                       ELSE LET s == g[n - 1]
                                            IN  IF s.status # "ok" \/ Len(s.dest) >= len THEN s ELSE InflateStep(s)]
           run == CHOOSE g : g = Rounds(g)
<1>1. ASSUME NEW s \in V PROVE goes(s) \in V
  <2>1. CASE s.status # "ok" \/ Len(s.dest) >= len
    BY <2>1, Zenon
  <2>2. CASE ~ (s.status # "ok" \/ Len(s.dest) >= len)
    <3>1. goes(s) = InflateStep(s)
      BY <2>2, Zenon
    <3>2. s \in Readers /\ IsRead(s) /\ s.status = "ok"
      BY <2>2, Zenon
    <3>. QED
      BY <3>1, <3>2, StepIsRead, Zenon
  <2>. QED
    BY <2>1, <2>2
<1>2. first \in V
  BY Zenon
<1>3. Uncompress(r, len) = run[len + Len(stream) + 1]
  BY Zenon DEF Uncompress
<1>4. \A g : Rounds(g) = [n \in Nat |-> IF n = 0 THEN first ELSE goes(g[n - 1])]
  BY Zenon
<1> HIDE DEF V, goes, Rounds
<1>5. \A n \in Nat : \A s \in V : next[n][s] = goes(s)
  BY Zenon
<1>6. \A n \in Nat : \A s \in V : next[n][s] \in V
  BY <1>1, <1>5, Zenon
<1> HIDE DEF next
<1>7. PICK f : IsRecursion(V, first, next, f)
  BY <1>2, <1>6, Recursion, Zenon
<1>8. f \in [Nat -> V] /\ f[0] = first /\ \A n \in Nat \ {0} : f[n] = next[n][f[n - 1]]
  BY <1>7, Zenon DEF IsRecursion
<1>9. \A n \in Nat : n # 0 => n \in Nat \ {0} /\ n - 1 \in Nat
  BY SMT
<1>10. ASSUME NEW n \in Nat PROVE f[n] = IF n = 0 THEN first ELSE goes(f[n - 1])
  <2>1. CASE n = 0
    BY <1>8, <2>1, Zenon
  <2>2. CASE n # 0
    <3>1. f[n] = next[n][f[n - 1]] /\ f[n - 1] \in V
      BY <1>8, <1>9, <2>2, Zenon
    <3>. QED
      BY <1>5, <2>2, <3>1, Zenon
  <2>. QED
    BY <2>1, <2>2
<1>11. f = Rounds(f)
  <2>1. f = [n \in Nat |-> f[n]]
    BY <1>8, Zenon
  <2>2. f = [n \in Nat |-> IF n = 0 THEN first ELSE goes(f[n - 1])]
    BY <1>10, <2>1, Zenon
  <2>. QED
    BY <1>4, <2>2, Zenon
<1>12. run = Rounds(run)
  BY <1>11, Zenon
<1> HIDE DEF run
<1>13. \A n \in Nat : run[n] = IF n = 0 THEN first ELSE goes(run[n - 1])
  BY <1>4, <1>12, Zenon
<1> DEFINE S == {n \in Nat : run[n] \in V}
<1>14. 0 \in S
  <2>1. 0 \in Nat
    BY SMT
  <2>. QED
    BY <1>2, <1>13, <2>1, Zenon
<1>15. ASSUME NEW n \in S PROVE n + 1 \in S
  <2>1. PICK m : m = n + 1
    BY Zenon
  <2>2. m \in Nat /\ m # 0 /\ m - 1 = n
    BY <2>1, SMT
  <2>3. run[m] = goes(run[n])
    BY <1>13, <2>2, Zenon
  <2>4. run[n] \in V
    BY Zenon
  <2>5. run[m] \in V
    BY <1>1, <2>3, <2>4, Zenon
  <2>. QED
    BY <2>1, <2>2, <2>5, Zenon
<1>16. S = Nat
  <2>1. S \in SUBSET Nat
    BY Zenon
  <2> HIDE DEF S
  <2>. QED
    BY <1>14, <1>15, <2>1, Induction, Zenon
<1>17. PICK k \in Nat : k = len + Len(stream) + 1
  <2>1. PICK j \in Nat : j = Len(stream)
    BY LenProperties, Zenon DEF StreamIs
  <2>. QED
    BY <2>1, SMT
<1>18. run[k] \in V
  BY <1>16, Zenon
<1>. QED
  BY <1>3, <1>17, <1>18, Zenon DEF V

-----------------------------------------------------------------------------
(* Between two calls.                                                      *)
ReaderInv ==
  reader # NoReader =>
    /\ reader \in Readers
    /\ RingHolds(reader.streaming, reader.ring, reader.dictIdx, out)
    /\ Kept(reader, out)

InflateInv ==
  /\ StreamIs
  /\ out \in Data
  /\ reader = NoReader => out = <<>>
  /\ ReaderInv

(* No reader is no reader of a stream.                                     *)
LEMMA NoReaderIs ==
  NoReader.status = "none" /\ "none" # "ok" /\ "none" # "done" /\ "none" # "error" /\ NoReader \notin Readers
<1>1. NoReader.status = "none"
  BY SMT DEF NoReader
<1>2. "none" # "ok" /\ "none" # "done" /\ "none" # "error"
  BY SMT
<1>3. \A r \in Readers : r.status \in Statuses
  BY SMT DEF Readers
<1>4. \A x \in Statuses : x # "none"
  BY SMT DEF Statuses
<1>. QED
  BY <1>1, <1>2, <1>3, <1>4, Zenon

(* There is none at first.                                                 *)
LEMMA InflateStarts ==
  ASSUME InflateInit
  PROVE  InflateInv
<1>1. stream = <<>> /\ reader = NoReader /\ out = <<>>
  BY Zenon DEF InflateInit
<1>2. <<>> \in Seq(Blocks) /\ Len(<<>>) = 0 /\ <<>> \in Data
  BY EmptySeq, Zenon DEF Data
<1>3. \A n \in 1 .. 0 : FALSE
  BY SMT
<1>4. StreamIs
  BY <1>1, <1>2, <1>3, Zenon DEF StreamIs
<1>. QED
  BY <1>1, <1>2, <1>4, Zenon DEF InflateInv, ReaderInv

(* A block more.                                                           *)
LEMMA BlockAdded ==
  ASSUME InflateInv, NEW b \in Blocks, AddBlock(b)
  PROVE  InflateInv'
<1>1. /\ reader = NoReader /\ reader' = reader /\ out' = out /\ stream' = Append(stream, b)
      /\ ReachesBack(Expansion(stream), b) /\ (~ b.stored => b.symbols # <<>>)
  BY Zenon DEF AddBlock
<1>2. PICK next : next = Append(stream, b)
  BY Zenon
<1>3. StreamIs /\ stream \in Seq(Blocks) /\ out \in Data /\ out = <<>>
  BY <1>1, Zenon DEF InflateInv, StreamIs
<1>4. PICK N \in Nat : N = Len(stream)
  BY <1>3, LenProperties, Zenon
<1>5. /\ next \in Seq(Blocks) /\ Len(next) = N + 1 /\ next[N + 1] = b
      /\ \A i \in 1 .. N : next[i] = stream[i]
  BY <1>2, <1>3, <1>4, AppendProperties, SMT
<1>6. ASSUME NEW n \in 1 .. N + 1
      PROVE  ReachesBack(ExpandedUpTo(next, n - 1), next[n]) /\ (~ next[n].stored => next[n].symbols # <<>>)
  <2>1. PICK m : m = n - 1
    BY Zenon
  <2>2. m \in 0 .. N
    BY <2>1, SMT
  <2>3. ExpandedUpTo(next, m) = ExpandedUpTo(stream, m)
    BY <1>2, <1>3, <1>4, <2>2, ExpandedUpToKept, Zenon
  <2>4. CASE n = N + 1
    <3>1. m = N
      BY <2>1, <2>4, SMT
    <3>2. ExpandedUpTo(next, m) = Expansion(stream)
      BY <1>4, <2>3, <3>1, Zenon DEF Expansion
    <3>. QED
      BY <1>1, <1>5, <2>1, <2>4, <3>2, Zenon
  <2>5. CASE n # N + 1
    <3>1. n \in 1 .. N
      BY <2>5, SMT
    <3>2. /\ ReachesBack(ExpandedUpTo(stream, n - 1), stream[n])
          /\ ~ stream[n].stored => stream[n].symbols # <<>>
      BY <1>3, <1>4, <3>1, Zenon DEF StreamIs
    <3>3. next[n] = stream[n]
      BY <1>5, <3>1, Zenon
    <3>. QED
      BY <2>1, <2>3, <3>2, <3>3, Zenon
  <2>. QED
    BY <2>4, <2>5
<1>7. StreamIs'
  BY <1>1, <1>2, <1>5, <1>6, Zenon DEF StreamIs
<1>. QED
  BY <1>1, <1>3, <1>7, Zenon DEF InflateInv, ReaderInv

(* The reader of a stream.                                                 *)
LEMMA ReaderOpened ==
  ASSUME InflateInv, OpenReader
  PROVE  InflateInv'
<1>1. reader = NoReader /\ stream # <<>> /\ stream' = stream /\ out' = out
  BY Zenon DEF OpenReader
<1>2. PICK streaming \in BOOLEAN : reader' = NewReader(streaming)
  BY Zenon DEF OpenReader
<1>3. StreamIs /\ stream \in Seq(Blocks) /\ out = <<>> /\ out \in Data
  BY <1>1, Zenon DEF InflateInv, StreamIs
<1>4. PICK r : r = NewReader(streaming)
  BY Zenon
<1>5. PICK ring : ring = IF streaming THEN [i \in 0 .. DictSize - 1 |-> 0] ELSE <<>>
  BY Zenon
<1>6. ring \in Rings /\ (streaming => ring \in [0 .. DictSize - 1 -> Octets])
  BY <1>5, Zenon DEF Rings, Octets
<1>7. r = [status |-> "ok", streaming |-> streaming, block |-> 1, at |-> 1, curlen |-> 0, lzOff |-> 0,
           ring |-> ring, dictIdx |-> 0, dest |-> <<>>]
  BY <1>4, <1>5, Zenon DEF NewReader
<1>8. <<>> \in Data /\ Len(<<>>) = 0
  BY EmptySeq, Zenon DEF Data
<1>9. r \in Readers
  BY <1>6, <1>7, <1>8, SMT DEF Readers, Statuses
<1>10. /\ r.status = "ok" /\ r.streaming = streaming /\ r.block = 1 /\ r.at = 1 /\ r.curlen = 0
       /\ r.ring = ring /\ r.dictIdx = 0
  BY <1>7, SMT
<1>11. RingHolds(r.streaming, r.ring, r.dictIdx, out)
  <2>1. DictSize \in Nat \ {0} /\ 0 \in 0 .. DictSize - 1 /\ DictSize * 0 + 0 = 0 /\ 0 \in Int
    BY InflateAssumption, SMT
  <2>2. 0 % DictSize = 0
    <3>1. (DictSize * 0 + 0) % DictSize = 0
      BY <2>1, DivModOf, Zenon
    <3>. QED
      BY <2>1, <3>1, Zenon
  <2>3. \A j \in 1 .. 0 : FALSE
    BY SMT
  <2>. QED
    BY <1>3, <1>6, <1>8, <1>10, <2>2, <2>3, Zenon DEF RingHolds
<1>12. Kept(r, out)
  <2>1. Len(stream) \in Nat \ {0}
    BY <1>1, <1>3, EmptySeq, Zenon
  <2>2. 1 \in 1 .. Len(stream) /\ 1 - 1 = 0
    BY <2>1, SMT
  <2>3. IsAt(r, ExpandedUpTo(stream, 1 - 1))
    BY <1>3, <1>10, <2>2, AtFirst, Zenon
  <2>4. ExpandedUpTo(stream, 0) = <<>>
    BY <1>3, ExpandedUpToIs, Zenon
  <2>5. IsAt(r, out)
    BY <1>3, <2>2, <2>3, <2>4, Zenon
  <2>6. "ok" # "done" /\ "ok" # "error"
    BY SMT
  <2>. QED
    BY <1>10, <2>5, <2>6, Zenon DEF Kept
<1>13. r # NoReader
  BY <1>9, NoReaderIs, Zenon
<1>14. StreamIs'
  BY <1>1, <1>3, Zenon DEF StreamIs
<1>15. Kept(r, out)'
  BY <1>1, <1>12, Zenon DEF Kept, IsAt, InBlock, Expansion, IsWhole
<1>. QED
  BY <1>1, <1>2, <1>3, <1>4, <1>9, <1>11, <1>13, <1>14, <1>15, Zenon DEF InflateInv, ReaderInv, Kept, IsAt

(* The next piece of what is read.                                         *)
LEMMA PieceRead ==
  ASSUME InflateInv, NEW len \in Pieces, ReadAtMost(len)
  PROVE  InflateInv'
<1>1. PICK r : r = Uncompress(reader, len)
  BY Zenon
<1>2. /\ reader.status = "ok" /\ (~ reader.streaming => out = <<>>)
      /\ reader' = [r EXCEPT !.dest = <<>>] /\ out' = out \o r.dest /\ stream' = stream
  BY <1>1, Zenon DEF ReadAtMost
<1>3. reader # NoReader
  BY <1>2, NoReaderIs, Zenon
<1>4. /\ StreamIs /\ out \in Data /\ reader \in Readers
      /\ RingHolds(reader.streaming, reader.ring, reader.dictIdx, out) /\ Kept(reader, out)
  BY <1>3, Zenon DEF InflateInv, ReaderInv
<1>5. len \in Nat /\ <<>> \in Data
  <2>1. len \in Nat
    BY InflateAssumption, SMT
  <2>. QED
    BY <2>1, EmptySeq, Zenon DEF Data
<1>6. PICK first : first = [reader EXCEPT !.dest = <<>>]
  BY Zenon
<1>7. Has(first, reader.status, reader.streaming, reader.block, reader.at, reader.curlen, reader.lzOff,
          reader.ring, reader.dictIdx, <<>>)
  BY <1>4, <1>5, <1>6, SetDest, Zenon
<1>8. /\ first \in Readers /\ first.dest = <<>> /\ first.streaming = reader.streaming
      /\ first.ring = reader.ring /\ first.dictIdx = reader.dictIdx
  BY <1>7, Zenon DEF Has
<1>9. out \o first.dest = out
  <2>1. out \o <<>> = out
    BY <1>4, ConcatEmptySeq, Zenon DEF Data
  <2>. QED
    BY <1>8, <2>1, Zenon
<1>10. IsRead(first)
  <2>1. Kept(first, out)
    BY <1>4, <1>7, KeptStill, Zenon
  <2>2. InDest(first.streaming, first.dest, out)
    BY <1>2, <1>8, Zenon DEF InDest
  <2>3. Carries(first, out)
    BY <1>4, <1>8, <2>2, Zenon DEF Carries
  <2>. QED
    BY <1>9, <2>1, <2>3, Zenon DEF IsRead
<1>11. r \in Readers /\ IsRead(r)
  BY <1>1, <1>4, <1>5, <1>6, <1>8, <1>10, UncompressIs, Zenon
<1>12. PICK data : data = out \o r.dest
  BY Zenon
<1>13. /\ data \in Data /\ RingHolds(r.streaming, r.ring, r.dictIdx, data) /\ Kept(r, data)
  BY <1>11, <1>12, Zenon DEF IsRead, Carries
<1>14. PICK s : s = [r EXCEPT !.dest = <<>>]
  BY Zenon
<1>15. Has(s, r.status, r.streaming, r.block, r.at, r.curlen, r.lzOff, r.ring, r.dictIdx, <<>>)
  BY <1>5, <1>11, <1>14, SetDest, Zenon
<1>16. /\ s \in Readers /\ s.streaming = r.streaming /\ s.ring = r.ring /\ s.dictIdx = r.dictIdx
  BY <1>15, Zenon DEF Has
<1>17. Kept(s, data)
  BY <1>13, <1>15, KeptStill, Zenon
<1>18. s # NoReader
  BY <1>16, NoReaderIs, Zenon
<1>19. StreamIs'
  BY <1>2, <1>4, Zenon DEF StreamIs
<1>20. Kept(s, data)'
  BY <1>2, <1>17, Zenon DEF Kept, IsAt, InBlock, Expansion, IsWhole
<1>21. reader' = s /\ out' = data
  BY <1>2, <1>12, <1>14, Zenon
<1>22. Kept(reader, out)'
  BY <1>20, <1>21, Zenon DEF Kept, IsAt, InBlock
<1>23. RingHolds(reader.streaming, reader.ring, reader.dictIdx, out)'
  BY <1>13, <1>16, <1>21, Zenon DEF RingHolds
<1>. QED
  BY <1>13, <1>16, <1>18, <1>19, <1>21, <1>22, <1>23, Zenon DEF InflateInv, ReaderInv

(* So what was read and what comes next is always known.                   *)
LEMMA ReadingAlwaysKept == GraphicsSpec => []InflateInv
<1>1. GraphicsInit => InflateInv
  BY InflateStarts, Zenon DEF GraphicsInit
<1>2. InflateInv /\ [GraphicsNext]_graphicsVars => InflateInv'
  <2> SUFFICES ASSUME InflateInv, [GraphicsNext]_graphicsVars PROVE InflateInv'
    BY Zenon
  <2>1. CASE UNCHANGED <<stream, reader, out>>
    <3>1. stream' = stream /\ reader' = reader /\ out' = out
      BY <2>1, Zenon
    <3>2. Kept(reader, out)' <=> Kept(reader, out)
      BY <3>1, Zenon DEF Kept, IsAt, InBlock, Expansion, IsWhole
    <3>. QED
      BY <3>1, <3>2, Zenon DEF InflateInv, ReaderInv, StreamIs, RingHolds
  <2>2. CASE \E b \in Blocks : AddBlock(b)
    BY <2>2, BlockAdded, Zenon
  <2>3. CASE OpenReader
    BY <2>3, ReaderOpened, Zenon
  <2>4. CASE \E len \in Pieces : ReadAtMost(len)
    BY <2>4, PieceRead, Zenon
  <2>5. \/ UNCHANGED <<stream, reader, out>> \/ OpenReader
        \/ \E b \in Blocks : AddBlock(b)
        \/ \E len \in Pieces : ReadAtMost(len)
    BY Zenon DEF GraphicsNext, graphicsVars, inflateVars, Download, TakeScreenshot, ReadBitmap, DrawOnce, TakeText,
                 UseFonts, UseInflate, InflateNext, ChooseCode
  <2>. QED
    BY <2>1, <2>2, <2>3, <2>4, <2>5, Zenon
<1>. QED
  BY <1>1, <1>2, PTL DEF GraphicsSpec

(* Read in pieces of any sizes, through a ring of any size, or in one      *)
(* piece, the output of any stream is what it stands for, in order and     *)
(* nothing else; it is done only when all of it was put out, and an error  *)
(* only if an end is missing (InflateReader.cpp:49-78, tinflate.c:407-626).*)
THEOREM OutputIsAlwaysTheExpansion == GraphicsSpec => []OutputIsTheExpansion
<1>1. InflateInv => OutputIsTheExpansion
  <2> SUFFICES ASSUME InflateInv PROVE OutputIsTheExpansion
    BY Zenon
  <2>0. StreamIs /\ out \in Data
    BY Zenon DEF InflateInv
  <2>1. Expansion(stream) \in Data
    <3>1. stream \in Seq(Blocks)
      BY <2>0, Zenon DEF StreamIs
    <3>2. PICK n \in Nat : n = Len(stream)
      BY <3>1, LenProperties, Zenon
    <3>3. n \in 0 .. n
      BY SMT
    <3>. QED
      BY <3>1, <3>2, <3>3, ExpandedUpToIs, Zenon DEF Expansion
  <2>2. CASE reader = NoReader
    <3>1. out = <<>>
      BY <2>2, Zenon DEF InflateInv
    <3>2. PICK whole \in Data : whole = Expansion(stream)
      BY <2>1, Zenon
    <3>3. <<>> \in Data /\ <<>> \o whole = whole
      BY EmptySeq, ConcatEmptySeq, Zenon DEF Data
    <3>4. IsPrefix(<<>>, <<>> \o whole)
      BY <3>3, PrefixOfBoth, Zenon
    <3>. QED
      BY <2>2, <3>1, <3>2, <3>3, <3>4, NoReaderIs, Zenon DEF OutputIsTheExpansion
  <2>3. CASE reader # NoReader
    <3>1. reader \in Readers /\ Kept(reader, out)
      BY <2>3, Zenon DEF InflateInv, ReaderInv
    <3>2. reader.status \in {"ok", "done", "error"}
      BY <3>1, SMT DEF Readers, Statuses
    <3>3. CASE reader.status = "ok"
      <4>1. IsAt(reader, out)
        BY <3>1, <3>3, Zenon DEF Kept
      <4>2. IsPrefix(out, Expansion(stream))
        BY <2>0, <3>1, <4>1, AtIsPrefix, Zenon
      <4>3. "ok" # "done" /\ "ok" # "error"
        BY SMT
      <4>. QED
        BY <3>3, <4>2, <4>3, Zenon DEF OutputIsTheExpansion
    <3>4. CASE reader.status = "done"
      <4>1. out = Expansion(stream)
        BY <3>1, <3>4, Zenon DEF Kept
      <4>2. IsPrefix(out, Expansion(stream))
        BY <2>1, <4>1, PrefixOfItself, Zenon
      <4>3. "done" # "error"
        BY SMT
      <4>. QED
        BY <3>4, <4>1, <4>2, <4>3, Zenon DEF OutputIsTheExpansion
    <3>5. CASE reader.status = "error"
      <4>1. "done" # "error"
        BY SMT
      <4>. QED
        BY <3>1, <3>5, <4>1, Zenon DEF Kept, OutputIsTheExpansion
    <3>. QED
      BY <3>2, <3>3, <3>4, <3>5, Zenon
  <2>. QED
    BY <2>2, <2>3
<1>. QED
  BY <1>1, ReadingAlwaysKept, PTL

-----------------------------------------------------------------------------
(* The lengths of the words of a code, symbol by symbol.                   *)
Codes == Seq(0 .. 15)
Used(lengths) == {s \in DOMAIN lengths : lengths[s] > 0}

(* The symbols with words no longer than n, and those of a length that     *)
(* come before s.                                                          *)
NoLonger(lengths, n) == Cardinality({t \in DOMAIN lengths : lengths[t] \in 1 .. n})
Earlier(lengths, s) == Cardinality({t \in DOMAIN lengths : lengths[t] = lengths[s] /\ t < s})

(* The symbols of a code are finitely many.                                *)
LEMMA CodeIs ==
  ASSUME NEW lengths \in Codes
  PROVE  /\ Len(lengths) \in Nat /\ DOMAIN lengths = 1 .. Len(lengths)
         /\ \A s \in DOMAIN lengths : s \in Nat /\ lengths[s] \in 0 .. 15
         /\ \A T \in SUBSET DOMAIN lengths : IsFiniteSet(T) /\ Cardinality(T) \in Nat
<1>1. Len(lengths) \in Nat /\ DOMAIN lengths = 1 .. Len(lengths)
  BY LenProperties, Zenon DEF Codes
<1>2. \A s \in DOMAIN lengths : lengths[s] \in 0 .. 15
  BY <1>1, ElementOfSeq, Zenon DEF Codes
<1>3. \A s \in 1 .. Len(lengths) : s \in Nat
  BY <1>1, SMT
<1>4. IsFiniteSet(1 .. Len(lengths))
  <2>1. 1 \in Int /\ Len(lengths) \in Int
    BY <1>1, SMT
  <2>. QED
    BY <2>1, FS_Interval, Zenon
<1>5. ASSUME NEW T \in SUBSET DOMAIN lengths PROVE IsFiniteSet(T) /\ Cardinality(T) \in Nat
  <2>1. IsFiniteSet(T)
    BY <1>1, <1>4, FS_Subset, Zenon
  <2>. QED
    BY <2>1, FS_CardinalityType, Zenon
<1>. QED
  BY <1>1, <1>2, <1>3, <1>5, Zenon

(* Two sets with nothing in common have as many elements as both together. *)
LEMMA CountBoth ==
  ASSUME NEW S, NEW T, IsFiniteSet(S), IsFiniteSet(T), S \cap T = {}
  PROVE  Cardinality(S \cup T) = Cardinality(S) + Cardinality(T)
<1>1. Cardinality(S) \in Nat /\ Cardinality(T) \in Nat
  BY FS_CardinalityType, Zenon
<1>2. Cardinality(S \cup T) = Cardinality(S) + Cardinality(T) - Cardinality(S \cap T)
  BY FS_Union, Zenon
<1>3. Cardinality(S \cap T) = 0
  BY FS_EmptySet, Zenon
<1>. QED
  BY <1>1, <1>2, <1>3, SMT

(* The symbols are counted length by length.                               *)
LEMMA CountedUp ==
  ASSUME NEW lengths \in Codes
  PROVE  /\ HowMany(lengths, 0) = 0 /\ NoLonger(lengths, 0) = 0
         /\ \A n \in 0 .. 15 : HowMany(lengths, n) \in Nat /\ NoLonger(lengths, n) \in Nat
         /\ \A n \in 1 .. 15 : NoLonger(lengths, n) = NoLonger(lengths, n - 1) + HowMany(lengths, n)
<1> DEFINE S(n) == {t \in DOMAIN lengths : lengths[t] \in 1 .. n}
           T(n) == {t \in DOMAIN lengths : lengths[t] = n}
<1>1. \A n : S(n) \in SUBSET DOMAIN lengths /\ T(n) \in SUBSET DOMAIN lengths
  BY Zenon
<1>2. \A n : NoLonger(lengths, n) = Cardinality(S(n)) /\ HowMany(lengths, n) = IF n = 0 THEN 0 ELSE Cardinality(T(n))
  BY Zenon DEF NoLonger, HowMany
<1>3. S(0) = {}
  <2>1. 1 .. 0 = {}
    BY SMT
  <2>. QED
    BY <2>1, Zenon
<1>4. ASSUME NEW n \in 1 .. 15
      PROVE  n # 0 /\ S(n) = S(n - 1) \cup T(n) /\ S(n - 1) \cap T(n) = {}
  <2>1. PICK m : m = n - 1
    BY Zenon
  <2>2. n # 0 /\ n \notin 1 .. m /\ \A l : l \in 1 .. n <=> l \in 1 .. m \/ l = n
    BY <2>1, SMT
  <2>. QED
    BY <2>1, <2>2, Zenon
<1> HIDE DEF S, T
<1>5. \A n : IsFiniteSet(S(n)) /\ IsFiniteSet(T(n)) /\ Cardinality(S(n)) \in Nat /\ Cardinality(T(n)) \in Nat
  BY <1>1, CodeIs, Zenon
<1>6. ASSUME NEW n \in 1 .. 15 PROVE NoLonger(lengths, n) = NoLonger(lengths, n - 1) + HowMany(lengths, n)
  <2>1. Cardinality(S(n - 1) \cup T(n)) = Cardinality(S(n - 1)) + Cardinality(T(n))
    BY <1>4, <1>5, CountBoth, Zenon
  <2>. QED
    BY <1>2, <1>4, <2>1, Zenon
<1>7. HowMany(lengths, 0) = 0 /\ NoLonger(lengths, 0) = 0
  BY <1>2, <1>3, FS_EmptySet, Zenon
<1>8. \A n : HowMany(lengths, n) \in Nat /\ NoLonger(lengths, n) \in Nat
  <2>1. 0 \in Nat
    BY SMT
  <2>. QED
    BY <1>2, <1>5, <2>1, Zenon
<1>. QED
  BY <1>6, <1>7, <1>8, Zenon

(* A symbol has its rank among those that are used: behind the shorter     *)
(* ones, and those of its length that come before.                         *)
LEMMA RankIs ==
  ASSUME NEW lengths \in Codes, NEW s \in Used(lengths)
  PROVE  /\ s \in DOMAIN lengths /\ lengths[s] \in 1 .. 15
         /\ Earlier(lengths, s) \in Nat /\ Earlier(lengths, s) < HowMany(lengths, lengths[s])
         /\ Rank(lengths, s) = NoLonger(lengths, lengths[s] - 1) + Earlier(lengths, s) + 1
         /\ Rank(lengths, s) \in 1 .. Cardinality(Used(lengths))
<1>1. s \in DOMAIN lengths /\ s \in Nat /\ lengths[s] \in 1 .. 15
  <2>1. s \in DOMAIN lengths /\ lengths[s] > 0
    BY Zenon DEF Used
  <2>2. s \in Nat /\ lengths[s] \in 0 .. 15
    BY <2>1, CodeIs, Zenon
  <2>. QED
    BY <2>1, <2>2, SMT
<1>2. PICK n \in 1 .. 15 : n = lengths[s]
  BY <1>1, Zenon
<1> DEFINE m == n - 1
<1> DEFINE R == {t \in DOMAIN lengths : lengths[t] \in 1 .. m \/ (lengths[t] = n /\ t <= s)}
           S == {t \in DOMAIN lengths : lengths[t] \in 1 .. m}
           T == {t \in DOMAIN lengths : lengths[t] = n /\ t < s}
           U == {t \in DOMAIN lengths : lengths[t] = n}
           V == {t \in DOMAIN lengths : lengths[t] > 0}
<1>3. \A t \in DOMAIN lengths : t \in Nat /\ (t <= s <=> t < s \/ t = s)
  BY <1>1, CodeIs, SMT
<1>4. n \notin 1 .. m /\ n > 0 /\ n # 0 /\ ~ (s < s) /\ \A l : l \in 1 .. m => l > 0
  BY <1>1, <1>2, SMT
<1>5. R = (S \cup T) \cup {s} /\ S \cap T = {} /\ s \notin S \cup T
  BY <1>1, <1>2, <1>3, <1>4, Zenon
<1>6. T \cup {s} \subseteq U /\ s \notin T /\ R \subseteq V
  BY <1>1, <1>2, <1>4, Zenon
<1>7. /\ R \in SUBSET DOMAIN lengths /\ S \in SUBSET DOMAIN lengths /\ T \in SUBSET DOMAIN lengths
      /\ U \in SUBSET DOMAIN lengths /\ V \in SUBSET DOMAIN lengths
  BY Zenon
<1>8. /\ Rank(lengths, s) = Cardinality(R) /\ NoLonger(lengths, m) = Cardinality(S)
      /\ Earlier(lengths, s) = Cardinality(T) /\ HowMany(lengths, n) = Cardinality(U)
      /\ Cardinality(Used(lengths)) = Cardinality(V)
  BY <1>2, <1>4, Zenon DEF Rank, NoLonger, Earlier, HowMany, Used
<1> HIDE DEF R, S, T, U, V
<1>9. /\ IsFiniteSet(R) /\ IsFiniteSet(S) /\ IsFiniteSet(T) /\ IsFiniteSet(U) /\ IsFiniteSet(V)
      /\ Cardinality(R) \in Nat /\ Cardinality(S) \in Nat /\ Cardinality(T) \in Nat /\ Cardinality(U) \in Nat
      /\ Cardinality(V) \in Nat
  BY <1>7, CodeIs, Zenon
<1>10. Cardinality(R) = Cardinality(S) + Cardinality(T) + 1
  <2>1. IsFiniteSet(S \cup T) /\ Cardinality(S \cup T) = Cardinality(S) + Cardinality(T)
    BY <1>5, <1>9, CountBoth, FS_Union, Zenon
  <2>2. Cardinality((S \cup T) \cup {s}) = Cardinality(S \cup T) + 1
    BY <1>5, <2>1, FS_AddElement, Zenon
  <2>. QED
    BY <1>5, <2>1, <2>2, Zenon
<1>11. Cardinality(T) + 1 <= Cardinality(U)
  <2>1. Cardinality(T \cup {s}) = Cardinality(T) + 1
    BY <1>6, <1>9, FS_AddElement, Zenon
  <2>2. Cardinality(T \cup {s}) <= Cardinality(U)
    BY <1>6, <1>9, FS_Subset, Zenon
  <2>. QED
    BY <2>1, <2>2, Zenon
<1>12. Cardinality(R) <= Cardinality(V)
  BY <1>6, <1>9, FS_Subset, Zenon
<1>13. Cardinality(T) < Cardinality(U) /\ Cardinality(R) \in 1 .. Cardinality(V)
  BY <1>9, <1>10, <1>11, <1>12, SMT
<1>. QED
  BY <1>1, <1>2, <1>8, <1>9, <1>10, <1>13, Zenon

(* No two symbols have one rank.                                           *)
LEMMA RanksDiffer ==
  ASSUME NEW lengths \in Codes, NEW s \in Used(lengths), NEW t \in Used(lengths),
         Rank(lengths, s) = Rank(lengths, t)
  PROVE  s = t
<1> DEFINE R(u) == {v \in DOMAIN lengths : lengths[v] \in 1 .. lengths[u] - 1 \/ (lengths[v] = lengths[u] /\ v <= u)}
<1>1. ASSUME NEW u \in Used(lengths), NEW v \in Used(lengths),
             lengths[u] < lengths[v] \/ (lengths[u] = lengths[v] /\ u < v)
      PROVE  Rank(lengths, u) # Rank(lengths, v)
  <2>1. PICK m \in 1 .. 15, n \in 1 .. 15 : m = lengths[u] /\ n = lengths[v]
    BY RankIs, Zenon
  <2>2. u \in DOMAIN lengths /\ v \in DOMAIN lengths /\ u \in Nat /\ v \in Nat
    BY RankIs, CodeIs, Zenon
  <2>3. \A x \in DOMAIN lengths : x \in Nat /\ lengths[x] \in 0 .. 15
    BY CodeIs, Zenon
  <2>4. R(u) \subseteq R(v)
    <3> SUFFICES ASSUME NEW x \in DOMAIN lengths, lengths[x] \in 1 .. m - 1 \/ (lengths[x] = m /\ x <= u)
                 PROVE  lengths[x] \in 1 .. n - 1 \/ (lengths[x] = n /\ x <= v)
      BY <2>1, Zenon
    <3>1. m < n \/ (m = n /\ u < v)
      BY <1>1, <2>1, Zenon
    <3>2. PICK l \in 0 .. 15 : l = lengths[x]
      BY <2>3, Zenon
    <3>3. x \in Nat
      BY <2>3, Zenon
    <3>. QED
      BY <2>2, <3>1, <3>2, <3>3, SMT
  <2>5. v \in R(v) /\ v \notin R(u)
    <3>1. v <= v /\ ~ (n \in 1 .. m - 1) /\ ~ (n = m /\ v <= u)
      BY <1>1, <2>1, <2>2, SMT
    <3>. QED
      BY <2>1, <2>2, <3>1, Zenon
  <2>6. R(u) \in SUBSET DOMAIN lengths /\ R(v) \in SUBSET DOMAIN lengths
    BY Zenon
  <2>7. Rank(lengths, u) = Cardinality(R(u)) /\ Rank(lengths, v) = Cardinality(R(v))
    BY Zenon DEF Rank
  <2> HIDE DEF R
  <2>8. IsFiniteSet(R(v))
    BY <2>6, CodeIs, Zenon
  <2>9. Cardinality(R(v)) = Cardinality(R(u)) => R(v) = R(u)
    BY <2>4, <2>8, FS_Subset, Zenon
  <2>. QED
    BY <2>5, <2>7, <2>9, Zenon
<1>2. \/ lengths[s] < lengths[t] \/ (lengths[s] = lengths[t] /\ s < t)
      \/ lengths[t] < lengths[s] \/ (lengths[t] = lengths[s] /\ t < s)
      \/ s = t
  <2>1. PICK m \in 1 .. 15, n \in 1 .. 15 : m = lengths[s] /\ n = lengths[t]
    BY RankIs, Zenon
  <2>2. s \in Nat /\ t \in Nat
    BY RankIs, CodeIs, Zenon
  <2>. QED
    BY <2>1, <2>2, SMT
<1>. QED
  BY <1>1, <1>2, Zenon

(* A tree for a code: the numbers of words, and the symbols by rank.       *)
IsTree(lengths, tree) ==
  /\ \A n \in 1 .. 15 : tree.table[n] = HowMany(lengths, n)
  /\ \A s \in Used(lengths) : tree.trans[Rank(lengths, s)] = s

(* The tree that is built is one.                                          *)
LEMMA TreeIsBuilt ==
  ASSUME NEW lengths \in Codes
  PROVE  IsTree(lengths, BuildTree(lengths))
<1>1. PICK table, trans :
        /\ table = [n \in 1 .. 15 |-> HowMany(lengths, n)]
        /\ trans = [i \in 1 .. Cardinality(Used(lengths)) |-> CHOOSE s \in Used(lengths) : Rank(lengths, s) = i]
  BY Zenon
<1>2. PICK tree : tree = BuildTree(lengths)
  BY Zenon
<1>3. tree = [table |-> table, trans |-> trans]
  BY <1>1, <1>2, Zenon DEF BuildTree, Used
<1>4. tree.table = table /\ tree.trans = trans
  BY <1>3, SMT
<1>5. ASSUME NEW s \in Used(lengths) PROVE trans[Rank(lengths, s)] = s
  <2>1. PICK i \in 1 .. Cardinality(Used(lengths)) : i = Rank(lengths, s)
    BY RankIs, Zenon
  <2>2. trans[i] = CHOOSE t \in Used(lengths) : Rank(lengths, t) = i
    BY <1>1, Zenon
  <2>3. trans[i] \in Used(lengths) /\ Rank(lengths, trans[i]) = i
    BY <2>1, <2>2, Zenon
  <2>. QED
    BY <2>1, <2>3, RanksDiffer, Zenon
<1>6. \A n \in 1 .. 15 : table[n] = HowMany(lengths, n)
  BY <1>1, Zenon
<1>. QED
  BY <1>2, <1>4, <1>5, <1>6, Zenon DEF IsTree

(* The first words of all lengths, ...                                     *)
LEMMA FirstWordsAre ==
  ASSUME NEW lengths \in Codes
  PROVE  /\ FirstOfLength(lengths) \in [0 .. 15 -> Nat]
         /\ FirstOfLength(lengths)[0] = 0
         /\ \A n \in 1 .. 15 :
              FirstOfLength(lengths)[n] = 2 * (FirstOfLength(lengths)[n - 1] + HowMany(lengths, n - 1))
<1> DEFINE E(i, v) == 2 * (v + HowMany(lengths, i - 1))
           Rounds(g) ==
             [i \in 0 .. 15 |->
                IF i = 0 THEN 0
                ELSE 2 * (g[i - 1] + HowMany(lengths, i - 1))]
           w == CHOOSE g : g = Rounds(g)
           next == [i \in Nat |-> [v \in Nat |-> IF i \in 1 .. 15 THEN E(i, v) ELSE v]]
<1>1. 15 \in Nat
  BY SMT
<1>2. 0 \in Nat
  BY SMT
<1>3. ASSUME NEW i \in 1 .. 15, NEW v \in Nat PROVE E(i, v) \in Nat
  <2>1. i - 1 \in 0 .. 15
    BY SMT
  <2>2. HowMany(lengths, i - 1) \in Nat
    BY <2>1, CountedUp, Zenon
  <2>. QED
    BY <2>2, SMT
<1>4. FirstOfLength(lengths) = w
  BY Zenon DEF FirstOfLength
<1>5. \A g : Rounds(g) = [i \in 0 .. 15 |-> IF i = 0 THEN 0 ELSE E(i, g[i - 1])]
  BY Zenon
<1> HIDE DEF E, Rounds
<1>6. \A i \in 1 .. 15 : i \in Nat /\ i # 0 /\ i \in 0 .. 15
  BY <1>1, SMT
<1>7. \A i \in 1 .. 15 : \A v \in Nat : next[i][v] = E(i, v) /\ next[i][v] \in Nat
  BY <1>3, <1>6, Zenon
<1>8. \A i \in Nat : \A v \in Nat : next[i][v] \in Nat
  BY <1>3, Zenon
<1> HIDE DEF next
<1>9. PICK f : IsUpTo(Nat, 0, next, 15, f)
  BY <1>1, <1>2, <1>8, UpToExists, Zenon
<1>10. /\ f \in [0 .. 15 -> Nat] /\ f[0] = 0
       /\ \A i \in 1 .. 15 : f[i] = next[i][f[i - 1]]
  BY <1>9, Zenon DEF IsUpTo
<1>11. \A i \in 1 .. 15 : i - 1 \in 0 .. 15
  BY <1>1, SMT
<1>12. \A i \in 0 .. 15 : i = 0 \/ i \in 1 .. 15
  BY <1>1, SMT
<1>13. \A i \in 0 .. 15 : f[i] = IF i = 0 THEN 0 ELSE E(i, f[i - 1])
  BY <1>7, <1>10, <1>11, <1>12, Zenon
<1>14. f = Rounds(f)
  BY <1>5, <1>10, <1>13, Zenon
<1>15. w = Rounds(w)
  BY <1>14, Zenon
<1> HIDE DEF w
<1>16. 0 \in 0 .. 15
  BY <1>1, SMT
<1>17. /\ w = [i \in 0 .. 15 |-> w[i]] /\ w[0] = 0
       /\ \A i \in 1 .. 15 : w[i] = E(i, w[i - 1])
  BY <1>5, <1>6, <1>15, <1>16, Zenon
<1>18. \A i \in 1 .. 15 : w[i - 1] \in Nat => w[i] = next[i][w[i - 1]]
  BY <1>7, <1>17, Zenon
<1>19. \A i \in 1 .. 15 : \A v \in Nat : next[i][v] \in Nat
  BY <1>7, Zenon
<1>20. IsUpTo(Nat, 0, next, 15, w)
  BY <1>1, <1>2, <1>17, <1>18, <1>19, FunctionUpTo, Zenon
<1>21. w \in [0 .. 15 -> Nat]
  BY <1>20, Zenon DEF IsUpTo
<1>22. \A n \in 1 .. 15 : w[n] = 2 * (w[n - 1] + HowMany(lengths, n - 1))
  BY <1>17, Zenon DEF E
<1>. QED
  BY <1>4, <1>17, <1>21, <1>22, Zenon

(* ... and how many words there can be.                                    *)
LEMMA PowersAre ==
  /\ PowerOf2 \in [0 .. 15 -> Nat] /\ PowerOf2[0] = 1
  /\ \A n \in 1 .. 15 : PowerOf2[n] = 2 * PowerOf2[n - 1]
<1> DEFINE E(i, v) == 2 * v
           Rounds(g) ==
             [i \in 0 .. 15 |->
                IF i = 0 THEN 1
                ELSE 2 * g[i - 1]]
           w == CHOOSE g : g = Rounds(g)
           next == [i \in Nat |-> [v \in Nat |-> IF i \in 1 .. 15 THEN E(i, v) ELSE v]]
<1>1. 15 \in Nat
  BY SMT
<1>2. 1 \in Nat
  BY SMT
<1>3. ASSUME NEW i \in 1 .. 15, NEW v \in Nat PROVE E(i, v) \in Nat
  BY SMT
<1>4. PowerOf2 = w
  BY Zenon DEF PowerOf2
<1>5. \A g : Rounds(g) = [i \in 0 .. 15 |-> IF i = 0 THEN 1 ELSE E(i, g[i - 1])]
  BY Zenon
<1> HIDE DEF E, Rounds
<1>6. \A i \in 1 .. 15 : i \in Nat /\ i # 0 /\ i \in 0 .. 15
  BY <1>1, SMT
<1>7. \A i \in 1 .. 15 : \A v \in Nat : next[i][v] = E(i, v) /\ next[i][v] \in Nat
  BY <1>3, <1>6, Zenon
<1>8. \A i \in Nat : \A v \in Nat : next[i][v] \in Nat
  BY <1>3, Zenon
<1> HIDE DEF next
<1>9. PICK f : IsUpTo(Nat, 1, next, 15, f)
  BY <1>1, <1>2, <1>8, UpToExists, Zenon
<1>10. /\ f \in [0 .. 15 -> Nat] /\ f[0] = 1
       /\ \A i \in 1 .. 15 : f[i] = next[i][f[i - 1]]
  BY <1>9, Zenon DEF IsUpTo
<1>11. \A i \in 1 .. 15 : i - 1 \in 0 .. 15
  BY <1>1, SMT
<1>12. \A i \in 0 .. 15 : i = 0 \/ i \in 1 .. 15
  BY <1>1, SMT
<1>13. \A i \in 0 .. 15 : f[i] = IF i = 0 THEN 1 ELSE E(i, f[i - 1])
  BY <1>7, <1>10, <1>11, <1>12, Zenon
<1>14. f = Rounds(f)
  BY <1>5, <1>10, <1>13, Zenon
<1>15. w = Rounds(w)
  BY <1>14, Zenon
<1> HIDE DEF w
<1>16. 0 \in 0 .. 15
  BY <1>1, SMT
<1>17. /\ w = [i \in 0 .. 15 |-> w[i]] /\ w[0] = 1
       /\ \A i \in 1 .. 15 : w[i] = E(i, w[i - 1])
  BY <1>5, <1>6, <1>15, <1>16, Zenon
<1>18. \A i \in 1 .. 15 : w[i - 1] \in Nat => w[i] = next[i][w[i - 1]]
  BY <1>7, <1>17, Zenon
<1>19. \A i \in 1 .. 15 : \A v \in Nat : next[i][v] \in Nat
  BY <1>7, Zenon
<1>20. IsUpTo(Nat, 1, next, 15, w)
  BY <1>1, <1>2, <1>17, <1>18, <1>19, FunctionUpTo, Zenon
<1>21. w \in [0 .. 15 -> Nat]
  BY <1>20, Zenon DEF IsUpTo
<1>22. \A n \in 1 .. 15 : w[n] = 2 * w[n - 1]
  BY <1>17, Zenon DEF E
<1>. QED
  BY <1>4, <1>17, <1>21, <1>22, Zenon

(* The value of a word is the first of its length and those that come      *)
(* before it, ...                                                          *)
LEMMA ValueIs ==
  ASSUME NEW lengths \in Codes, NEW s \in Used(lengths)
  PROVE  /\ Value(lengths, s) \in Nat
         /\ Value(lengths, s) = FirstOfLength(lengths)[lengths[s]] + Earlier(lengths, s)
<1>1. Value(lengths, s) = FirstOfLength(lengths)[lengths[s]] + Earlier(lengths, s)
  BY Zenon DEF Value, Earlier
<1>2. Earlier(lengths, s) \in Nat /\ lengths[s] \in 1 .. 15
  BY RankIs, Zenon
<1>3. lengths[s] \in 0 .. 15
  BY <1>2, SMT
<1>4. FirstOfLength(lengths)[lengths[s]] \in Nat
  BY <1>3, FirstWordsAre, Zenon
<1>. QED
  BY <1>1, <1>2, <1>4, SMT

(* ... and its bits are those of the value, halved again and again.        *)
LEMMA WordIs ==
  ASSUME NEW lengths \in Codes, NEW s \in Used(lengths)
  PROVE  \E w : /\ w \in [0 .. lengths[s] -> Nat] /\ w[0] = Value(lengths, s)
                /\ \A k \in 1 .. lengths[s] : w[k] = w[k - 1] \div 2
                /\ Word(lengths, s) = [i \in 1 .. lengths[s] |-> w[lengths[s] - i] % 2]
<1> DEFINE E(i, v) == v \div 2
           Rounds(g) ==
             [i \in 0 .. lengths[s] |->
                IF i = 0 THEN Value(lengths, s)
                ELSE g[i - 1] \div 2]
           w == CHOOSE g : g = Rounds(g)
           next == [i \in Nat |-> [v \in Nat |-> IF i \in 1 .. lengths[s] THEN E(i, v) ELSE v]]
<1>1. lengths[s] \in Nat
  <2>1. lengths[s] \in 1 .. 15
    BY RankIs, Zenon
  <2>. QED
    BY <2>1, SMT
<1>2. Value(lengths, s) \in Nat
  BY ValueIs, Zenon
<1>3. ASSUME NEW i \in 1 .. lengths[s], NEW v \in Nat PROVE E(i, v) \in Nat
  BY SMT
<1>4. Word(lengths, s) = [i \in 1 .. lengths[s] |-> w[lengths[s] - i] % 2]
  BY Zenon DEF Word
<1>5. \A g : Rounds(g) = [i \in 0 .. lengths[s] |-> IF i = 0 THEN Value(lengths, s) ELSE E(i, g[i - 1])]
  BY Zenon
<1> HIDE DEF E, Rounds
<1>6. \A i \in 1 .. lengths[s] : i \in Nat /\ i # 0 /\ i \in 0 .. lengths[s]
  BY <1>1, SMT
<1>7. \A i \in 1 .. lengths[s] : \A v \in Nat : next[i][v] = E(i, v) /\ next[i][v] \in Nat
  BY <1>3, <1>6, Zenon
<1>8. \A i \in Nat : \A v \in Nat : next[i][v] \in Nat
  BY <1>3, Zenon
<1> HIDE DEF next
<1>9. PICK f : IsUpTo(Nat, Value(lengths, s), next, lengths[s], f)
  BY <1>1, <1>2, <1>8, UpToExists, Zenon
<1>10. /\ f \in [0 .. lengths[s] -> Nat] /\ f[0] = Value(lengths, s)
       /\ \A i \in 1 .. lengths[s] : f[i] = next[i][f[i - 1]]
  BY <1>9, Zenon DEF IsUpTo
<1>11. \A i \in 1 .. lengths[s] : i - 1 \in 0 .. lengths[s]
  BY <1>1, SMT
<1>12. \A i \in 0 .. lengths[s] : i = 0 \/ i \in 1 .. lengths[s]
  BY <1>1, SMT
<1>13. \A i \in 0 .. lengths[s] : f[i] = IF i = 0 THEN Value(lengths, s) ELSE E(i, f[i - 1])
  BY <1>7, <1>10, <1>11, <1>12, Zenon
<1>14. f = Rounds(f)
  BY <1>5, <1>10, <1>13, Zenon
<1>15. w = Rounds(w)
  BY <1>14, Zenon
<1> HIDE DEF w
<1>16. 0 \in 0 .. lengths[s]
  BY <1>1, SMT
<1>17. /\ w = [i \in 0 .. lengths[s] |-> w[i]] /\ w[0] = Value(lengths, s)
       /\ \A i \in 1 .. lengths[s] : w[i] = E(i, w[i - 1])
  BY <1>5, <1>6, <1>15, <1>16, Zenon
<1>18. \A i \in 1 .. lengths[s] : w[i - 1] \in Nat => w[i] = next[i][w[i - 1]]
  BY <1>7, <1>17, Zenon
<1>19. \A i \in 1 .. lengths[s] : \A v \in Nat : next[i][v] \in Nat
  BY <1>7, Zenon
<1>20. IsUpTo(Nat, Value(lengths, s), next, lengths[s], w)
  BY <1>1, <1>2, <1>17, <1>18, <1>19, FunctionUpTo, Zenon
<1>21. w \in [0 .. lengths[s] -> Nat]
  BY <1>20, Zenon DEF IsUpTo
<1>22. \A k \in 1 .. lengths[s] : w[k] = w[k - 1] \div 2
  BY <1>17, Zenon DEF E
<1>. QED
  BY <1>4, <1>17, <1>21, <1>22, Zenon

(* The rounds of a symbol that is decoded.                                 *)
Walks == [cur : Int, sum : Int]
(* What a round is made of.                                                *)
LEMMA WalkOf ==
  ASSUME NEW a, NEW b, NEW v, v = [cur |-> a, sum |-> b]
  PROVE  v.cur = a /\ v.sum = b /\ (a \in Int /\ b \in Int => v \in Walks)
BY SMT DEF Walks

(* And what it has.                                                        *)
LEMMA WalkIsOf ==
  ASSUME NEW v \in Walks
  PROVE  v.cur \in Int /\ v.sum \in Int
BY SMT DEF Walks

(* Beyond the end of the source every bit is 0.                            *)
BitAt(bits, n) == IF n <= Len(bits) THEN bits[n] ELSE 0

(* A symbol is that of the first round whose count is negative.            *)
LEMMA DecodingIs ==
  ASSUME NEW tree, \A n \in 1 .. 15 : tree.table[n] \in Nat, NEW bits \in Seq(0 .. 1)
  PROVE  \E w : /\ w \in [0 .. 15 -> Walks] /\ w[0].cur = 0 /\ w[0].sum = 0
                /\ \A n \in 1 .. 15 : /\ w[n].cur = 2 * w[n - 1].cur + BitAt(bits, n) - tree.table[n]
                                      /\ w[n].sum = w[n - 1].sum + tree.table[n]
                /\ \A L \in 1 .. 15 :
                     w[L].cur < 0 /\ (\A n \in 1 .. L - 1 : w[n].cur >= 0) =>
                       DecodeSymbol(tree, bits) = [symbol |-> tree.trans[w[L].sum + w[L].cur + 1], used |-> L]
<1> DEFINE E(i, v) == DecodeStep(tree, v, i, IF i <= Len(bits) THEN bits[i] ELSE 0)
           Rounds(g) ==
             [i \in 0 .. 15 |->
                IF i = 0 THEN [cur |-> 0, sum |-> 0]
                ELSE DecodeStep(tree, g[i - 1], i, IF i <= Len(bits) THEN bits[i] ELSE 0)]
           w == CHOOSE g : g = Rounds(g)
           next == [i \in Nat |-> [v \in Walks |-> IF i \in 1 .. 15 THEN E(i, v) ELSE v]]
<1>1. 15 \in Nat
  BY SMT
<1>2. [cur |-> 0, sum |-> 0] \in Walks
  BY SMT DEF Walks
<1>3. ASSUME NEW i \in 1 .. 15, NEW v \in Walks PROVE E(i, v) \in Walks
  <2>1. PICK c \in Nat : c = tree.table[i]
    BY Zenon
  <2>2. PICK b \in 0 .. 1 : b = BitAt(bits, i)
    <3>1. i <= Len(bits) => i \in 1 .. Len(bits)
      <4>1. Len(bits) \in Nat
        BY LenProperties, Zenon
      <4>. QED
        BY <4>1, SMT
    <3>2. i <= Len(bits) => bits[i] \in 0 .. 1
      BY <3>1, ElementOfSeq, Zenon
    <3>3. 0 \in 0 .. 1
      BY SMT
    <3>. QED
      BY <3>2, <3>3, Zenon DEF BitAt
  <2>3. E(i, v) = [cur |-> 2 * v.cur + b - c, sum |-> v.sum + c]
    BY <2>1, <2>2, Zenon DEF DecodeStep, BitAt
  <2>4. PICK p \in Int, q \in Int : p = v.cur /\ q = v.sum
    BY WalkIsOf, Zenon
  <2>5. PICK x \in Int, y \in Int : x = 2 * p + b - c /\ y = q + c
    <3>1. 2 * p + b - c \in Int /\ q + c \in Int
      BY SMT
    <3>. QED
      BY <3>1, Zenon
  <2>6. PICK e : e = E(i, v)
    BY Zenon
  <2>7. e = [cur |-> x, sum |-> y]
    BY <2>3, <2>4, <2>5, <2>6, Zenon
  <2>. QED
    <3>1. e \in Walks
      BY <2>7, SMT DEF Walks
    <3>. QED
      BY <2>6, <3>1, Zenon
<1>4. DecodeSymbol(tree, bits)
        = LET ends == {n \in 1 .. 15 : w[n].cur < 0}
          IN  IF ends = {} THEN [symbol |-> -1, used |-> 16]
              ELSE [symbol |-> tree.trans[w[Min(ends)].sum + w[Min(ends)].cur + 1], used |-> Min(ends)]
  BY Zenon DEF DecodeSymbol
<1>5. \A g : Rounds(g) = [i \in 0 .. 15 |-> IF i = 0 THEN [cur |-> 0, sum |-> 0] ELSE E(i, g[i - 1])]
  BY Zenon
<1> HIDE DEF E, Rounds
<1>6. \A i \in 1 .. 15 : i \in Nat /\ i # 0 /\ i \in 0 .. 15
  BY <1>1, SMT
<1>7. \A i \in 1 .. 15 : \A v \in Walks : next[i][v] = E(i, v) /\ next[i][v] \in Walks
  BY <1>3, <1>6, Zenon
<1>8. \A i \in Nat : \A v \in Walks : next[i][v] \in Walks
  BY <1>3, Zenon
<1> HIDE DEF next
<1>9. PICK f : IsUpTo(Walks, [cur |-> 0, sum |-> 0], next, 15, f)
  BY <1>1, <1>2, <1>8, UpToExists, Zenon
<1>10. /\ f \in [0 .. 15 -> Walks] /\ f[0] = [cur |-> 0, sum |-> 0]
       /\ \A i \in 1 .. 15 : f[i] = next[i][f[i - 1]]
  BY <1>9, Zenon DEF IsUpTo
<1>11. \A i \in 1 .. 15 : i - 1 \in 0 .. 15
  BY <1>1, SMT
<1>12. \A i \in 0 .. 15 : i = 0 \/ i \in 1 .. 15
  BY <1>1, SMT
<1>13. \A i \in 0 .. 15 : f[i] = IF i = 0 THEN [cur |-> 0, sum |-> 0] ELSE E(i, f[i - 1])
  BY <1>7, <1>10, <1>11, <1>12, Zenon
<1>14. f = Rounds(f)
  BY <1>5, <1>10, <1>13, Zenon
<1>15. w = Rounds(w)
  BY <1>14, Zenon
<1> HIDE DEF w
<1>16. 0 \in 0 .. 15
  BY <1>1, SMT
<1>17. /\ w = [i \in 0 .. 15 |-> w[i]] /\ w[0] = [cur |-> 0, sum |-> 0]
       /\ \A i \in 1 .. 15 : w[i] = E(i, w[i - 1])
  BY <1>5, <1>6, <1>15, <1>16, Zenon
<1>18. \A i \in 1 .. 15 : w[i - 1] \in Walks => w[i] = next[i][w[i - 1]]
  BY <1>7, <1>17, Zenon
<1>19. \A i \in 1 .. 15 : \A v \in Walks : next[i][v] \in Walks
  BY <1>7, Zenon
<1>20. IsUpTo(Walks, [cur |-> 0, sum |-> 0], next, 15, w)
  BY <1>1, <1>2, <1>17, <1>18, <1>19, FunctionUpTo, Zenon
<1>21. w \in [0 .. 15 -> Walks]
  BY <1>20, Zenon DEF IsUpTo
<1>22. w[0].cur = 0 /\ w[0].sum = 0
  <2>1. 0 \in Int
    BY SMT
  <2>. QED
    BY <1>17, <2>1, WalkOf, SMTT(20)
<1>23. ASSUME NEW n \in 1 .. 15
       PROVE  /\ w[n].cur = 2 * w[n - 1].cur + BitAt(bits, n) - tree.table[n]
              /\ w[n].sum = w[n - 1].sum + tree.table[n]
  <2>1. PICK p, c, b : p = w[n - 1] /\ c = tree.table[n] /\ b = BitAt(bits, n)
    BY Zenon
  <2>2. w[n] = [cur |-> 2 * p.cur + b - c, sum |-> p.sum + c]
    BY <1>17, <2>1, Zenon DEF E, DecodeStep, BitAt
  <2>3. w[n].cur = 2 * p.cur + b - c /\ w[n].sum = p.sum + c
    <3>1. PICK x, y : x = 2 * p.cur + b - c /\ y = p.sum + c
      BY Zenon
    <3>2. w[n] = [cur |-> x, sum |-> y]
      BY <2>2, <3>1, Zenon
    <3>3. PICK r : r = w[n]
      BY Zenon
    <3>4. r = [cur |-> x, sum |-> y]
      BY <3>2, <3>3, Zenon
    <3>5. r.cur = x /\ r.sum = y
      BY <3>4, SMT
    <3>. QED
      BY <3>1, <3>3, <3>5, Zenon
  <2>. QED
    BY <2>1, <2>3, Zenon
<1>24. ASSUME NEW L \in 1 .. 15, w[L].cur < 0, \A n \in 1 .. L - 1 : w[n].cur >= 0
       PROVE  DecodeSymbol(tree, bits) = [symbol |-> tree.trans[w[L].sum + w[L].cur + 1], used |-> L]
  <2> DEFINE ends == {n \in 1 .. 15 : w[n].cur < 0}
  <2>1. \A n \in 0 .. 15 : w[n].cur \in Int
    BY <1>21, WalkIsOf, Zenon
  <2>2. L \in ends
    BY <1>24, Zenon
  <2>3. \A n \in ends : L <= n
    <3> SUFFICES ASSUME NEW n \in 1 .. 15, w[n].cur < 0, ~ (L <= n) PROVE FALSE
      BY Zenon
    <3>1. n \in 1 .. L - 1 /\ n \in 0 .. 15
      BY SMT
    <3>2. w[n].cur >= 0 /\ w[n].cur \in Int
      BY <1>24, <2>1, <3>1, Zenon
    <3>. QED
      BY <3>2, SMT
  <2>4. \A n \in ends : n \in Nat
    <3>1. \A n \in 1 .. 15 : n \in Nat
      BY SMT
    <3>. QED
      BY <3>1, Zenon
  <2>5. ends # {} /\ DecodeSymbol(tree, bits)
                       = IF ends = {} THEN [symbol |-> -1, used |-> 16]
                         ELSE [symbol |-> tree.trans[w[Min(ends)].sum + w[Min(ends)].cur + 1], used |-> Min(ends)]
    BY <1>4, <2>2, Zenon
  <2> HIDE DEF ends
  <2>6. Min(ends) = L
    <3>1. Min(ends) \in ends /\ \A n \in ends : Min(ends) <= n
      BY <2>2, <2>3, Zenon DEF Min
    <3>2. Min(ends) \in Nat /\ L \in Nat /\ Min(ends) <= L /\ L <= Min(ends)
      BY <2>2, <2>3, <2>4, <3>1, Zenon
    <3>. QED
      BY <3>2, SMT
  <2>. QED
    BY <2>5, <2>6, Zenon
<1>. QED
  BY <1>21, <1>22, <1>23, <1>24, Zenon

(* A word of a code is decoded to its symbol, and no more is read than the *)
(* word, whatever follows it.  Until its last bit the word is beyond all   *)
(* the words of the length that was read.                                  *)
LEMMA WordIsDecoded ==
  ASSUME NEW lengths \in Codes, NEW tree, IsTree(lengths, tree), NEW s \in Used(lengths),
         FirstOfLength(lengths)[lengths[s]] + HowMany(lengths, lengths[s]) <= PowerOf2[lengths[s]],
         NEW bits \in Seq(0 .. 1), lengths[s] <= Len(bits),
         \A i \in 1 .. lengths[s] : bits[i] = Word(lengths, s)[i]
  PROVE  DecodeSymbol(tree, bits) = [symbol |-> s, used |-> lengths[s]]
<1>1. PICK L \in 1 .. 15 : L = lengths[s]
  BY RankIs, Zenon
<1>2. PICK F, P : F = FirstOfLength(lengths) /\ P = PowerOf2
  BY Zenon
<1>3. PICK c, m : c = [n \in 0 .. 15 |-> HowMany(lengths, n)] /\ m = [n \in 0 .. 15 |-> NoLonger(lengths, n)]
  BY Zenon
<1>4. /\ L \in 0 .. 15 /\ L \in 1 .. L /\ 0 \in 0 .. L /\ L \in 0 .. L /\ 0 \in 0 .. 15 /\ L \in Nat
      /\ \A n \in 0 .. L : n \in 0 .. 15 /\ n \in Nat
      /\ \A n \in 1 .. L : n \in 1 .. 15 /\ n \in 0 .. L /\ n - 1 \in 0 .. L
  BY SMT
<1>5. \A n \in 1 .. 15 : n \in 0 .. 15 /\ n - 1 \in 0 .. 15
  BY SMT
<1>6. /\ c \in [0 .. 15 -> Nat] /\ c[0] = 0
      /\ m \in [0 .. 15 -> Nat] /\ m[0] = 0
      /\ \A n \in 1 .. 15 : m[n] = m[n - 1] + c[n]
  BY <1>3, <1>4, <1>5, CountedUp, Zenon
<1>7. /\ F \in [0 .. 15 -> Nat] /\ F[0] = 0 /\ \A n \in 1 .. 15 : F[n] = 2 * (F[n - 1] + c[n - 1])
      /\ P \in [0 .. 15 -> Nat] /\ P[0] = 1 /\ \A n \in 1 .. 15 : P[n] = 2 * P[n - 1]
  BY <1>2, <1>3, <1>5, FirstWordsAre, PowersAre, Zenon
<1>8. F[L] + c[L] <= P[L]
  BY <1>1, <1>2, <1>3, <1>4, Zenon
<1>9. PICK r \in Nat : r = Earlier(lengths, s) /\ r < c[L] /\ Rank(lengths, s) = m[L - 1] + r + 1
  BY <1>1, <1>3, <1>4, <1>5, RankIs, Zenon
<1>10. PICK h : /\ h \in [0 .. L -> Nat] /\ h[0] = Value(lengths, s)
                /\ \A k \in 1 .. L : h[k] = h[k - 1] \div 2
                /\ Word(lengths, s) = [i \in 1 .. L |-> h[L - i] % 2]
  BY <1>1, WordIs, SMTT(20)
<1>11. PICK v : v = [n \in 0 .. L |-> h[L - n]]
  BY Zenon
<1>12. v \in [0 .. L -> Nat] /\ v[L] = F[L] + r
  <2>1. (\A n \in 0 .. L : L - n \in 0 .. L) /\ L - L = 0
    BY <1>4, SMT
  <2>2. h[0] = F[L] + r
    BY <1>1, <1>2, <1>9, <1>10, ValueIs, Zenon
  <2>. QED
    BY <1>4, <1>10, <1>11, <2>1, <2>2, Zenon
<1>13. ASSUME NEW n \in 1 .. L PROVE v[n] = 2 * v[n - 1] + bits[n] /\ bits[n] \in 0 .. 1
  <2>1. PICK k : k = L - n
    BY Zenon
  <2>2. k \in 0 .. L /\ k + 1 \in 1 .. L /\ L - (n - 1) = k + 1 /\ (k + 1) - 1 = k
    BY <1>4, <2>1, SMT
  <2>3. PICK x \in Nat : x = h[k]
    BY <1>10, <2>2, Zenon
  <2>4. v[n] = x /\ v[n - 1] = h[k + 1] /\ h[k + 1] = x \div 2
    BY <1>4, <1>10, <1>11, <2>1, <2>2, <2>3, Zenon
  <2>5. bits[n] = x % 2
    BY <1>1, <1>10, <2>1, <2>3, Zenon
  <2>6. x = 2 * (x \div 2) + (x % 2) /\ x % 2 \in 0 .. 1
    BY SMT
  <2>. QED
    BY <2>4, <2>5, <2>6, Zenon
<1> DEFINE S == {k \in 0 .. L : F[L - k] <= v[L - k] /\ v[L - k] < P[L - k]}
<1>14. 0 \in S
  <2>1. L - 0 = L
    BY <1>4, SMT
  <2>2. PICK x \in Nat, y \in Nat, z \in Nat : x = F[L] /\ y = c[L] /\ z = P[L]
    BY <1>4, <1>6, <1>7, Zenon
  <2>3. x <= x + r /\ x + r < z
    BY <1>8, <1>9, <2>2, SMT
  <2>. QED
    BY <1>4, <1>12, <2>1, <2>2, <2>3, Zenon
<1>15. ASSUME NEW n \in 1 .. L, F[n] <= v[n], v[n] < P[n]
       PROVE  F[n - 1] + c[n - 1] <= v[n - 1] /\ F[n - 1] <= v[n - 1] /\ v[n - 1] < P[n - 1]
  <2>1. n \in 1 .. 15 /\ n \in 0 .. L /\ n - 1 \in 0 .. L /\ n - 1 \in 0 .. 15
    BY <1>4, <1>5, Zenon
  <2>2. PICK f \in Nat, x \in Nat, y \in Nat, p \in Nat, b \in 0 .. 1 :
          f = F[n - 1] /\ x = v[n - 1] /\ y = c[n - 1] /\ p = P[n - 1] /\ b = bits[n]
    BY <1>6, <1>7, <1>12, <1>13, <2>1, Zenon
  <2>3. 2 * (f + y) <= 2 * x + b /\ 2 * x + b < 2 * p
    <3>1. F[n] = 2 * (f + y) /\ v[n] = 2 * x + b /\ P[n] = 2 * p
      BY <1>7, <1>13, <2>1, <2>2, Zenon
    <3>. QED
      BY <1>15, <3>1, Zenon
  <2>4. f + y <= x /\ f <= x /\ x < p
    BY <2>3, SMT
  <2>. QED
    BY <2>2, <2>4, Zenon
<1>16. 0 .. L \subseteq S
  <2>1. ASSUME NEW k \in 1 .. L, k - 1 \in S PROVE k \in S
    <3>1. PICK n : n = L - (k - 1)
      BY Zenon
    <3>2. n \in 1 .. L /\ L - k = n - 1 /\ k \in 0 .. L
      BY <1>4, <3>1, SMT
    <3>3. F[n] <= v[n] /\ v[n] < P[n]
      BY <2>1, <3>1, Zenon
    <3>4. F[n - 1] <= v[n - 1] /\ v[n - 1] < P[n - 1]
      BY <1>15, <3>2, <3>3, Zenon
    <3>. QED
      BY <3>2, <3>4, Zenon
  <2> HIDE DEF S
  <2>. QED
    BY <1>4, <1>14, <2>1, InductionUpTo, Zenon
<1>17. \A n \in 0 .. L : F[n] <= v[n] /\ v[n] < P[n]
  <2> SUFFICES ASSUME NEW n \in 0 .. L PROVE F[n] <= v[n] /\ v[n] < P[n]
    OBVIOUS
  <2>1. PICK k : k = L - n
    BY Zenon
  <2>2. k \in 0 .. L /\ L - k = n
    BY <1>4, <2>1, SMT
  <2>3. k \in S
    BY <1>16, <2>2, Zenon
  <2>. QED
    BY <2>2, <2>3, Zenon
<1>18. v[0] = 0
  <2>1. PICK x \in Nat : x = v[0]
    BY <1>4, <1>12, Zenon
  <2>2. x < 1
    BY <1>4, <1>7, <1>17, <2>1, Zenon
  <2>. QED
    BY <2>1, <2>2, SMT
<1>19. \A n \in 1 .. 15 : tree.table[n] = c[n] /\ tree.table[n] \in Nat
  BY <1>3, <1>5, <1>6, Zenon DEF IsTree
<1>20. PICK w :
         /\ w \in [0 .. 15 -> Walks] /\ w[0].cur = 0 /\ w[0].sum = 0
         /\ \A n \in 1 .. 15 : /\ w[n].cur = 2 * w[n - 1].cur + BitAt(bits, n) - tree.table[n]
                               /\ w[n].sum = w[n - 1].sum + tree.table[n]
         /\ \A l \in 1 .. 15 :
              w[l].cur < 0 /\ (\A n \in 1 .. l - 1 : w[n].cur >= 0) =>
                DecodeSymbol(tree, bits) = [symbol |-> tree.trans[w[l].sum + w[l].cur + 1], used |-> l]
  BY <1>19, DecodingIs, SMTT(30)
<1>21. \A n \in 1 .. L : BitAt(bits, n) = bits[n]
  <2>1. Len(bits) \in Nat
    BY LenProperties, Zenon
  <2>2. \A n \in 1 .. L : n <= Len(bits)
    BY <1>1, <1>4, <2>1, SMT
  <2>. QED
    BY <2>2, Zenon DEF BitAt
<1> DEFINE T == {n \in 0 .. L : w[n].cur = v[n] - (F[n] + c[n]) /\ w[n].sum = m[n]}
<1>22. 0 \in T
  <2>1. 0 - (0 + 0) = 0
    BY SMT
  <2>. QED
    BY <1>4, <1>6, <1>7, <1>18, <1>20, <2>1, Zenon
<1>23. ASSUME NEW n \in 1 .. L, n - 1 \in T PROVE n \in T
  <2>1. n \in 1 .. 15 /\ n \in 0 .. L /\ n - 1 \in 0 .. L /\ n - 1 \in 0 .. 15 /\ n \in 0 .. 15
    BY <1>4, <1>5, Zenon
  <2>2. PICK f \in Nat, x \in Nat, y \in Nat, z \in Nat, b \in 0 .. 1 :
          f = F[n - 1] /\ x = v[n - 1] /\ y = c[n - 1] /\ z = c[n] /\ b = bits[n]
    BY <1>6, <1>7, <1>12, <1>13, <2>1, Zenon
  <2>3. w[n].cur = 2 * (x - (f + y)) + b - z
    BY <1>19, <1>20, <1>21, <1>23, <2>1, <2>2, Zenon
  <2>4. v[n] - (F[n] + c[n]) = (2 * x + b) - (2 * (f + y) + z)
    BY <1>7, <1>13, <2>1, <2>2, Zenon
  <2>5. 2 * (x - (f + y)) + b - z = (2 * x + b) - (2 * (f + y) + z)
    BY SMT
  <2>6. w[n].sum = m[n]
    BY <1>6, <1>19, <1>20, <1>23, <2>1, Zenon
  <2>. QED
    BY <2>1, <2>3, <2>4, <2>5, <2>6, Zenon
<1>24. \A n \in 0 .. L : w[n].cur = v[n] - (F[n] + c[n]) /\ w[n].sum = m[n]
  <2>1. 0 .. L \subseteq T
    <3> HIDE DEF T
    <3>. QED
      BY <1>4, <1>22, <1>23, InductionUpTo, Zenon
  <2>. QED
    BY <2>1, Zenon
<1>25. PICK x \in Nat, y \in Nat, z \in Nat : x = F[L] /\ y = c[L] /\ z = m[L - 1]
  BY <1>4, <1>5, <1>6, <1>7, Zenon
<1>26. w[L].cur < 0 /\ w[L].sum + w[L].cur + 1 = Rank(lengths, s)
  <2>1. w[L].cur = (x + r) - (x + y) /\ w[L].sum = z + y
    BY <1>4, <1>6, <1>12, <1>24, <1>25, Zenon
  <2>2. r < y /\ Rank(lengths, s) = z + r + 1
    BY <1>9, <1>25, Zenon
  <2>3. (x + r) - (x + y) < 0 /\ (z + y) + ((x + r) - (x + y)) + 1 = z + r + 1
    BY <2>2, SMT
  <2>. QED
    BY <2>1, <2>2, <2>3, Zenon
<1>27. ASSUME NEW n \in 1 .. L - 1 PROVE w[n].cur >= 0
  <2>1. PICK k : k = n + 1
    BY Zenon
  <2>2. k \in 1 .. L /\ k - 1 = n /\ n \in 0 .. L /\ k \in 0 .. L /\ n \in 0 .. 15
    BY <2>1, <1>4, SMT
  <2>3. F[n] + c[n] <= v[n]
    BY <1>15, <1>17, <2>2, Zenon
  <2>4. PICK f \in Nat, p \in Nat, q \in Nat : f = F[n] /\ p = c[n] /\ q = v[n]
    BY <1>6, <1>7, <1>12, <2>2, Zenon
  <2>5. w[n].cur = q - (f + p) /\ f + p <= q
    BY <1>24, <2>2, <2>3, <2>4, Zenon
  <2>. QED
    BY <2>5, SMT
<1>28. DecodeSymbol(tree, bits) = [symbol |-> tree.trans[Rank(lengths, s)], used |-> L]
  BY <1>20, <1>26, <1>27, Zenon
<1>. QED
  BY <1>1, <1>28, Zenon DEF IsTree

(* How many numbers are from a to b.                                       *)
LEMMA CountFromTo ==
  ASSUME NEW a \in Nat, NEW b \in Nat, a <= b + 1
  PROVE  IsFiniteSet(a .. b) /\ Cardinality(a .. b) = b + 1 - a
<1>1. a \in Int /\ b \in Int
  BY SMT
<1>2. IsFiniteSet(a .. b) /\ Cardinality(a .. b) = IF a > b THEN 0 ELSE b - a + 1
  BY <1>1, FS_Interval, Zenon
<1>. QED
  BY <1>2, SMT

(* A function on the first numbers is a sequence.                          *)
LEMMA IsInitialSeq ==
  ASSUME NEW S, NEW n \in Nat, NEW f \in [1 .. n -> S]
  PROVE  f \in Seq(S) /\ Len(f) = n
  BY SMT

(* The fixed code has words of three lengths, ...                          *)
LEMMA FixedCodeIs ==
  /\ FixedLengths \in Codes /\ DOMAIN FixedLengths = 1 .. 288 /\ Used(FixedLengths) = 1 .. 288
  /\ \A s \in 1 .. 288 :
       FixedLengths[s] = IF s <= 144 THEN 8 ELSE IF s <= 256 THEN 9 ELSE IF s <= 280 THEN 7 ELSE 8
<1>1. PICK l : l = FixedLengths
  BY Zenon
<1>2. l = [s \in 1 .. 288 |-> IF s <= 144 THEN 8 ELSE IF s <= 256 THEN 9 ELSE IF s <= 280 THEN 7 ELSE 8]
  BY <1>1, Zenon DEF FixedLengths
<1>3. /\ DOMAIN l = 1 .. 288
      /\ \A s \in 1 .. 288 : l[s] = IF s <= 144 THEN 8 ELSE IF s <= 256 THEN 9 ELSE IF s <= 280 THEN 7 ELSE 8
  BY <1>2, Zenon
<1>4. \A s \in 1 .. 288 : l[s] \in 0 .. 15 /\ l[s] > 0
  BY <1>3, SMT
<1>5. l \in [1 .. 288 -> 0 .. 15]
  <2>1. l = [s \in 1 .. 288 |-> l[s]]
    BY <1>2, SMT
  <2>. QED
    BY <1>4, <2>1, SMT
<1>6. l \in Seq(0 .. 15)
  <2>1. PICK n \in Nat : n = 288
    BY SMT
  <2>2. l \in [1 .. n -> 0 .. 15]
    BY <1>5, <2>1, SMT
  <2>. QED
    BY <2>2, IsInitialSeq, Zenon
<1>7. Used(l) = 1 .. 288
  BY <1>3, <1>4, Zenon DEF Used
<1>. QED
  BY <1>1, <1>3, <1>6, <1>7, Zenon DEF Codes

(* ... so many of each, ...                                                *)
LEMMA FixedCountIs ==
  \A n \in 1 .. 15 :
    HowMany(FixedLengths, n) = IF n = 7 THEN 24 ELSE IF n = 8 THEN 152 ELSE IF n = 9 THEN 112 ELSE 0
<1> DEFINE T(n) == {s \in 1 .. 288 : FixedLengths[s] = n}
<1>1. \A n \in 1 .. 15 : HowMany(FixedLengths, n) = Cardinality(T(n))
  <2>1. \A n \in 1 .. 15 : n # 0
    BY SMT
  <2>. QED
    BY <2>1, FixedCodeIs, Zenon DEF HowMany
<1>2. \A s \in 1 .. 288 :
        FixedLengths[s] = IF s <= 144 THEN 8 ELSE IF s <= 256 THEN 9 ELSE IF s <= 280 THEN 7 ELSE 8
  BY FixedCodeIs, Zenon
<1> HIDE DEF T
<1>3. Cardinality(T(7)) = 24
  <2>1. T(7) = 257 .. 280
    BY <1>2, SMT DEF T
  <2>2. PICK p \in Nat, q \in Nat : p = 257 /\ q = 280
    BY SMT
  <2>3. T(7) = p .. q
    BY <2>1, <2>2, SMT
  <2>4. PICK k : k = Cardinality(T(7))
    BY Zenon
  <2>5. p <= q + 1
    BY <2>2, SMT
  <2>6. k = q + 1 - p
    BY <2>3, <2>4, <2>5, CountFromTo, Zenon
  <2>7. k = 24
    BY <2>2, <2>6, SMT
  <2>. QED
    BY <2>4, <2>7, SMT
<1>4. Cardinality(T(9)) = 112
  <2>1. T(9) = 145 .. 256
    BY <1>2, SMT DEF T
  <2>2. PICK p \in Nat, q \in Nat : p = 145 /\ q = 256
    BY SMT
  <2>3. T(9) = p .. q
    BY <2>1, <2>2, SMT
  <2>4. PICK k : k = Cardinality(T(9))
    BY Zenon
  <2>5. p <= q + 1
    BY <2>2, SMT
  <2>6. k = q + 1 - p
    BY <2>3, <2>4, <2>5, CountFromTo, Zenon
  <2>7. k = 112
    BY <2>2, <2>6, SMT
  <2>. QED
    BY <2>4, <2>7, SMT
<1>5. Cardinality(T(8)) = 152
  <2>1. PICK p \in Nat, q \in Nat, u \in Nat, v \in Nat :
          p = 1 /\ q = 144 /\ u = 281 /\ v = 288
    BY SMT
  <2>2. T(8) = (1 .. 144) \cup (281 .. 288)
    BY <1>2, SMT DEF T
  <2>3. T(8) = (p .. q) \cup (u .. v) /\ (p .. q) \cap (u .. v) = {}
    BY <2>1, <2>2, SMT
  <2>4. p <= q + 1 /\ u <= v + 1
    BY <2>1, SMT
  <2>5. /\ IsFiniteSet(p .. q) /\ Cardinality(p .. q) = q + 1 - p
        /\ IsFiniteSet(u .. v) /\ Cardinality(u .. v) = v + 1 - u
    BY <2>4, CountFromTo, Zenon
  <2>6. PICK k : k = Cardinality(T(8))
    BY Zenon
  <2>7. k = (q + 1 - p) + (v + 1 - u)
    BY <2>3, <2>5, <2>6, CountBoth, Zenon
  <2>8. k = 152
    BY <2>1, <2>7, SMT
  <2>. QED
    BY <2>6, <2>8, SMT
<1>6. ASSUME NEW n \in 1 .. 15, n # 7, n # 8, n # 9 PROVE Cardinality(T(n)) = 0
  <2>1. T(n) = {}
    BY <1>2, <1>6, SMT DEF T
  <2>. QED
    BY <2>1, FS_EmptySet, Zenon
<1>. QED
  <2> SUFFICES ASSUME NEW n \in 1 .. 15
               PROVE  Cardinality(T(n)) = IF n = 7 THEN 24 ELSE IF n = 8 THEN 152 ELSE IF n = 9 THEN 112 ELSE 0
    BY <1>1, SMT
  <2>1. n = 7 \/ n = 8 \/ n = 9 \/ (n # 7 /\ n # 8 /\ n # 9)
    OBVIOUS
  <2>2. 7 # 8 /\ 8 # 9 /\ 7 # 9
    BY SMT
  <2>3. PICK k : k = Cardinality(T(n))
    BY Zenon
  <2>4. (n = 7 => k = 24) /\ (n = 8 => k = 152) /\ (n = 9 => k = 112) /\ (n # 7 /\ n # 8 /\ n # 9 => k = 0)
    BY <1>3, <1>4, <1>5, <1>6, <2>3, Zenon
  <2>5. k = IF n = 7 THEN 24 ELSE IF n = 8 THEN 152 ELSE IF n = 9 THEN 112 ELSE 0
    BY <2>4, SMT
  <2>. QED
    BY <2>3, <2>5, Zenon

(* ... and fits its lengths, the last one with none to spare.              *)
LEMMA FixedCodeFits ==
  /\ NoLonger(FixedLengths, 6) = 0 /\ NoLonger(FixedLengths, 7) = 24 /\ NoLonger(FixedLengths, 8) = 176
  /\ \A n \in 7 .. 9 : FirstOfLength(FixedLengths)[n] + HowMany(FixedLengths, n) <= PowerOf2[n]
<1>1. PICK F, P : F = FirstOfLength(FixedLengths) /\ P = PowerOf2
  BY Zenon
<1>2. PICK c, m :
        c = [n \in 0 .. 15 |-> HowMany(FixedLengths, n)] /\ m = [n \in 0 .. 15 |-> NoLonger(FixedLengths, n)]
  BY Zenon
<1>3. \A n \in 1 .. 15 : n \in 0 .. 15 /\ n - 1 \in 0 .. 15
  BY SMT
<1>4. c[0] = 0 /\ \A n \in 1 .. 15 : c[n] = IF n = 7 THEN 24 ELSE IF n = 8 THEN 152 ELSE IF n = 9 THEN 112 ELSE 0
  <2>1. 0 \in 0 .. 15
    BY SMT
  <2>. QED
    BY <1>2, <1>3, <2>1, FixedCodeIs, FixedCountIs, CountedUp, Zenon
<1>5. m[0] = 0 /\ \A n \in 1 .. 15 : m[n] = m[n - 1] + c[n]
  <2>1. 0 \in 0 .. 15
    BY SMT
  <2>. QED
    BY <1>2, <1>3, <2>1, FixedCodeIs, CountedUp, Zenon
<1>6. /\ F[0] = 0 /\ \A n \in 1 .. 15 : F[n] = 2 * (F[n - 1] + c[n - 1])
      /\ P[0] = 1 /\ \A n \in 1 .. 15 : P[n] = 2 * P[n - 1]
  BY <1>1, <1>2, <1>3, FixedCodeIs, FirstWordsAre, PowersAre, Zenon
<1>7. c[1] = 0 /\ c[2] = 0 /\ c[3] = 0 /\ c[4] = 0 /\ c[5] = 0 /\ c[6] = 0 /\ c[7] = 24 /\ c[8] = 152 /\ c[9] = 112
  BY <1>4, SMT
<1>8. m[1] = 0 /\ m[2] = 0 /\ m[3] = 0 /\ m[4] = 0 /\ m[5] = 0 /\ m[6] = 0 /\ m[7] = 24 /\ m[8] = 176
  <2>1. /\ m[1] = m[0] + c[1] /\ m[2] = m[1] + c[2] /\ m[3] = m[2] + c[3] /\ m[4] = m[3] + c[4]
        /\ m[5] = m[4] + c[5] /\ m[6] = m[5] + c[6] /\ m[7] = m[6] + c[7] /\ m[8] = m[7] + c[8]
    BY <1>5, SMT
  <2>. QED
    BY <1>5, <1>7, <2>1, SMT
<1>9. F[6] = 0 /\ P[6] = 64
  <2>1. /\ F[1] = 2 * (F[0] + c[0]) /\ F[2] = 2 * (F[1] + c[1]) /\ F[3] = 2 * (F[2] + c[2])
        /\ F[4] = 2 * (F[3] + c[3]) /\ F[5] = 2 * (F[4] + c[4]) /\ F[6] = 2 * (F[5] + c[5])
    BY <1>6, SMT
  <2>2. /\ P[1] = 2 * P[0] /\ P[2] = 2 * P[1] /\ P[3] = 2 * P[2] /\ P[4] = 2 * P[3] /\ P[5] = 2 * P[4]
        /\ P[6] = 2 * P[5]
    BY <1>6, SMT
  <2>3. F[6] = 0
    BY <1>4, <1>6, <1>7, <2>1, SMT
  <2>4. P[6] = 64
    BY <1>6, <2>2, SMT
  <2>. QED
    BY <2>3, <2>4
<1>10. F[7] = 0 /\ F[8] = 48 /\ F[9] = 400 /\ P[7] = 128 /\ P[8] = 256 /\ P[9] = 512
  <2>1. /\ F[7] = 2 * (F[6] + c[6]) /\ F[8] = 2 * (F[7] + c[7]) /\ F[9] = 2 * (F[8] + c[8])
        /\ P[7] = 2 * P[6] /\ P[8] = 2 * P[7] /\ P[9] = 2 * P[8]
    BY <1>6, SMT
  <2>. QED
    BY <1>7, <1>9, <2>1, SMT
<1>11. ASSUME NEW n \in 7 .. 9 PROVE F[n] + c[n] <= P[n]
  <2>1. n = 7 \/ n = 8 \/ n = 9
    BY SMT
  <2>. QED
    BY <1>7, <1>10, <2>1, SMT
<1>12. \A n \in 6 .. 9 : n \in 0 .. 15
  BY SMT
<1>13. 6 \in 6 .. 9 /\ 7 \in 6 .. 9 /\ 8 \in 6 .. 9 /\ \A n \in 7 .. 9 : n \in 6 .. 9
  BY SMT
<1>. QED
  BY <1>1, <1>2, <1>8, <1>11, <1>12, <1>13, Zenon

(* The fixed tree is the one of its code.                                  *)
LEMMA FixedTreeIs ==
  IsTree(FixedLengths, FixedTree)
<1>1. PICK table, trans :
        /\ table = [n \in 1 .. 15 |-> IF n = 7 THEN 24 ELSE IF n = 8 THEN 152 ELSE IF n = 9 THEN 112 ELSE 0]
        /\ trans = [i \in 1 .. 288 |->
                      IF i <= 24 THEN 256 + i
                      ELSE IF i <= 24 + 144 THEN i - 24
                      ELSE IF i <= 24 + 144 + 8 THEN 280 + (i - 168)
                      ELSE 144 + (i - 176)]
  BY Zenon
<1>2. PICK tree : tree = FixedTree
  BY Zenon
<1>3. tree = [table |-> table, trans |-> trans]
  BY <1>1, <1>2, Zenon DEF FixedTree
<1>4. tree.table = table /\ tree.trans = trans
  BY <1>3, SMT
<1>5. \A n \in 1 .. 15 : table[n] = HowMany(FixedLengths, n)
  BY <1>1, FixedCountIs, Zenon
<1>6. ASSUME NEW s \in 1 .. 288 PROVE trans[Rank(FixedLengths, s)] = s
  <2> DEFINE T == {t \in 1 .. 288 : FixedLengths[t] = FixedLengths[s] /\ t < s}
  <2>1. s \in Used(FixedLengths) /\ FixedLengths \in Codes /\ Earlier(FixedLengths, s) = Cardinality(T)
    BY FixedCodeIs, Zenon DEF Earlier
  <2>2. PICK a, b : a = NoLonger(FixedLengths, FixedLengths[s] - 1) /\ b = Cardinality(T)
    BY Zenon
  <2>3. PICK k : k = Rank(FixedLengths, s) /\ k = a + b + 1
    <3>1. Rank(FixedLengths, s) = a + b + 1
      BY <2>1, <2>2, RankIs, Zenon
    <3>. QED
      BY <3>1, Zenon
  <2>4. \A t \in 1 .. 288 :
          FixedLengths[t] = IF t <= 144 THEN 8 ELSE IF t <= 256 THEN 9 ELSE IF t <= 280 THEN 7 ELSE 8
    BY FixedCodeIs, Zenon
  <2>5. CASE s <= 144
    <3>1. FixedLengths[s] = 8
      BY <2>4, <2>5, SMT
    <3>2. T = 1 .. s - 1
      BY <2>4, <2>5, <3>1, SMT
    <3>3. s - 1 \in Nat /\ 1 \in Nat /\ 1 <= (s - 1) + 1
      BY <2>5, SMT
    <3>4. b = (s - 1) + 1 - 1
      BY <2>2, <3>2, <3>3, CountFromTo, Zenon
    <3>5. FixedLengths[s] - 1 = 7
      BY <3>1, SMT
    <3>6. a = 24
      BY <2>2, <3>5, FixedCodeFits, Zenon
    <3>7. k = 24 + s
      BY <2>3, <2>5, <3>4, <3>6, SMT
    <3>8. trans[k] = s
      BY <1>1, <2>5, <3>7, SMT
    <3>. QED
      BY <2>3, <3>8, Zenon
  <2>6. CASE s \in 145 .. 256
    <3>1. FixedLengths[s] = 9
      BY <2>4, <2>6, SMT
    <3>2. T = 145 .. s - 1
      BY <2>4, <2>6, <3>1, SMT
    <3>3. s - 1 \in Nat /\ 145 \in Nat /\ 145 <= (s - 1) + 1
      BY <2>6, SMT
    <3>4. b = (s - 1) + 1 - 145
      BY <2>2, <3>2, <3>3, CountFromTo, Zenon
    <3>5. FixedLengths[s] - 1 = 8
      BY <3>1, SMT
    <3>6. a = 176
      BY <2>2, <3>5, FixedCodeFits, Zenon
    <3>7. k = 176 + (s - 144)
      BY <2>3, <2>6, <3>4, <3>6, SMT
    <3>8. trans[k] = s
      BY <1>1, <2>6, <3>7, SMT
    <3>. QED
      BY <2>3, <3>8, Zenon
  <2>7. CASE s \in 257 .. 280
    <3>1. FixedLengths[s] = 7
      BY <2>4, <2>7, SMT
    <3>2. T = 257 .. s - 1
      BY <2>4, <2>7, <3>1, SMT
    <3>3. s - 1 \in Nat /\ 257 \in Nat /\ 257 <= (s - 1) + 1
      BY <2>7, SMT
    <3>4. b = (s - 1) + 1 - 257
      BY <2>2, <3>2, <3>3, CountFromTo, Zenon
    <3>5. FixedLengths[s] - 1 = 6
      BY <3>1, SMT
    <3>6. a = 0
      BY <2>2, <3>5, FixedCodeFits, Zenon
    <3>7. k = s - 256
      BY <2>3, <2>7, <3>4, <3>6, SMT
    <3>8. trans[k] = s
      BY <1>1, <2>7, <3>7, SMT
    <3>. QED
      BY <2>3, <3>8, Zenon
  <2>8. CASE s \in 281 .. 288
    <3>1. FixedLengths[s] = 8
      BY <2>4, <2>8, SMT
    <3>2. PICK p \in Nat, q \in Nat, u \in Nat, v \in Nat :
            p = 1 /\ q = 144 /\ u = 281 /\ v = s - 1
      BY <2>8, SMT
    <3>3. T = (1 .. 144) \cup (281 .. s - 1)
      BY <2>4, <2>8, <3>1, SMT
    <3>4. T = (p .. q) \cup (u .. v) /\ (p .. q) \cap (u .. v) = {}
      <4> HIDE DEF T
      <4>. QED
        BY <3>2, <3>3, SMT
    <3>5. p <= q + 1 /\ u <= v + 1
      BY <2>8, <3>2, SMT
    <3>6. b = (q + 1 - p) + (v + 1 - u)
      <4>1. /\ IsFiniteSet(p .. q) /\ Cardinality(p .. q) = q + 1 - p
            /\ IsFiniteSet(u .. v) /\ Cardinality(u .. v) = v + 1 - u
        BY <3>5, CountFromTo, Zenon
      <4>2. (p .. q) \cap (u .. v) = {}
        BY <3>4, Zenon
      <4>3. Cardinality((p .. q) \cup (u .. v)) = (q + 1 - p) + (v + 1 - u)
        <5>1. Cardinality((p .. q) \cup (u .. v)) = Cardinality(p .. q) + Cardinality(u .. v)
          BY <4>1, <4>2, CountBoth, Zenon
        <5>. QED
          BY <4>1, <5>1, Zenon
      <4> HIDE DEF T
      <4>. QED
        BY <2>2, <3>4, <4>3, Zenon
    <3>7. b = 144 + (s - 281)
      BY <3>2, <3>6, SMT
    <3>8. FixedLengths[s] - 1 = 7
      BY <3>1, SMT
    <3>9. a = 24
      BY <2>2, <3>8, FixedCodeFits, Zenon
    <3>10. k = 168 + (s - 280)
      BY <2>3, <2>8, <3>7, <3>9, SMT
    <3>11. trans[k] = s
      BY <1>1, <2>8, <3>10, SMT
    <3>. QED
      BY <2>3, <3>11, Zenon
  <2>. QED
    BY <2>5, <2>6, <2>7, <2>8, SMT
<1>7. Used(FixedLengths) = 1 .. 288
  BY FixedCodeIs, Zenon
<1>. QED
  BY <1>2, <1>4, <1>5, <1>6, <1>7, Zenon DEF IsTree

(* A word is bits, as many as its length says; ...                         *)
LEMMA WordIsBits ==
  ASSUME NEW lengths \in Codes, NEW s \in Used(lengths)
  PROVE  Word(lengths, s) \in Seq(0 .. 1) /\ Len(Word(lengths, s)) = lengths[s]
<1>1. PICK L \in 1 .. 15 : L = lengths[s]
  BY RankIs, Zenon
<1>2. PICK h, word :
        /\ h \in [0 .. L -> Nat]
        /\ word = Word(lengths, s) /\ word = [i \in 1 .. L |-> h[L - i] % 2]
  BY <1>1, WordIs, Zenon
<1>3. ASSUME NEW i \in 1 .. L PROVE h[L - i] % 2 \in 0 .. 1
  <2>1. L - i \in 0 .. L
    BY SMT
  <2>2. h[L - i] \in Nat
    BY <1>2, <2>1, Zenon
  <2>. QED
    BY <2>2, SMT
<1>4. word \in [1 .. L -> 0 .. 1]
  BY <1>2, <1>3, Zenon
<1>5. L \in Nat
  BY SMT
<1>6. word \in Seq(0 .. 1) /\ Len(word) = L
  BY <1>4, <1>5, IsInitialSeq, Zenon
<1>. QED
  BY <1>1, <1>2, <1>6, Zenon

(* ... with more behind it, it comes first.                                *)
LEMMA WordIsFirst ==
  ASSUME NEW lengths \in Codes, NEW s \in Used(lengths), NEW rest \in Seq(0 .. 1)
  PROVE  \E bits \in Seq(0 .. 1) :
           /\ bits = Word(lengths, s) \o rest /\ lengths[s] <= Len(bits)
           /\ \A i \in 1 .. lengths[s] : bits[i] = Word(lengths, s)[i]
<1>1. PICK L \in 1 .. 15 : L = lengths[s]
  BY RankIs, Zenon
<1>2. PICK word, bits, k : word = Word(lengths, s) /\ bits = word \o rest /\ k = Len(rest)
  BY Zenon
<1>3. word \in Seq(0 .. 1) /\ Len(word) = L
  BY <1>1, <1>2, WordIsBits, Zenon
<1>4. /\ bits \in Seq(0 .. 1) /\ Len(bits) = L + k /\ k \in Nat
      /\ \A i \in 1 .. L + k : bits[i] = IF i <= L THEN word[i] ELSE rest[i - L]
  BY <1>2, <1>3, ConcatProperties, LenProperties, Zenon
<1>5. L <= L + k /\ \A i \in 1 .. L : i \in 1 .. L + k /\ i <= L
  BY <1>4, SMT
<1>6. \A i \in 1 .. L : bits[i] = word[i]
  BY <1>4, <1>5, Zenon
<1>7. L <= Len(bits)
  BY <1>4, <1>5, Zenon
<1>. QED
  BY <1>1, <1>2, <1>4, <1>6, <1>7, Zenon

(* Every word of any code that its lengths allow is decoded to its symbol  *)
(* and taken as a whole, whatever bits follow and however many             *)
(* (tinflate.c:143-187, 375-400).                                          *)
THEOREM AnyCodeIsDecoded ==
  \A lengths \in Codes : IsPrefixCode(lengths) =>
    \A s \in Used(lengths) : \A rest \in Seq(0 .. 1) :
      DecodeSymbol(BuildTree(lengths), Word(lengths, s) \o rest) = [symbol |-> s, used |-> lengths[s]]
<1> SUFFICES ASSUME NEW lengths \in Codes, IsPrefixCode(lengths), NEW s \in Used(lengths), NEW rest \in Seq(0 .. 1)
             PROVE  DecodeSymbol(BuildTree(lengths), Word(lengths, s) \o rest)
                      = [symbol |-> s, used |-> lengths[s]]
  BY Zenon
<1>1. PICK bits \in Seq(0 .. 1) :
        /\ bits = Word(lengths, s) \o rest /\ lengths[s] <= Len(bits)
        /\ \A i \in 1 .. lengths[s] : bits[i] = Word(lengths, s)[i]
  BY WordIsFirst, Zenon
<1>2. PICK tree : tree = BuildTree(lengths) /\ IsTree(lengths, tree)
  BY TreeIsBuilt, Zenon
<1>3. lengths[s] \in 1 .. 15
  BY RankIs, Zenon
<1>4. FirstOfLength(lengths)[lengths[s]] + HowMany(lengths, lengths[s]) <= PowerOf2[lengths[s]]
  BY <1>3, Zenon DEF IsPrefixCode
<1>5. DecodeSymbol(tree, bits) = [symbol |-> s, used |-> lengths[s]]
  BY <1>1, <1>2, <1>4, WordIsDecoded, Zenon
<1>. QED
  BY <1>1, <1>2, <1>5, Zenon

(* The words of the fixed code have 7, 8 or 9 bits.                        *)
LEMMA FixedWordsAre ==
  DOMAIN FixedLengths = Used(FixedLengths) /\ \A s \in Used(FixedLengths) : FixedLengths[s] \in 7 .. 9
<1>1. PICK l, U, D : l = FixedLengths /\ U = Used(l) /\ D = DOMAIN l
  BY Zenon
<1>2. U = 1 .. 288 /\ D = 1 .. 288
  BY <1>1, FixedCodeIs, Zenon
<1>3. \A s \in 1 .. 288 : l[s] = IF s <= 144 THEN 8 ELSE IF s <= 256 THEN 9 ELSE IF s <= 280 THEN 7 ELSE 8
  BY <1>1, FixedCodeIs, Zenon
<1>4. D = U /\ \A s \in U : l[s] \in 7 .. 9
  BY <1>2, <1>3, SMT
<1>. QED
  BY <1>1, <1>4, Zenon

(* And so is every word of the fixed code, all 288 of them, by the tables  *)
(* that are built for it (tinflate.c:126-141).                             *)
THEOREM FixedCodeIsDecoded ==
  \A s \in DOMAIN FixedLengths : \A rest \in Seq(0 .. 1) :
    DecodeSymbol(FixedTree, Word(FixedLengths, s) \o rest) = [symbol |-> s, used |-> FixedLengths[s]]
<1>1. PICK lengths, tree : lengths = FixedLengths /\ tree = FixedTree
  BY Zenon
<1>2. lengths \in Codes /\ IsTree(lengths, tree) /\ DOMAIN lengths = Used(lengths)
  BY <1>1, FixedCodeIs, FixedTreeIs, FixedWordsAre, Zenon
<1>3. ASSUME NEW s \in Used(lengths), NEW rest \in Seq(0 .. 1)
      PROVE  DecodeSymbol(tree, Word(lengths, s) \o rest) = [symbol |-> s, used |-> lengths[s]]
  <2>1. PICK bits \in Seq(0 .. 1) :
          /\ bits = Word(lengths, s) \o rest /\ lengths[s] <= Len(bits)
          /\ \A i \in 1 .. lengths[s] : bits[i] = Word(lengths, s)[i]
    BY <1>2, WordIsFirst, Zenon
  <2>2. lengths[s] \in 7 .. 9
    BY <1>1, FixedWordsAre, Zenon
  <2>3. FirstOfLength(lengths)[lengths[s]] + HowMany(lengths, lengths[s]) <= PowerOf2[lengths[s]]
    BY <1>1, <2>2, FixedCodeFits, Zenon
  <2>4. DecodeSymbol(tree, bits) = [symbol |-> s, used |-> lengths[s]]
    BY <1>2, <2>1, <2>3, WordIsDecoded, Zenon
  <2>. QED
    BY <2>1, <2>4, Zenon
<1>. QED
  BY <1>1, <1>2, <1>3, Zenon

-----------------------------------------------------------------------------
(* An item adds lengths to a code.                                         *)
LEMMA LengthRepeated ==
  ASSUME NEW l \in Codes, NEW n \in Nat, NEW v \in 0 .. 15
  PROVE  l \o [i \in 1 .. n |-> v] \in Codes
<1>1. PICK f : f = [i \in 1 .. n |-> v]
  BY Zenon
<1>2. f \in [1 .. n -> 0 .. 15]
  BY <1>1, Zenon
<1>3. f \in Seq(0 .. 15)
  BY <1>2, IsInitialSeq, Zenon
<1>. QED
  BY <1>1, <1>3, ConcatProperties, Zenon DEF Codes

(* So what any item adds to is a code still.                               *)
LEMMA WithItemIs ==
  ASSUME NEW l \in Codes, NEW item \in Items
  PROVE  WithItem(l, item) \in Codes
<1>1. PICK a, n : a = item[1] /\ n = item[2] /\ a \in 0 .. 18 /\ n \in Nat
  <2>1. item \in (0 .. 18) \X (Nat \ {0})
    BY InflateAssumption, Zenon
  <2>2. item[1] \in 0 .. 18 /\ item[2] \in Nat
    BY <2>1, SMT
  <2>. QED
    BY <2>2, Zenon
<1>2. CASE a < 16
  <2>1. a \in 0 .. 15
    BY <1>1, <1>2, SMT
  <2>2. Append(l, a) \in Seq(0 .. 15)
    BY <2>1, AppendProperties, Zenon DEF Codes
  <2>. QED
    BY <1>1, <1>2, <2>2, Zenon DEF WithItem, Codes
<1>3. CASE ~ (a < 16) /\ a > 16
  <2>1. 0 \in 0 .. 15
    BY SMT
  <2>. QED
    BY <1>1, <1>3, <2>1, LengthRepeated, Zenon DEF WithItem
<1>4. CASE ~ (a < 16) /\ ~ (a > 16) /\ l = <<>>
  BY <1>1, <1>4, Zenon DEF WithItem
<1>5. CASE ~ (a < 16) /\ ~ (a > 16) /\ l # <<>>
  <2>1. Len(l) \in Nat /\ DOMAIN l = 1 .. Len(l)
    BY CodeIs, Zenon
  <2>2. Len(l) # 0
    BY <1>5, EmptySeq, Zenon DEF Codes
  <2>3. Len(l) \in DOMAIN l
    BY <2>1, <2>2, SMT
  <2>4. Last(l) \in 0 .. 15
    BY <2>3, CodeIs, Zenon DEF Last
  <2>. QED
    BY <1>1, <1>5, <2>4, LengthRepeated, Zenon DEF WithItem
<1>. QED
  BY <1>2, <1>3, <1>4, <1>5, Zenon

(* So items describe a code.                                               *)
LEMMA DecodedLengthsAre ==
  ASSUME NEW items \in Seq(Items), NEW limit
  PROVE  DecodedLengths(items, limit) \in Codes
<1> DEFINE E(i, v) == WithItem(v, items[i])
           Rounds(g) ==
             [i \in 0 .. Len(items) |->
                IF i = 0 THEN <<>>
                ELSE WithItem(g[i - 1], items[i])]
           w == CHOOSE g : g = Rounds(g)
           next == [i \in Nat |-> [v \in Codes |-> IF i \in 1 .. Len(items) THEN E(i, v) ELSE v]]
<1>1. Len(items) \in Nat
  BY LenProperties, Zenon
<1>2. <<>> \in Codes
  BY EmptySeq, Zenon DEF Codes
<1>3. ASSUME NEW i \in 1 .. Len(items), NEW v \in Codes PROVE E(i, v) \in Codes
  <2>1. items[i] \in Items
    BY LenProperties, Zenon
  <2>. QED
    BY <2>1, WithItemIs, Zenon
<1>4. DecodedLengths(items, limit)
        = LET decoded == w[Len(items)]
              wrong == (items # <<>> /\ items[1][1] = 16) \/ Len(decoded) > limit
          IN  IF wrong THEN <<>> ELSE decoded
  BY Zenon DEF DecodedLengths
<1>5. \A g : Rounds(g) = [i \in 0 .. Len(items) |-> IF i = 0 THEN <<>> ELSE E(i, g[i - 1])]
  BY Zenon
<1> HIDE DEF E, Rounds
<1>6. \A i \in 1 .. Len(items) : i \in Nat /\ i # 0 /\ i \in 0 .. Len(items)
  BY <1>1, SMT
<1>7. \A i \in 1 .. Len(items) : \A v \in Codes : next[i][v] = E(i, v) /\ next[i][v] \in Codes
  BY <1>3, <1>6, Zenon
<1>8. \A i \in Nat : \A v \in Codes : next[i][v] \in Codes
  BY <1>3, Zenon
<1> HIDE DEF next
<1>9. PICK f : IsUpTo(Codes, <<>>, next, Len(items), f)
  BY <1>1, <1>2, <1>8, UpToExists, Zenon
<1>10. /\ f \in [0 .. Len(items) -> Codes] /\ f[0] = <<>>
       /\ \A i \in 1 .. Len(items) : f[i] = next[i][f[i - 1]]
  BY <1>9, Zenon DEF IsUpTo
<1>11. \A i \in 1 .. Len(items) : i - 1 \in 0 .. Len(items)
  BY <1>1, SMT
<1>12. \A i \in 0 .. Len(items) : i = 0 \/ i \in 1 .. Len(items)
  BY <1>1, SMT
<1>13. \A i \in 0 .. Len(items) : f[i] = IF i = 0 THEN <<>> ELSE E(i, f[i - 1])
  BY <1>7, <1>10, <1>11, <1>12, Zenon
<1>14. f = Rounds(f)
  BY <1>5, <1>10, <1>13, Zenon
<1>15. w = Rounds(w)
  BY <1>14, Zenon
<1> HIDE DEF w
<1>16. 0 \in 0 .. Len(items)
  BY <1>1, SMT
<1>17. /\ w = [i \in 0 .. Len(items) |-> w[i]] /\ w[0] = <<>>
       /\ \A i \in 1 .. Len(items) : w[i] = E(i, w[i - 1])
  BY <1>5, <1>6, <1>15, <1>16, Zenon
<1>18. \A i \in 1 .. Len(items) : w[i - 1] \in Codes => w[i] = next[i][w[i - 1]]
  BY <1>7, <1>17, Zenon
<1>19. \A i \in 1 .. Len(items) : \A v \in Codes : next[i][v] \in Codes
  BY <1>7, Zenon
<1>20. IsUpTo(Codes, <<>>, next, Len(items), w)
  BY <1>1, <1>2, <1>17, <1>18, <1>19, FunctionUpTo, Zenon
<1>21. w \in [0 .. Len(items) -> Codes]
  BY <1>20, Zenon DEF IsUpTo
<1>22. Len(items) \in 0 .. Len(items)
  BY <1>1, SMT
<1>. QED
  BY <1>2, <1>4, <1>21, <1>22, Zenon

(* A code that is chosen is one, and it is kept.                           *)
LEMMA CodeChosen ==
  ASSUME ChooseCode
  PROVE  code' \in Codes
<1>1. CASE code' = FixedLengths
  BY <1>1, FixedCodeIs, Zenon
<1>2. CASE \E items \in UpTo(Alphabet, Items) : code' = DecodedLengths(items, Alphabet)
  <2>1. PICK items \in UpTo(Alphabet, Items) : code' = DecodedLengths(items, Alphabet)
    BY <1>2, Zenon
  <2>2. PICK n \in 0 .. Alphabet : items \in [1 .. n -> Items]
    BY <2>1, Zenon DEF UpTo
  <2>3. n \in Nat
    BY InflateAssumption, SMT
  <2>4. items \in Seq(Items)
    BY <2>2, <2>3, IsInitialSeq, Zenon
  <2>. QED
    BY <2>1, <2>4, DecodedLengthsAre, Zenon
<1>. QED
  BY <1>1, <1>2, Zenon DEF ChooseCode

(* It is always one.                                                       *)
LEMMA CodeAlwaysKept == GraphicsSpec => [](code \in Codes)
<1>1. GraphicsInit => code \in Codes
  BY EmptySeq, Zenon DEF GraphicsInit, InflateInit, NoCode, Codes
<1>2. code \in Codes /\ [GraphicsNext]_graphicsVars => (code \in Codes)'
  <2> SUFFICES ASSUME code \in Codes, [GraphicsNext]_graphicsVars PROVE code' \in Codes
    BY Zenon
  <2>1. ChooseCode \/ code' = code
    BY Zenon DEF GraphicsNext, graphicsVars, inflateVars, Download, TakeScreenshot, ReadBitmap, DrawOnce, TakeText,
                 UseFonts, UseInflate, InflateNext, AddBlock, OpenReader, ReadAtMost
  <2>. QED
    BY <2>1, CodeChosen, Zenon
<1>. QED
  BY <1>1, <1>2, PTL DEF GraphicsSpec

(* So every word of every code that a block describes, and of the one that *)
(* all know, is always decoded to its symbol and taken as a whole          *)
(* (tinflate.c:126-187, 278-400).                                          *)
THEOREM EveryWordIsAlwaysDecoded == GraphicsSpec => []EveryWordIsDecoded
<1>1. code \in Codes => EveryWordIsDecoded
  <2> SUFFICES ASSUME code \in Codes PROVE EveryWordIsDecoded
    BY Zenon
  <2>1. ASSUME NEW s \in Used(code), NEW next \in 0 .. 1
        PROVE  <<next>> \in Seq(0 .. 1) /\ Append(Word(code, s), next) = Word(code, s) \o <<next>>
    <3>1. <<next>> \in Seq(0 .. 1)
      BY SMT
    <3>2. Append(Word(code, s), next) = Word(code, s) \o <<next>>
      BY AppendIsConcat, WordIsBits, Zenon
    <3>. QED
      BY <3>1, <3>2, Zenon
  <2>2. CASE code = FixedLengths
    <3>1. PICK some : some = {1, 144, 145, 256, 257, 280, 281, 288}
      BY Zenon
    <3>2. DOMAIN code = 1 .. 288
      BY <2>2, FixedCodeIs, Zenon
    <3>3. \A s \in some : s \in DOMAIN code
      BY <3>1, <3>2, SMT
    <3>4. ASSUME NEW s \in some, NEW next \in 0 .. 1
          PROVE  DecodeSymbol(FixedTree, Append(Word(code, s), next)) = [symbol |-> s, used |-> code[s]]
      <4>1. s \in DOMAIN FixedLengths /\ s \in Used(code)
        BY <2>2, <3>3, FixedWordsAre, Zenon
      <4>2. <<next>> \in Seq(0 .. 1) /\ Append(Word(code, s), next) = Word(code, s) \o <<next>>
        BY <2>1, <4>1, Zenon
      <4>3. DecodeSymbol(FixedTree, Word(code, s) \o <<next>>) = [symbol |-> s, used |-> code[s]]
        BY <2>2, <4>1, <4>2, FixedCodeIsDecoded, Zenon
      <4>. QED
        BY <4>2, <4>3, Zenon
    <3>. QED
      BY <2>2, <3>1, <3>4, SMT DEF EveryWordIsDecoded
  <2>3. CASE code # FixedLengths
    <3>1. ASSUME IsPrefixCode(code), NEW s \in Used(code), NEW next \in 0 .. 1
          PROVE  DecodeSymbol(BuildTree(code), Append(Word(code, s), next)) = [symbol |-> s, used |-> code[s]]
      <4>1. <<next>> \in Seq(0 .. 1) /\ Append(Word(code, s), next) = Word(code, s) \o <<next>>
        BY <2>1, Zenon
      <4>2. DecodeSymbol(BuildTree(code), Word(code, s) \o <<next>>) = [symbol |-> s, used |-> code[s]]
        BY <3>1, <4>1, AnyCodeIsDecoded, Zenon
      <4>. QED
        BY <4>1, <4>2, Zenon
    <3>. QED
      BY <2>3, <3>1, Zenon DEF EveryWordIsDecoded, Used
  <2>. QED
    BY <2>2, <2>3, Zenon
<1>. QED
  BY <1>1, CodeAlwaysKept, PTL
=============================================================================
