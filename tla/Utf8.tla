-------------------------------- MODULE Utf8 --------------------------------
(***************************************************************************)
(* Text as bytes (lib/Utf8/Utf8.cpp).  A text is a sequence of bytes other *)
(* than 0; behind its last byte the code reads the 0 that ends a C string. *)
(***************************************************************************)
EXTENDS Naturals, Sequences, SequencesExt

CONSTANTS
  Leads, Tails,     \* the bytes the texts are made of: the first, the others
  Codepoints,       \* the characters the valid texts are made of
  MaxChars          \* bound on the characters of a valid text

ASSUME BytesAssumption == Leads \cup Tails \subseteq 1 .. 255

ASSUME Utf8Assumption ==
  /\ \A cp \in Codepoints : cp \in Nat \ {0} /\ cp <= 1114111 /\ cp \notin 55296 .. 57343
  /\ MaxChars \in Nat

VARIABLE bytes    \* a text that is decoded or cut; none yet

NoText == [op |-> "none"]

-----------------------------------------------------------------------------
ReplacementGlyph == 65533

CodepointLen(c) ==
  IF c < 128 THEN 1
  ELSE IF c \div 32 = 6 THEN 2
  ELSE IF c \div 16 = 14 THEN 3
  ELSE IF c \div 8 = 30 THEN 4
  ELSE 1

IsContinuation(c) == c \div 64 = 2
ByteAt(s, i) == IF i <= Len(s) THEN s[i] ELSE 0

\* A slip to test against: the overlong forms of three bytes are taken.
Slip_IsRefused(cp, n) ==
  (n = 2 /\ cp < 128) \/ (n = 4 /\ cp < 65536) \/ cp \in 55296 .. 57343 \/ cp > 1114111

(* Overlong forms, surrogates and what is beyond U+10FFFF.                 *)
IsRefused(cp, n) ==
  \/ n = 2 /\ cp < 128
  \/ n = 3 /\ cp < 2048
  \/ n = 4 /\ cp < 65536
  \/ cp \in 55296 .. 57343
  \/ cp > 1114111

(* utf8NextCodepoint(): the code point at the start of a text, 0 at its    *)
(* end, and how many bytes were passed.                                    *)
NextCodepoint(s) ==
  LET n == CodepointLen(s[1])
      missing == {i \in 2 .. n : ~ IsContinuation(ByteAt(s, i))}
      low(i) == s[i] % 64
      cp == IF n = 2 THEN (s[1] % 32) * 64 + low(2)
            ELSE IF n = 3 THEN ((s[1] % 16) * 64 + low(2)) * 64 + low(3)
            ELSE (((s[1] % 8) * 64 + low(2)) * 64 + low(3)) * 64 + low(4)
      skip(used) == [cp |-> ReplacementGlyph, used |-> used]
  IN  IF s = <<>> THEN [cp |-> 0, used |-> 0]
      ELSE IF n = 1 THEN IF s[1] < 128 THEN [cp |-> s[1], used |-> 1] ELSE skip(1)
      ELSE IF missing # {} THEN skip((CHOOSE i \in missing : \A j \in missing : i <= j) - 1)
      ELSE IF IsRefused(cp, n) THEN skip(1)
      ELSE [cp |-> cp, used |-> n]

(* Where the loops that walk back over continuation bytes stop.            *)
LastLead(s) ==
  CHOOSE p \in 1 .. Len(s) : /\ p = 1 \/ ~ IsContinuation(s[p])
                             /\ \A q \in p + 1 .. Len(s) : IsContinuation(s[q])

\* A slip to test against: the cut is put behind the byte that starts it.
Slip_SafeTruncateBuffer(s) ==
  IF s # <<>> /\ Len(s) - LastLead(s) < CodepointLen(s[LastLead(s)]) /\ LastLead(s) > 1
    THEN SubSeq(s, 1, LastLead(s) - 1) ELSE s

(* What is left of a buffer.  An incomplete character stays where it is    *)
(* the only one.                                                           *)
SafeTruncateBuffer(s) ==
  IF s # <<>> /\ Len(s) - LastLead(s) + 1 < CodepointLen(s[LastLead(s)]) /\ LastLead(s) > 1
    THEN SubSeq(s, 1, LastLead(s) - 1) ELSE s

RemoveLastChar(s) == IF s = <<>> THEN s ELSE SubSeq(s, 1, LastLead(s) - 1)

TruncateChars(s, n) ==
  LET cut[i \in 0 .. n] == IF i = 0 THEN s ELSE RemoveLastChar(cut[i - 1])
  IN  cut[n]

-----------------------------------------------------------------------------
BytesOf(set, n) == UNION {[1 .. k -> set] : k \in 0 .. n}

Utf8Init == bytes = NoText

ReadText ==
  /\ bytes = NoText
  /\ \/ \E lead \in Leads, rest \in BytesOf(Tails, 3) : bytes' = [op |-> "decode", text |-> <<lead>> \o rest]
     \/ \E chars \in BytesOf(Codepoints, MaxChars), n \in 1 .. 4 * MaxChars :
          bytes' = [op |-> "cut", chars |-> chars, at |-> n]

-----------------------------------------------------------------------------
(* The one encoding of a character.                                        *)
Encode(cp) ==
  IF cp < 128 THEN <<cp>>
  ELSE IF cp < 2048 THEN <<192 + (cp \div 64), 128 + (cp % 64)>>
  ELSE IF cp < 65536 THEN <<224 + (cp \div 4096), 128 + ((cp \div 64) % 64), 128 + (cp % 64)>>
  ELSE <<240 + ((cp \div 4096) \div 64), 128 + ((cp \div 4096) % 64), 128 + ((cp \div 64) % 64), 128 + (cp % 64)>>

Encoded(chars) == FlattenSeq([i \in 1 .. Len(chars) |-> Encode(chars[i])])

(* Decoding always goes on and never passes the end of the text; what it   *)
(* takes for a character are the bytes of exactly that character, and all  *)
(* other bytes show as the replacement (Utf8.cpp:11-57).                   *)
OnlyEncodingsAreDecoded ==
  bytes.op = "decode" =>
    LET next == NextCodepoint(bytes.text)
    IN  /\ next.used \in 1 .. Len(bytes.text)
        /\ \/ next.cp = ReplacementGlyph
           \/ SubSeq(bytes.text, 1, next.used) = Encode(next.cp)

(* A valid text is decoded to its characters, cut in whole characters from *)
(* its end, and a buffer that ends within a later character is cut back to *)
(* the end of the one before (Utf8.cpp:59-94).                             *)
TextIsCutBetweenCharacters ==
  bytes.op = "cut" =>
    LET text == Encoded(bytes.chars)
        upto(k) == Encoded(SubSeq(bytes.chars, 1, k))
        whole == {k \in 0 .. Len(bytes.chars) : Len(upto(k)) <= bytes.at}
        last == CHOOSE k \in whole : \A j \in whole : j <= k
    IN  /\ text # <<>> => NextCodepoint(text) = [cp |-> bytes.chars[1], used |-> Len(Encode(bytes.chars[1]))]
        /\ TruncateChars(text, bytes.at) =
             upto(IF bytes.at < Len(bytes.chars) THEN Len(bytes.chars) - bytes.at ELSE 0)
        /\ (last > 0 /\ bytes.at <= Len(text)) =>
             SafeTruncateBuffer(SubSeq(text, 1, bytes.at)) = upto(last)
=============================================================================
