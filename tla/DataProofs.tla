----------------------------- MODULE DataProofs -----------------------------
(***************************************************************************)
(* What Codecs and Inbox compute, for every SDP and every message.  The    *)
(* definitions of Codecs are recursive functions over the lines: that each *)
(* has a value (Recursion), and what it is after each line, is shown by    *)
(* induction (Induction), which the well-foundedness of < yields.          *)
(***************************************************************************)
EXTENDS MCData, SequenceTheorems, WellFoundedInduction, TLAPS

----------------------------------------------------------------------------
(* Induction and recursion up to a bound.                                  *)

LEMMA Less == \A x, y \in Nat : x < y => <<x, y>> \in OpToRel(<, Nat)
<1> SUFFICES ASSUME NEW x \in Nat, NEW y \in Nat, x < y PROVE <<x, y>> \in OpToRel(<, Nat)
  OBVIOUS
<1>1. <<x, y>> \in Nat \X Nat /\ <<x, y>>[1] < <<x, y>>[2]
  OBVIOUS
<1>2. QED
  BY <1>1, Zenon DEF OpToRel

\* A least number outside S would follow one inside it.
LEMMA Induction ==
  ASSUME NEW N \in Nat, NEW S, 0 \in S, \A n \in 0 .. N - 1 : n \in S => n + 1 \in S
  PROVE  \A n \in 0 .. N : n \in S
<1> SUFFICES ASSUME ~(0 .. N \subseteq S) PROVE FALSE
  OBVIOUS
<1> DEFINE Outside == (0 .. N) \ S
<1>1. Outside \subseteq Nat /\ Outside # {}
  OBVIOUS
<1> HIDE DEF Outside
<1>2. PICK x \in Outside : \A y \in Outside : ~(<<y, x>> \in OpToRel(<, Nat))
  BY <1>1, WFMin, NatLessThanWellFounded, Zenon
<1>3. \A y \in Outside : ~(y < x)
  BY <1>1, <1>2, Less, Zenon
<1>4. QED
  BY <1>3 DEF Outside

\* f is what a loop of N rounds computes, from base, each round by its step.
Computes(f, N, V, base, step) ==
  /\ f \in [0 .. N -> V] /\ f[0] = base
  /\ \A i \in 1 .. N : f[i] = step[i][f[i - 1]]

\* Every loop computes something.
LEMMA Recursion ==
  ASSUME NEW N \in Nat, NEW V, NEW base \in V, NEW step \in [1 .. N -> [V -> V]]
  PROVE  \E f : Computes(f, N, V, base, step)
<1> DEFINE Upto(n, f) == f \in [0 .. n -> V] /\ f[0] = base /\ \A i \in 1 .. n : f[i] = step[i][f[i - 1]]
           S == {n \in 0 .. N : \E f : Upto(n, f)}
<1>1. 0 \in S
  <2>1. Upto(0, [i \in 0 .. 0 |-> base])
    OBVIOUS
  <2> HIDE DEF Upto
  <2>2. QED
    BY <2>1
<1>2. ASSUME NEW n \in 0 .. N - 1, n \in S PROVE n + 1 \in S
  <2> HIDE DEF Upto
  <2>1. PICK f : Upto(n, f)
    BY <1>2
  <2> DEFINE g == [i \in 0 .. n + 1 |-> IF i = n + 1 THEN step[n + 1][f[n]] ELSE f[i]]
  <2>2. f \in [0 .. n -> V] /\ f[0] = base /\ \A i \in 1 .. n : f[i] = step[i][f[i - 1]]
    BY <2>1 DEF Upto
  <2>3. step[n + 1] \in [V -> V] /\ f[n] \in V
    BY <2>2
  <2>4. g \in [0 .. n + 1 -> V] /\ g[0] = base
    BY <2>2, <2>3
  <2>5. \A i \in 1 .. n + 1 : g[i] = step[i][g[i - 1]]
    BY <2>2
  <2>6. Upto(n + 1, g)
    BY <2>4, <2>5 DEF Upto
  <2>7. QED
    BY <2>6
<1>3. PICK f : Upto(N, f)
  <2> HIDE DEF S
  <2>1. \A n \in 0 .. N : n \in S
    BY <1>1, <1>2, Induction, Zenon
  <2>2. N \in S
    BY <2>1
  <2> HIDE DEF Upto
  <2>3. QED
    BY <2>2 DEF S
<1>4. QED
  BY <1>3 DEF Computes

----------------------------------------------------------------------------
(* What a loop appends.                                                    *)

LEMMA AppendingFacts ==
  ASSUME NEW E, NEW parts, Len(parts) \in Nat, \A i \in 1 .. Len(parts) : parts[i] \in Seq(E)
  PROVE  /\ Appending(parts) \in [0 .. Len(parts) -> Seq(E)]
         /\ Appending(parts)[0] = <<>>
         /\ \A i \in 1 .. Len(parts) : Appending(parts)[i] = Appending(parts)[i - 1] \o parts[i]
<1> DEFINE N == Len(parts)
           step == [i \in 1 .. N |-> [s \in Seq(E) |-> s \o parts[i]]]
           Is(f) == f = [i \in 0 .. N |-> IF i = 0 THEN <<>> ELSE f[i - 1] \o parts[i]]
<1>1. N \in Nat /\ <<>> \in Seq(E) /\ \A i \in 1 .. N : i - 1 \in 0 .. N
  OBVIOUS
<1>2. step \in [1 .. N -> [Seq(E) -> Seq(E)]]
  <2>1. ASSUME NEW i \in 1 .. N, NEW s \in Seq(E) PROVE s \o parts[i] \in Seq(E)
    BY ConcatProperties
  <2>2. QED
    BY <2>1
<1>3. PICK f : Computes(f, N, Seq(E), <<>>, step)
  <2> HIDE DEF step, N
  <2>1. QED
    BY <1>1, <1>2, Recursion, Zenon
<1>4. \A i \in 1 .. N : f[i] = f[i - 1] \o parts[i]
  <2> TAKE i \in 1 .. N
  <2>1. f[i - 1] \in Seq(E)
    BY <1>1, <1>3 DEF Computes
  <2>2. f[i] = step[i][f[i - 1]]
    BY <1>3 DEF Computes
  <2>3. QED
    BY <2>1, <2>2
<1>5. Is(f)
  <2> HIDE DEF N, step
  <2>1. f[0] = <<>> /\ f = [i \in 0 .. N |-> f[i]]
    BY <1>3 DEF Computes
  <2>2. \A i \in 0 .. N : i # 0 => i \in 1 .. N
    BY <1>1
  <2>3. \A i \in 0 .. N : f[i] = IF i = 0 THEN <<>> ELSE f[i - 1] \o parts[i]
    BY <1>4, <2>1, <2>2, Zenon
  <2>4. QED
    BY <2>1, <2>3
<1>6. Is(CHOOSE g : Is(g))
  <2> HIDE DEF Is
  <2>1. QED
    BY <1>5
<1>7. Is(Appending(parts))
  BY <1>6 DEF Appending
<1> DEFINE a == Appending(parts)
<1>8. a[0] = <<>> /\ \A i \in 1 .. N : a[i] = a[i - 1] \o parts[i] 
  <2> HIDE DEF a, N
  <2>1. a = [i \in 0 .. N |-> IF i = 0 THEN <<>> ELSE a[i - 1] \o parts[i]]
    BY <1>7 DEF a
  <2>2. \A i \in 0 .. N : a[i] = IF i = 0 THEN <<>> ELSE a[i - 1] \o parts[i]
    BY <2>1, Zenon
  <2>3. 0 \in 0 .. N /\ \A i \in 1 .. N : i \in 0 .. N /\ i # 0
    BY <1>1
  <2>4. QED
    BY <2>2, <2>3, Zenon
<1>9. \A i \in 0 .. N : a[i] \in Seq(E)
  <2> HIDE DEF a, N
  <2> DEFINE S == {i \in 0 .. N : a[i] \in Seq(E)}
  <2>1. 0 \in S
    <3>1. a[0] \in Seq(E)
      BY <1>1, <1>8, Zenon
    <3>2. 0 \in 0 .. N
      BY <1>1
    <3>3. QED
      BY <3>1, <3>2
  <2>2. ASSUME NEW i \in 0 .. N - 1, i \in S PROVE i + 1 \in S
    <3>1. i + 1 \in 1 .. N /\ i + 1 - 1 = i /\ i + 1 \in 0 .. N
      BY <1>1
    <3>2. a[i + 1] = a[i] \o parts[i + 1] /\ parts[i + 1] \in Seq(E)
      <4> DEFINE k == i + 1
      <4>1. k \in 1 .. N /\ k - 1 = i
        BY <3>1
      <4> HIDE DEF k
      <4>2. a[k] = a[k - 1] \o parts[k]
        BY <1>8, <4>1, Zenon
      <4>3. parts[k] \in Seq(E)
        BY <4>1, Zenon DEF N
      <4>4. QED
        BY <4>1, <4>2, <4>3 DEF k
    <3>3. a[i] \in Seq(E)
      BY <2>2
    <3>4. a[i] \o parts[i + 1] \in Seq(E)
      BY <3>2, <3>3, ConcatProperties, Zenon
    <3>5. QED
      BY <3>1, <3>2, <3>4
  <2> HIDE DEF S
  <2>3. \A i \in 0 .. N : i \in S
    BY <1>1, <2>1, <2>2, Induction, Zenon
  <2>4. QED
    BY <2>3 DEF S
<1>10. a \in [0 .. N -> Seq(E)]
  <2> HIDE DEF a, N
  <2>1. a = [i \in 0 .. N |-> a[i]]
    <3>1. a = [i \in 0 .. N |-> IF i = 0 THEN <<>> ELSE a[i - 1] \o parts[i]]
      BY <1>7 DEF a
    <3>2. QED
      BY <3>1
  <2>2. QED
    BY <1>9, <2>1
<1>11. QED
  BY <1>8, <1>10

LEMMA AllOfType ==
  ASSUME NEW E, NEW parts, Len(parts) \in Nat, \A i \in 1 .. Len(parts) : parts[i] \in Seq(E)
  PROVE  AllOf(parts) \in Seq(E)
<1>1. Appending(parts) \in [0 .. Len(parts) -> Seq(E)]
  BY AppendingFacts, Zenon
<1>2. Len(parts) \in 0 .. Len(parts)
  OBVIOUS
<1>3. QED
  BY <1>1, <1>2 DEF AllOf

LEMMA One == ASSUME NEW S, NEW x \in S PROVE <<x>> \in Seq(S)
OBVIOUS

LEMMA None == ASSUME NEW S PROVE <<>> \in Seq(S)
OBVIOUS

\* The strings: the provers do not know that a literal is one, so those that
\* Codecs and MCData write are named.
Text == STRING \cup {"", "video", "audio", "pcmu", "pcma",
                     "application", "h264", "opus", "mpeg4-generic"}

\* Every SDP is a sequence of these, see MediaLine, Rtpmap and OtherLine.
SdpLine == [kind : {"m", "rtpmap", "other"}, media : Text, types : Seq(Nat), name : Text]

LEMMA StaticNamesType ==
  ASSUME NEW types, Len(types) \in Nat
  PROVE  StaticNames(types) \in Seq(Text)
<1> DEFINE parts == [i \in 1 .. Len(types) |-> StaticName(types[i])]
<1>1. Len(parts) = Len(types)
  OBVIOUS
<1>2. ASSUME NEW i \in 1 .. Len(types) PROVE parts[i] \in Seq(Text)
  <2>1. "pcmu" \in Text /\ "pcma" \in Text
    BY DEF Text
  <2>2. <<"pcmu">> \in Seq(Text) /\ <<"pcma">> \in Seq(Text) /\ <<>> \in Seq(Text)
    BY <2>1, One, None, Zenon
  <2>3. StaticName(types[i]) \in Seq(Text)
    BY <2>2 DEF StaticName
  <2>4. QED
    BY <2>3
<1> HIDE DEF parts
<1>3. AllOf(parts) \in Seq(Text)
  BY <1>1, <1>2, AllOfType
<1>4. QED
  BY <1>3 DEF StaticNames, parts

----------------------------------------------------------------------------
(* ParseCodecs, line by line.                                              *)

ParserState == [media : Text, mapped : BOOLEAN, static : Seq(Text),
                Video : Seq(Text), Audio : Seq(Text)]

LEMMA ParseLineType ==
  ASSUME NEW p \in ParserState, NEW line \in SdpLine
  PROVE  ParseLine(p, line) \in ParserState
<1>1. /\ p.media \in Text /\ p.mapped \in BOOLEAN /\ p.static \in Seq(Text)
      /\ p.Video \in Seq(Text) /\ p.Audio \in Seq(Text) /\ line.name \in Text
      /\ line.media \in Text /\ line.types \in Seq(Nat)
  BY DEF ParserState, SdpLine, Text
<1>2. /\ Append(p.Video, line.name) \in Seq(Text) /\ Append(p.Audio, line.name) \in Seq(Text)
      /\ StaticNames(line.types) \in Seq(Text)
  BY <1>1, StaticNamesType
<1>3. p.Audio \o Static(p) \in Seq(Text)
  <2>1. Static(p) \in Seq(Text)
    BY <1>1, None DEF Static
  <2>2. QED
    BY <1>1, <2>1, ConcatProperties, Zenon
<1>4. CASE line.kind = "m"
  <2>1. Flush(p) \in ParserState
    <3> DEFINE audio == p.Audio \o Static(p)
    <3>1. audio \in Seq(Text) /\ Flush(p) = [p EXCEPT !.Audio = audio, !.mapped = FALSE, !.static = <<>>]
      BY <1>3 DEF Flush
    <3> HIDE DEF audio
    <3>2. <<>> \in Seq(Text)
      OBVIOUS
    <3>3. QED
      BY <3>1, <3>2 DEF ParserState
  <2> DEFINE media  == IF line.media \in {"video", "audio"} THEN line.media ELSE ""
             static == IF line.media = "audio" THEN StaticNames(line.types) ELSE <<>>
  <2>2. media \in Text /\ static \in Seq(Text)
    BY <1>1, <1>2, None DEF Text
  <2>3. ParseLine(p, line) = [Flush(p) EXCEPT !.media = media, !.static = static]
    BY <1>4 DEF ParseLine
  <2> HIDE DEF media, static
  <2>4. QED
    BY <2>1, <2>2, <2>3 DEF ParserState
<1>5. CASE line.kind = "rtpmap" /\ p.media = "video"
  BY <1>1, <1>2, <1>5 DEF ParseLine, ParserState
<1>6. CASE line.kind = "rtpmap" /\ p.media = "audio"
  BY <1>1, <1>2, <1>6 DEF ParseLine, ParserState
<1>7. CASE /\ ~(line.kind = "m") /\ ~(line.kind = "rtpmap" /\ p.media = "video")
           /\ ~(line.kind = "rtpmap" /\ p.media = "audio")
  BY <1>7 DEF ParseLine
<1>8. QED
  BY <1>4, <1>5, <1>6, <1>7

LEMMA ParsingFacts ==
  ASSUME NEW lines \in Seq(SdpLine)
  PROVE  /\ Parsing(lines) \in [0 .. Len(lines) -> ParserState]
         /\ Parsing(lines)[0] = Empty
         /\ \A i \in 1 .. Len(lines) : Parsing(lines)[i] = ParseLine(Parsing(lines)[i - 1], lines[i])
<1> DEFINE N == Len(lines)
           step == [i \in 1 .. N |-> [p \in ParserState |-> ParseLine(p, lines[i])]]
           Is(f) == f = [i \in 0 .. N |-> IF i = 0 THEN Empty ELSE ParseLine(f[i - 1], lines[i])]
<1>1. N \in Nat /\ \A i \in 1 .. N : i - 1 \in 0 .. N
  OBVIOUS
<1>2. Empty \in ParserState
  <2>1. "" \in Text /\ <<>> \in Seq(Text)
    BY None DEF Text
  <2>2. QED
    BY <2>1 DEF Empty, ParserState
<1>3. step \in [1 .. N -> [ParserState -> ParserState]]
  BY ParseLineType
<1>4. PICK f : Computes(f, N, ParserState, Empty, step)
  <2> HIDE DEF step, N
  <2>1. QED
    BY <1>1, <1>2, <1>3, Recursion, Zenon
<1>5. \A i \in 1 .. N : f[i] = ParseLine(f[i - 1], lines[i])
  <2> TAKE i \in 1 .. N
  <2>1. f[i - 1] \in ParserState
    BY <1>1, <1>4 DEF Computes
  <2>2. f[i] = step[i][f[i - 1]]
    BY <1>4 DEF Computes
  <2>3. QED
    BY <2>1, <2>2
<1>6. Is(f)
  <2> HIDE DEF N, step
  <2>1. f[0] = Empty /\ f = [i \in 0 .. N |-> f[i]]
    BY <1>4 DEF Computes
  <2>2. \A i \in 0 .. N : i # 0 => i \in 1 .. N
    BY <1>1
  <2>3. \A i \in 0 .. N : f[i] = IF i = 0 THEN Empty ELSE ParseLine(f[i - 1], lines[i])
    BY <1>5, <2>1, <2>2, Zenon
  <2>4. QED
    BY <2>1, <2>3
<1>7. Is(CHOOSE g : Is(g))
  <2> HIDE DEF Is
  <2>1. QED
    BY <1>6
<1>8. Is(Parsing(lines))
  BY <1>7 DEF Parsing
<1> DEFINE a == Parsing(lines)
<1>9. a[0] = Empty /\ \A i \in 1 .. N : a[i] = ParseLine(a[i - 1], lines[i])
  <2> HIDE DEF a, N
  <2>1. a = [i \in 0 .. N |-> IF i = 0 THEN Empty ELSE ParseLine(a[i - 1], lines[i])]
    BY <1>8 DEF a
  <2>2. \A i \in 0 .. N : a[i] = IF i = 0 THEN Empty ELSE ParseLine(a[i - 1], lines[i])
    BY <2>1, Zenon
  <2>3. 0 \in 0 .. N /\ \A i \in 1 .. N : i \in 0 .. N /\ i # 0
    BY <1>1
  <2>4. QED
    BY <2>2, <2>3, Zenon
<1>10. \A i \in 0 .. N : a[i] \in ParserState
  <2> HIDE DEF a
  <2> DEFINE S == {i \in 0 .. N : a[i] \in ParserState}
  <2>1. 0 \in S
    <3>1. a[0] \in ParserState
      BY <1>2, <1>9, Zenon
    <3>2. QED
      BY <1>1, <3>1
  <2>2. ASSUME NEW i \in 0 .. N - 1, i \in S PROVE i + 1 \in S
    <3> DEFINE k == i + 1
    <3>1. k \in 1 .. N /\ k - 1 = i /\ k \in 0 .. N /\ lines[k] \in SdpLine
      BY <1>1
    <3> HIDE DEF k
    <3>2. a[k] = ParseLine(a[k - 1], lines[k])
      BY <1>9, <3>1, Zenon
    <3>3. a[i] \in ParserState
      BY <2>2
    <3>4. a[k] \in ParserState
      BY <3>1, <3>2, <3>3, ParseLineType
    <3>5. k \in S
      BY <3>1, <3>4
    <3>6. QED
      BY <3>5 DEF k
  <2> HIDE DEF S, N
  <2>3. \A i \in 0 .. N : i \in S
    BY <1>1, <2>1, <2>2, Induction, Zenon
  <2>4. QED
    BY <2>3 DEF S
<1>11. a \in [0 .. N -> ParserState]
  <2> HIDE DEF a, N
  <2>1. a = [i \in 0 .. N |-> a[i]]
    <3>1. a = [i \in 0 .. N |-> IF i = 0 THEN Empty ELSE ParseLine(a[i - 1], lines[i])]
      BY <1>8 DEF a
    <3>2. QED
      BY <3>1
  <2>2. QED
    BY <1>10, <2>1
<1>12. QED
  BY <1>9, <1>11

----------------------------------------------------------------------------
(* Sections.                                                               *)

Heads(lines, m, i) ==
  /\ m \in 0 .. i
  /\ m = 0 \/ lines[m].kind = "m"
  /\ \A k \in m + 1 .. i : lines[k].kind # "m"

\* Every line has one media line before it, or none.
LEMMA SectionFacts ==
  ASSUME NEW lines, Len(lines) \in Nat, NEW i \in 0 .. Len(lines)
  PROVE  /\ Heads(lines, Section(lines, i), i)
         /\ \A m : Heads(lines, m, i) => Section(lines, i) = m
<1> DEFINE N == Len(lines)
           S == {n \in 0 .. N : \E m : Heads(lines, m, n)}
<1>1. 0 \in S
  <2>1. Heads(lines, 0, 0)
    BY DEF Heads
  <2>2. QED
    BY <2>1
<1>2. ASSUME NEW n \in 0 .. N - 1, n \in S PROVE n + 1 \in S
  <2>1. PICK m : Heads(lines, m, n)
    BY <1>2
  <2>2. CASE lines[n + 1].kind = "m"
    <3>1. Heads(lines, n + 1, n + 1)
      BY <2>2 DEF Heads
    <3>2. QED
      BY <3>1
  <2>3. CASE lines[n + 1].kind # "m"
    <3>1. Heads(lines, m, n + 1)
      BY <2>1, <2>3 DEF Heads
    <3>2. QED
      BY <3>1
  <2>4. QED
    BY <2>2, <2>3
<1>3. PICK m : Heads(lines, m, i)
  <2> HIDE DEF S
  <2>1. \A n \in 0 .. N : n \in S
    BY <1>1, <1>2, Induction, Zenon
  <2>2. QED
    BY <2>1 DEF S
<1>4. Section(lines, i) = CHOOSE n \in 0 .. i : Heads(lines, n, i)
  BY DEF Section, Heads
<1>5. Heads(lines, Section(lines, i), i)
  <2>1. m \in 0 .. i
    BY <1>3 DEF Heads
  <2>2. QED
    BY <1>3, <1>4, <2>1
<1>6. ASSUME NEW n, Heads(lines, n, i) PROVE n = m
  BY <1>3, <1>6 DEF Heads
<1>7. QED
  BY <1>5, <1>6

\* The section of the next line: its own if it is a media line, the same
\* otherwise.
LEMMA SectionNext ==
  ASSUME NEW lines, Len(lines) \in Nat, NEW k \in 1 .. Len(lines)
  PROVE  Section(lines, k) = IF lines[k].kind = "m" THEN k ELSE Section(lines, k - 1)
<1> DEFINE m == Section(lines, k - 1)
<1>1. k - 1 \in 0 .. Len(lines) /\ k \in 0 .. Len(lines)
  OBVIOUS
<1>2. Heads(lines, m, k - 1)
  BY <1>1, SectionFacts
<1> HIDE DEF m
<1>3. CASE lines[k].kind = "m"
  <2>1. Heads(lines, k, k)
    BY <1>3 DEF Heads
  <2>2. QED
    BY <1>1, <1>3, <2>1, SectionFacts
<1>4. CASE lines[k].kind # "m"
  <2>1. Heads(lines, m, k)
    BY <1>2, <1>4 DEF Heads
  <2>2. QED
    BY <1>1, <1>4, <2>1, SectionFacts DEF m
<1>5. QED
  BY <1>3, <1>4

\* Where a section ends, it has an rtpmap if one was met in it.
LEMMA MappedWithin ==
  ASSUME NEW lines, Len(lines) \in Nat, NEW i \in 0 .. Len(lines),
         i = Len(lines) \/ lines[i + 1].kind = "m"
  PROVE  Mapped(lines, Section(lines, i)) <=>
           \E k \in Section(lines, i) + 1 .. i : lines[k].kind = "rtpmap"
<1> DEFINE m == Section(lines, i)
<1>1. Heads(lines, m, i)
  BY SectionFacts
<1>2. \A k \in 0 .. Len(lines) : Heads(lines, Section(lines, k), k)
  BY SectionFacts
<1> HIDE DEF m
<1>3. \A k \in m + 1 .. i : Section(lines, k) = m
  <2> TAKE k \in m + 1 .. i
  <2>1. Heads(lines, m, k) /\ k \in 0 .. Len(lines)
    BY <1>1 DEF Heads
  <2>2. QED
    BY <2>1, SectionFacts
<1>4. \A k \in m + 1 .. Len(lines) : Section(lines, k) = m => k \in m + 1 .. i
  <2> SUFFICES ASSUME NEW k \in m + 1 .. Len(lines), Section(lines, k) = m, ~(k \in m + 1 .. i)
               PROVE  FALSE
    OBVIOUS
  <2>1. i + 1 \in m + 1 .. k /\ i # Len(lines)
    BY <1>1 DEF Heads
  <2>2. Heads(lines, m, k)
    BY <1>1, <1>2 DEF Heads
  <2>3. QED
    BY <2>1, <2>2 DEF Heads
<1>5. m \in 0 .. i
  BY <1>1 DEF Heads
<1>6. Mapped(lines, m) <=> \E k \in m + 1 .. i : lines[k].kind = "rtpmap"
  <2>1. \A k \in m + 1 .. i : k \in m + 1 .. Len(lines)
    BY <1>5
  <2>2. QED
    BY <1>3, <1>4, <2>1 DEF Mapped
<1>7. QED
  BY <1>6 DEF m

----------------------------------------------------------------------------
(* What ParseCodecs has found is what the lines announce.                  *)

Found(lines, media) == Appending([i \in 1 .. Len(lines) |-> Announced(lines, media, i)])

LEMMA FoundFacts ==
  ASSUME NEW lines \in Seq(SdpLine), NEW media
  PROVE  /\ Found(lines, media)[0] = <<>>
         /\ \A i \in 0 .. Len(lines) : Found(lines, media)[i] \in Seq(Text)
         /\ \A k \in 1 .. Len(lines) :
              Found(lines, media)[k] = Found(lines, media)[k - 1] \o Announced(lines, media, k)
<1> DEFINE parts == [i \in 1 .. Len(lines) |-> Announced(lines, media, i)]
<1>1. ASSUME NEW i \in 1 .. Len(lines) PROVE Announced(lines, media, i) \in Seq(Text)
  <2>1. lines[i] \in SdpLine
    BY ElementOfSeq, Zenon
  <2>2. lines[i].name \in Text /\ Len(lines[i].types) \in Nat
    <3>1. lines[i].name \in Text /\ lines[i].types \in Seq(Nat)
      BY <2>1 DEF SdpLine
    <3>2. Len(lines[i].types) \in Nat
      BY <3>1, LenProperties, Zenon
    <3>3. QED
      BY <3>1, <3>2
  <2>3. <<lines[i].name>> \in Seq(Text) /\ <<>> \in Seq(Text) /\ StaticNames(lines[i].types) \in Seq(Text)
    BY <2>2, One, None, StaticNamesType
  <2>4. QED
    BY <2>3, Zenon DEF Announced
<1>2. Len(parts) = Len(lines) /\ Len(lines) \in Nat
  OBVIOUS
<1>3. \A i \in 1 .. Len(lines) : parts[i] = Announced(lines, media, i)
  OBVIOUS
<1> HIDE DEF parts
<1>4. \A i \in 1 .. Len(parts) : parts[i] \in Seq(Text)
  BY <1>1, <1>2, <1>3
<1>5. /\ Appending(parts) \in [0 .. Len(parts) -> Seq(Text)]
      /\ Appending(parts)[0] = <<>>
      /\ \A k \in 1 .. Len(parts) : Appending(parts)[k] = Appending(parts)[k - 1] \o parts[k]
  BY <1>2, <1>4, AppendingFacts
<1>6. Found(lines, media) = Appending(parts)
  BY DEF Found, parts
<1>7. QED
  BY <1>2, <1>3, <1>5, <1>6

Met(lines, m, i) == \E k \in m + 1 .. i : lines[k].kind = "rtpmap"

MediaOf(lines, m) ==
  IF m # 0 /\ lines[m].media \in {"video", "audio"} THEN lines[m].media ELSE ""

\* After i lines: the variables of ParseCodecs are those of the section of
\* line i, and it has found what the lines up to i announce, but for the
\* static codecs of the section, which it holds back.
Agrees(lines, i, m, p) ==
  /\ p.media = MediaOf(lines, m)
  /\ p.mapped <=> p.media = "audio" /\ Met(lines, m, i)
  /\ p.media = "audio" => p.static = StaticNames(lines[m].types)
  /\ Found(lines, "video")[i] = p.Video
  /\ Found(lines, "audio")[i] =
       IF p.media = "audio" /\ ~Mapped(lines, m) THEN p.Audio \o p.static ELSE p.Audio

\* Where a section ends, Flush adds what was held back.
LEMMA FlushAgrees ==
  ASSUME NEW lines \in Seq(SdpLine), NEW i \in 0 .. Len(lines), NEW p \in ParserState,
         Agrees(lines, i, Section(lines, i), p),
         i = Len(lines) \/ lines[i + 1].kind = "m"
  PROVE  /\ Flush(p).Audio = Found(lines, "audio")[i]
         /\ Flush(p).Video = Found(lines, "video")[i]
<1> DEFINE m == Section(lines, i)
<1>1. Mapped(lines, m) <=> Met(lines, m, i)
  <2>1. Len(lines) \in Nat
    OBVIOUS
  <2>2. QED
    BY <2>1, MappedWithin DEF Met
<1>2. p.media = "audio" => (p.mapped <=> Mapped(lines, m))
  BY <1>1 DEF Agrees
<1>3. p.Audio \in Seq(Text) /\ p.Audio \o <<>> = p.Audio
  <2>1. p.Audio \in Seq(Text)
    BY DEF ParserState
  <2>2. QED
    BY <2>1, ConcatEmptySeq
<1> HIDE DEF m
<1>4. p.Audio \o Static(p) = Found(lines, "audio")[i]
  <2>1. CASE p.media = "audio" /\ ~p.mapped
    <3>1. Static(p) = p.static
      BY <2>1 DEF Static
    <3>2. QED
      BY <1>2, <2>1, <3>1 DEF Agrees, m
  <2>2. CASE ~(p.media = "audio" /\ ~p.mapped)
    <3>1. Static(p) = <<>>
      BY <2>2 DEF Static
    <3>2. Found(lines, "audio")[i] = p.Audio
      BY <1>2, <2>2 DEF Agrees, m
    <3>3. QED
      BY <1>3, <3>1, <3>2
  <2>3. QED
    BY <2>1, <2>2
<1>5. Flush(p).Audio = p.Audio \o Static(p) /\ Flush(p).Video = p.Video
  BY DEF Flush, ParserState
<1>6. QED
  BY <1>4, <1>5 DEF Agrees

\* One line more.
LEMMA LineAgrees ==
  ASSUME NEW lines \in Seq(SdpLine), NEW k \in 1 .. Len(lines), NEW p \in ParserState,
         Agrees(lines, k - 1, Section(lines, k - 1), p)
  PROVE  Agrees(lines, k, Section(lines, k), ParseLine(p, lines[k]))
<1> DEFINE m    == Section(lines, k - 1)
           n    == Section(lines, k)
           line == lines[k]
           q    == ParseLine(p, line)
           V    == Found(lines, "video")
           A    == Found(lines, "audio")
<1>1. /\ k - 1 \in 0 .. Len(lines) /\ k \in 0 .. Len(lines) /\ k \in Nat /\ k # 0 /\ k - 1 + 1 = k
      /\ Len(lines) \in Nat
  OBVIOUS
<1>2. line \in SdpLine /\ q \in ParserState
  BY ParseLineType
<1>3. /\ p.Video \in Seq(Text) /\ p.Audio \in Seq(Text) /\ p.static \in Seq(Text)
      /\ line.name \in Text /\ p.mapped \in BOOLEAN
  BY <1>2 DEF ParserState, SdpLine, Text
<1>4. /\ V[k] = V[k - 1] \o Announced(lines, "video", k) /\ A[k] = A[k - 1] \o Announced(lines, "audio", k)
      /\ V[k - 1] \in Seq(Text) /\ A[k - 1] \in Seq(Text)
  BY <1>1, FoundFacts
<1>5. V[k - 1] \o <<>> = V[k - 1] /\ A[k - 1] \o <<>> = A[k - 1]
  BY <1>4, ConcatEmptySeq
<1>6. n = IF line.kind = "m" THEN k ELSE m
  BY <1>1, SectionNext
<1>7. /\ m \in 0 .. k - 1 /\ (m # 0 => lines[m].kind = "m") /\ n \in 0 .. k
  BY <1>1, SectionFacts DEF Heads
<1>8. Agrees(lines, k - 1, m, p)
  OBVIOUS
<1> HIDE DEF m, n, V, A
<1>9. CASE line.kind = "m"
  <2> DEFINE media  == IF line.media \in {"video", "audio"} THEN line.media ELSE ""
             static == IF line.media = "audio" THEN StaticNames(line.types) ELSE <<>>
  <2>1. q = [Flush(p) EXCEPT !.media = media, !.static = static]
    BY <1>9 DEF ParseLine
  <2>2. Flush(p) = [p EXCEPT !.Audio = p.Audio \o Static(p), !.mapped = FALSE, !.static = <<>>]
    BY DEF Flush, ParserState
  <2>3. /\ q.media = media /\ q.static = static /\ q.mapped = FALSE
        /\ q.Audio = Flush(p).Audio /\ q.Video = Flush(p).Video
    <3> HIDE DEF media, static
    <3>1. QED
      BY <2>1, <2>2 DEF ParserState
  <2>4. q.Audio = A[k - 1] /\ q.Video = V[k - 1]
    BY <1>1, <1>8, <1>9, <2>3, FlushAgrees DEF A, V, m
  <2>5. n = k
    BY <1>6, <1>9
  <2>6. q.media = MediaOf(lines, n) /\ ~Met(lines, n, k)
    <3>1. MediaOf(lines, k) = media
      BY <1>1 DEF MediaOf
    <3>2. ~Met(lines, k, k)
      BY <1>1 DEF Met
    <3>3. QED
      BY <2>3, <2>5, <3>1, <3>2
  <2>7. q.media = "audio" => q.static = StaticNames(lines[n].types)
    BY <2>3, <2>5
  <2>8. V[k] = q.Video
    <3>1. Announced(lines, "video", k) = <<>>
      BY <1>9, <2>5 DEF Announced, n
    <3>2. QED
      BY <1>4, <1>5, <2>4, <3>1
  <2>9. A[k] = IF q.media = "audio" /\ ~Mapped(lines, n) THEN q.Audio \o q.static ELSE q.Audio
    <3>1. Announced(lines, "audio", k) =
            IF line.media = "audio" /\ ~Mapped(lines, k) THEN StaticNames(line.types) ELSE <<>>
      BY <1>1, <1>9, <2>5 DEF Announced, n
    <3>2. q.media = "audio" <=> line.media = "audio"
      BY <2>3
    <3>3. CASE line.media = "audio" /\ ~Mapped(lines, k)
      BY <1>4, <2>3, <2>4, <2>5, <3>1, <3>2, <3>3
    <3>4. CASE ~(line.media = "audio" /\ ~Mapped(lines, k))
      BY <1>4, <1>5, <2>4, <2>5, <3>1, <3>2, <3>4
    <3>5. QED
      BY <3>3, <3>4
  <2>10. q.mapped <=> q.media = "audio" /\ Met(lines, n, k)
    BY <2>3, <2>6
  <2> HIDE DEF q
  <2>11. Agrees(lines, k, n, q)
    BY <2>6, <2>7, <2>8, <2>9, <2>10 DEF Agrees, A, V
  <2>12. QED
    BY <2>11 DEF n, q
<1>10. CASE line.kind # "m"
  <2>1. n = m /\ n # k /\ MediaOf(lines, n) = p.media
    BY <1>1, <1>6, <1>7, <1>8, <1>10 DEF Agrees
  <2>2. \A j \in m + 1 .. k : j \in m + 1 .. k - 1 \/ j = k
    BY <1>1, <1>7
  <2>3. Met(lines, n, k) <=> Met(lines, m, k - 1) \/ line.kind = "rtpmap"
    BY <1>1, <1>7, <2>1, <2>2 DEF Met
  <2>4. CASE line.kind = "rtpmap" /\ p.media = "video"
    <3>1. q = [p EXCEPT !.Video = Append(p.Video, line.name)]
      BY <1>10, <2>4 DEF ParseLine, ParserState
    <3>2. /\ q.media = p.media /\ q.mapped = p.mapped /\ q.static = p.static /\ q.Audio = p.Audio
          /\ q.Video = Append(p.Video, line.name)
      BY <3>1 DEF ParserState
    <3> HIDE DEF q
    <3>3. n # 0 /\ lines[n].media = "video"
      BY <2>1, <2>4 DEF MediaOf
    <3>4. Announced(lines, "video", k) = <<line.name>> /\ Announced(lines, "audio", k) = <<>>
      BY <2>4, <3>3 DEF Announced, n
    <3>5. V[k] = q.Video
      <4>1. V[k - 1] = p.Video
        BY <1>8 DEF Agrees, V
      <4>2. Append(p.Video, line.name) = p.Video \o <<line.name>>
        BY <1>3, AppendIsConcat
      <4>3. QED
        BY <1>4, <3>2, <3>4, <4>1, <4>2
    <3>6. A[k] = q.Audio
      BY <1>4, <1>5, <1>8, <2>4, <3>2, <3>4 DEF Agrees, A
    <3>7. Agrees(lines, k, n, q)
      BY <1>8, <2>1, <2>4, <3>2, <3>5, <3>6 DEF Agrees, A, V
    <3>8. QED
      BY <3>7 DEF n, q
  <2>5. CASE line.kind = "rtpmap" /\ p.media = "audio"
    <3>1. q = [p EXCEPT !.Audio = Append(p.Audio, line.name), !.mapped = TRUE]
      BY <1>10, <2>5 DEF ParseLine, ParserState
    <3>2. /\ q.media = p.media /\ q.mapped = TRUE /\ q.static = p.static /\ q.Video = p.Video
          /\ q.Audio = Append(p.Audio, line.name)
      BY <3>1 DEF ParserState
    <3> HIDE DEF q
    <3>3. n # 0 /\ lines[n].media = "audio"
      BY <2>1, <2>5 DEF MediaOf
    <3>4. Announced(lines, "audio", k) = <<line.name>> /\ Announced(lines, "video", k) = <<>>
      BY <2>5, <3>3 DEF Announced, n
    <3>5. Mapped(lines, n)
      <4>1. k \in n + 1 .. Len(lines)
        BY <1>1, <1>7, <2>1
      <4>2. QED
        BY <2>5, <4>1 DEF Mapped, n
    <3>6. A[k] = q.Audio
      <4>1. A[k - 1] = p.Audio
        BY <1>8, <2>1, <3>5 DEF Agrees, A
      <4>2. Append(p.Audio, line.name) = p.Audio \o <<line.name>>
        BY <1>3, AppendIsConcat
      <4>3. QED
        BY <1>4, <3>2, <3>4, <4>1, <4>2
    <3>7. V[k] = q.Video
      BY <1>4, <1>5, <1>8, <3>2, <3>4 DEF Agrees, V
    <3>8. Agrees(lines, k, n, q)
      BY <1>8, <2>1, <2>3, <2>5, <3>2, <3>5, <3>6, <3>7 DEF Agrees, A, V
    <3>9. QED
      BY <3>8 DEF n, q
  <2>6. CASE ~(line.kind = "rtpmap" /\ p.media \in {"video", "audio"})
    <3>1. q = p
      BY <1>10, <2>6 DEF ParseLine
    <3>2. Announced(lines, "video", k) = <<>> /\ Announced(lines, "audio", k) = <<>>
      <4>1. CASE line.kind # "rtpmap"
        BY <2>1, <4>1 DEF Announced, n
      <4>2. CASE p.media \notin {"video", "audio"}
        <5>1. n = 0 \/ lines[n].media \notin {"video", "audio"}
          BY <2>1, <4>2 DEF MediaOf
        <5>2. QED
          BY <5>1 DEF Announced, n
      <4>3. QED
        BY <2>6, <4>1, <4>2
    <3>3. V[k] = V[k - 1] /\ A[k] = A[k - 1]
      BY <1>4, <1>5, <3>2
    <3>4. p.media = "audio" => (Met(lines, n, k) <=> Met(lines, m, k - 1))
      BY <2>3, <2>6
    <3>5. Agrees(lines, k, n, p)
      BY <1>8, <2>1, <3>3, <3>4 DEF Agrees, A, V
    <3>6. QED
      BY <3>1, <3>5 DEF n
  <2>7. QED
    BY <2>4, <2>5, <2>6
<1>11. QED
  BY <1>9, <1>10

LEMMA ParsingAgrees ==
  ASSUME NEW lines \in Seq(SdpLine)
  PROVE  \A i \in 0 .. Len(lines) : Agrees(lines, i, Section(lines, i), Parsing(lines)[i])
<1> DEFINE N == Len(lines)
           S == {i \in 0 .. N : Agrees(lines, i, Section(lines, i), Parsing(lines)[i])}
<1>1. N \in Nat /\ 0 \in 0 .. N
  OBVIOUS
<1>2. Agrees(lines, 0, Section(lines, 0), Parsing(lines)[0])
  <2>1. Section(lines, 0) = 0
    BY <1>1, SectionFacts DEF Heads
  <2>2. Parsing(lines)[0] = Empty
    BY ParsingFacts
  <2>3. Found(lines, "video")[0] = <<>> /\ Found(lines, "audio")[0] = <<>>
    BY FoundFacts
  <2>4. /\ Empty.media = "" /\ Empty.mapped = FALSE /\ Empty.Audio = <<>> /\ Empty.Video = <<>>
        /\ MediaOf(lines, 0) = ""
    BY DEF Empty, MediaOf
  <2>5. Agrees(lines, 0, 0, Empty)
    BY <2>3, <2>4 DEF Agrees
  <2>6. QED
    BY <2>1, <2>2, <2>5
<1>3. ASSUME NEW i \in 0 .. N - 1, i \in S PROVE i + 1 \in S
  <2> DEFINE k == i + 1
  <2>1. k \in 1 .. N /\ k - 1 = i /\ k \in 0 .. N /\ i \in 0 .. N
    BY <1>1
  <2> HIDE DEF k
  <2>2. Parsing(lines)[k] = ParseLine(Parsing(lines)[k - 1], lines[k]) /\ Parsing(lines)[i] \in ParserState
    BY <2>1, ParsingFacts
  <2>3. Agrees(lines, i, Section(lines, i), Parsing(lines)[i])
    BY <1>3
  <2>4. Agrees(lines, k, Section(lines, k), ParseLine(Parsing(lines)[i], lines[k]))
    BY <2>1, <2>2, <2>3, LineAgrees
  <2>5. k \in S
    BY <2>1, <2>2, <2>4
  <2>6. QED
    BY <2>5 DEF k
<1>4. 0 \in S
  BY <1>1, <1>2
<1> HIDE DEF S
<1>5. \A i \in 0 .. N : i \in S
  BY <1>1, <1>3, <1>4, Induction, Zenon
<1>6. QED
  BY <1>5 DEF S

\* ParseCodecs finds what each section announces, in order, whatever the SDP
\* and whatever the sections before left in its variables.
THEOREM ParsesExactly ==
  ASSUME NEW lines \in Seq(SdpLine)
  PROVE  ParsedExactly(lines)
<1> DEFINE N == Len(lines)
           p == Parsing(lines)[N]
<1>1. N \in Nat /\ N \in 0 .. N
  OBVIOUS
<1>2. p \in ParserState /\ Agrees(lines, N, Section(lines, N), p)
  BY <1>1, ParsingFacts, ParsingAgrees
<1>3. Flush(p).Audio = Found(lines, "audio")[N] /\ Flush(p).Video = Found(lines, "video")[N]
  BY <1>1, <1>2, FlushAgrees
<1>4. ASSUME NEW media PROVE AnnouncedBy(lines, media) = Found(lines, media)[N]
  BY DEF AnnouncedBy, AllOf, Found
<1>5. ParseCodecs(lines) = [Video |-> Flush(p).Video, Audio |-> Flush(p).Audio]
  BY DEF ParseCodecs
<1>6. QED
  BY <1>3, <1>4, <1>5 DEF ParsedExactly

----------------------------------------------------------------------------
(* The codec of a session and the published caps.                          *)

\* The first of a list that is supported is the head of those that are.
LEMMA FirstIsHead ==
  ASSUME NEW names \in Seq(Text), NEW supported
  PROVE  firstSupported(names, supported) =
           LET kept == filterSupported(names, supported) IN IF kept = <<>> THEN "" ELSE kept[1]
<1> DEFINE N == Len(names)
           part(i) == IF Listed(names[i], supported) THEN <<names[i]>> ELSE <<>>
           parts == [i \in 1 .. N |-> part(i)]
           kept == Appending(parts)
           First(k) == /\ k \in 1 .. N /\ Listed(names[k], supported)
                       /\ \A j \in 1 .. k - 1 : ~Listed(names[j], supported)
           None_(i) == kept[i] = <<>> /\ \A j \in 1 .. i : ~Listed(names[j], supported)
           Some(i) == kept[i] # <<>> /\ \E k : First(k) /\ kept[i][1] = names[k]
           S == {i \in 0 .. N : None_(i) \/ Some(i)}
<1>1. N \in Nat /\ Len(parts) = N /\ \A i \in 1 .. N : parts[i] = part(i) /\ names[i] \in Text
  OBVIOUS
<1>2. \A i \in 1 .. N : parts[i] \in Seq(Text)
  <2> TAKE i \in 1 .. N
  <2>1. <<names[i]>> \in Seq(Text) /\ <<>> \in Seq(Text)
    BY <1>1, One, None
  <2>2. QED
    BY <1>1, <2>1
<1> HIDE DEF parts
<1>3. /\ kept[0] = <<>>
      /\ \A k \in 1 .. N : kept[k] = kept[k - 1] \o parts[k]
      /\ \A i \in 0 .. N : kept[i] \in Seq(Text)
  BY <1>1, <1>2, AppendingFacts
<1> HIDE DEF kept
<1>4. 0 \in S
  BY <1>1, <1>3
<1>5. ASSUME NEW i \in 0 .. N - 1, i \in S PROVE i + 1 \in S
  <2> DEFINE k == i + 1
  <2>1. k \in 1 .. N /\ k - 1 = i /\ k \in 0 .. N /\ i \in 0 .. N /\ k \in Nat
    BY <1>1
  <2> HIDE DEF k
  <2>2. kept[k] = kept[i] \o part(k) /\ kept[i] \in Seq(Text)
    BY <1>1, <1>3, <2>1
  <2>3. kept[i] \o <<>> = kept[i]
    BY <2>2, ConcatEmptySeq
  <2>4. \A j \in 1 .. k : j \in 1 .. i \/ j = k
    BY <1>1, <2>1
  <2>5. CASE ~Listed(names[k], supported)
    <3>1. kept[k] = kept[i]
      BY <2>2, <2>3, <2>5
    <3>2. None_(i) => None_(k)
      BY <2>4, <2>5, <3>1
    <3>3. Some(i) => Some(k)
      BY <3>1
    <3>4. k \in S
      BY <1>5, <2>1, <3>2, <3>3
    <3>5. QED
      BY <3>4 DEF k
  <2>6. CASE Listed(names[k], supported)
    <3>1. kept[k] = kept[i] \o <<names[k]>>
      BY <2>2, <2>6
    <3>2. <<names[k]>> \in Seq(Text)
      BY <1>1, <2>1, One
    <3>3. None_(i) => Some(k)
      <4>1. SUFFICES ASSUME None_(i) PROVE Some(k)
        OBVIOUS
      <4>2. kept[k] = <<names[k]>>
        BY <3>1, <3>2, <4>1, ConcatEmptySeq
      <4>3. First(k)
        BY <2>1, <2>6, <4>1
      <4>4. kept[k] # <<>> /\ kept[k][1] = names[k]
        BY <4>2
      <4>5. QED
        BY <4>3, <4>4
    <3>4. Some(i) => Some(k)
      <4>1. SUFFICES ASSUME Some(i) PROVE Some(k)
        OBVIOUS
      <4>2. Len(kept[i]) \in Nat /\ 1 \in 1 .. Len(kept[i])
        BY <2>2, <4>1
      <4>3. kept[k][1] = kept[i][1] /\ kept[k] # <<>>
        <5> DEFINE old == kept[i]
                   new == <<names[k]>>
        <5>1. old \in Seq(Text) /\ new \in Seq(Text) /\ 1 \in 1 .. Len(old) /\ Len(old) \in Nat
          BY <2>2, <3>2, <4>2
        <5> HIDE DEF old, new
        <5>2. \A j \in 1 .. Len(old) + Len(new) : (old \o new)[j] = IF j <= Len(old) THEN old[j] ELSE new[j - Len(old)]
          BY <5>1, ConcatProperties, Zenon
        <5>3. Len(old \o new) = Len(old) + Len(new) /\ Len(new) \in Nat
          BY <5>1, ConcatProperties
        <5>4. (old \o new)[1] = old[1] /\ old \o new # <<>>
          BY <5>1, <5>2, <5>3
        <5>5. QED
          BY <3>1, <5>4 DEF old, new
      <4>4. QED
        BY <4>1, <4>3
    <3>5. k \in S
      BY <1>5, <2>1, <3>3, <3>4
    <3>6. QED
      BY <3>5 DEF k
  <2>7. QED
    BY <2>5, <2>6
<1> HIDE DEF S
<1>6. \A i \in 0 .. N : i \in S
  BY <1>1, <1>4, <1>5, Induction, Zenon
<1>7. None_(N) \/ Some(N)
  BY <1>1, <1>6 DEF S
<1>8. filterSupported(names, supported) = kept[N]
  BY <1>1 DEF filterSupported, AllOf, kept, parts
<1>9. CASE None_(N)
  BY <1>8, <1>9 DEF firstSupported
<1>10. CASE Some(N)
  <2>1. PICK k : First(k) /\ kept[N][1] = names[k]
    BY <1>10
  <2>2. \A j \in 1 .. N : Listed(names[j], supported) /\ (\A l \in 1 .. j - 1 : ~Listed(names[l], supported)) => j = k
    BY <1>1, <2>1
  <2>3. firstSupported(names, supported) = names[k]
    BY <2>1, <2>2 DEF firstSupported
  <2>4. QED
    BY <1>8, <1>10, <2>1, <2>3
<1>11. QED
  BY <1>7, <1>9, <1>10

\* A session uses the first codec of the published caps, for every SDP.
THEOREM UsesPublished ==
  ASSUME NEW lines \in Seq(SdpLine)
  PROVE  UsesFirstPublished(lines)
<1> DEFINE info == ParseCodecs(lines)
           p == Parsing(lines)[Len(lines)]
<1>1. p \in ParserState
  BY ParsingFacts
<1>2. Flush(p).Video = p.Video /\ Flush(p).Audio = p.Audio \o Static(p)
  BY <1>1 DEF Flush, ParserState
<1>3. p.Video \in Seq(Text) /\ p.Audio \in Seq(Text) /\ Static(p) \in Seq(Text)
  BY <1>1, None DEF Static, ParserState
<1>4. p.Audio \o Static(p) \in Seq(Text)
  BY <1>3, ConcatProperties, Zenon
<1>5. info.Video \in Seq(Text) /\ info.Audio \in Seq(Text)
  BY <1>2, <1>3, <1>4 DEF ParseCodecs
<1> HIDE DEF info, p
<1>6. codecs(info).Video = IF caps(info).Video = <<>> THEN "" ELSE caps(info).Video[1]
  <2>1. firstSupported(info.Video, supportedVideo) =
          LET kept == filterSupported(info.Video, supportedVideo) IN IF kept = <<>> THEN "" ELSE kept[1]
    BY <1>5, FirstIsHead, Zenon
  <2>2. QED
    BY <2>1 DEF codecs, caps
<1>7. codecs(info).Audio = IF caps(info).Audio = <<>> THEN "" ELSE caps(info).Audio[1]
  <2>1. firstSupported(info.Audio, supportedAudio) =
          LET kept == filterSupported(info.Audio, supportedAudio) IN IF kept = <<>> THEN "" ELSE kept[1]
    BY <1>5, FirstIsHead, Zenon
  <2>2. QED
    BY <2>1 DEF codecs, caps
<1>8. \A m \in {"Video", "Audio"} : codecs(info)[m] = IF caps(info)[m] = <<>> THEN "" ELSE caps(info)[m][1]
  BY <1>6, <1>7
<1>9. QED
  BY <1>8 DEF UsesFirstPublished, info

LEMMA LinesAreSdp == Lines \subseteq SdpLine
<1>1. <<96>> \in Seq(Nat) /\ <<0, 97, 8>> \in Seq(Nat) /\ <<97>> \in Seq(Nat) /\ <<0>> \in Seq(Nat) /\ <<>> \in Seq(Nat)
  OBVIOUS
<1>2. \A media \in Text, types \in Seq(Nat) : MediaLine(media, types) \in SdpLine
  BY DEF MediaLine, SdpLine, Text
<1>3. \A name \in Text : Rtpmap(name) \in SdpLine
  BY <1>1 DEF Rtpmap, SdpLine, Text
<1>4. OtherLine \in SdpLine
  BY <1>1 DEF OtherLine, SdpLine, Text
<1>5. /\ "video" \in Text /\ "audio" \in Text /\ "application" \in Text
      /\ "h264" \in Text /\ "opus" \in Text /\ "mpeg4-generic" \in Text
  BY DEF Text
<1>6. QED
  BY <1>1, <1>2, <1>3, <1>4, <1>5 DEF Lines

\* Whatever SDP the camera starts with, its codecs are found, published and
\* used as announced.
THEOREM CodecsAreExact == DataSpec => []CodecsExact
<1> USE DEF CodecsExact
<1>1. DataInit => sdp \in Seq(SdpLine)
  <2>1. ASSUME NEW n \in 0 .. MaxLines, NEW s \in [1 .. n -> Lines] PROVE s \in Seq(SdpLine)
    <3>1. n \in Nat
      BY DataAssumption
    <3>2. s \in [1 .. n -> SdpLine]
      BY LinesAreSdp
    <3>3. QED
      BY <3>1, <3>2
  <2>2. <<>> \in Seq(SdpLine)
    OBVIOUS
  <2>3. QED
    BY <2>1, <2>2 DEF DataInit
<1>2. sdp \in Seq(SdpLine) /\ [DataNext]_dataVars => (sdp \in Seq(SdpLine))'
  <2>1. [DataNext]_dataVars => sdp' = sdp
    BY DEF DataNext, dataVars
  <2>2. QED
    BY <2>1
<1>3. sdp \in Seq(SdpLine) => CodecsExact
  BY ParsesExactly, UsesPublished
<1>4. QED
  BY <1>1, <1>2, <1>3, PTL DEF DataSpec

----------------------------------------------------------------------------
(* The age of a message.                                                   *)

LEMMA ModSmall == ASSUME NEW a \in Nat, NEW b \in Nat \ {0}, a < b PROVE a % b = a
OBVIOUS

LEMMA ModOver == ASSUME NEW a \in Nat, NEW b \in Nat \ {0}, b <= a, a < 2 * b PROVE a % b = a - b
OBVIOUS

LEMMA WrapFits ==
  ASSUME NEW half \in Nat \ {0}, NEW x \in Signed(half) PROVE Wrap(x, half) = x
<1>1. x + half \in Nat /\ 2 * half \in Nat \ {0} /\ x + half < 2 * half /\ x \in Int
  BY DEF Signed
<1>2. (x + half) % (2 * half) = x + half
  BY <1>1, ModSmall, Zenon
<1>3. QED
  BY <1>1, <1>2 DEF Wrap

LEMMA WrapOver ==
  ASSUME NEW half \in Nat \ {0}, NEW x \in half .. 3 * half - 1 PROVE Wrap(x, half) = x - 2 * half
<1>1. /\ x + half \in Nat /\ 2 * half \in Nat \ {0} /\ 2 * half <= x + half
      /\ x + half < 2 * (2 * half) /\ x \in Int
  OBVIOUS
<1> DEFINE a == x + half
           b == 2 * half
<1>2. a % b = a - b
  <2> HIDE DEF a, b
  <2>1. QED
    BY <1>1, ModOver, Zenon DEF a, b
<1>3. QED
  BY <1>1, <1>2 DEF Wrap

LEMMA SubFacts ==
  ASSUME NEW t \in Int, NEW u \in Int
  PROVE  /\ t - u > DurationHalf - 1 => Sub(t, u) = DurationHalf - 1
         /\ t - u <= -DurationHalf => Sub(t, u) = -DurationHalf
         /\ t - u <= DurationHalf - 1 /\ t - u > -DurationHalf => Sub(t, u) = t - u
BY InboxAssumption DEF Sub, maxDuration, minDuration

\* The tolerance is exact, whatever time.Unix and Time.Sub make of a
\* timestamp, but for the messages from too far ahead.
LEMMA TimelyExactly ==
  ASSUME NEW ts \in Signed(SecondsHalf), NEW c \in Nat,
         c + UnixToInternal + maxClockSkew < SecondsHalf, clockSynced(c)
  PROVE  tsAcceptable(ts, c) <=>
           TooFarAhead(ts, c) \/ ts \in c - maxClockSkew .. c + maxClockSkew
<1> DEFINE H == SecondsHalf
           D == DurationHalf
           U == UnixToInternal
           skew == maxClockSkew
           d == Sub(Unix(c), Unix(ts))
           age == IF d < 0 THEN Wrap(-d, D) ELSE d
<1>1. /\ H \in Nat \ {0} /\ D \in Nat \ {0} /\ D < H /\ U \in Nat /\ skew \in Nat /\ skew < D - 1
      /\ ts \in Int /\ -H <= ts /\ ts < H /\ c + U + skew < H
  BY InboxAssumption DEF Signed
<1>2. Unix(c) = c + U
  <2>1. c + U \in Signed(H)
    BY <1>1 DEF Signed
  <2>2. QED
    BY <1>1, <2>1, WrapFits DEF Unix
<1>3. tsAcceptable(ts, c) <=> age <= skew
  BY DEF tsAcceptable
<1>4. CASE ts + U >= H
  <2>1. ts + U \in H .. 3 * H - 1
    BY <1>1, <1>4
  <2>2. Unix(ts) = ts + U - 2 * H
    BY <1>1, <2>1, WrapOver DEF Unix
  <2>3. Unix(c) - Unix(ts) > D - 1
    BY <1>1, <1>2, <2>2
  <2>4. d = D - 1
    BY <1>1, <1>2, <2>2, <2>3, SubFacts
  <2>5. ~(age <= skew)
    BY <1>1, <2>4
  <2>6. ts + U \notin Signed(H) /\ ts > c + skew
    BY <1>1, <1>4 DEF Signed
  <2>7. QED
    BY <1>1, <1>3, <2>5, <2>6 DEF TooFarAhead
<1>5. CASE ts + U < H
  <2>1. ts + U \in Signed(H)
    BY <1>1, <1>5 DEF Signed
  <2>2. Unix(ts) = ts + U
    BY <1>1, <2>1, WrapFits DEF Unix
  <2>3. Unix(c) - Unix(ts) = c - ts
    BY <1>1, <1>2, <2>2
  <2>4. TooFarAhead(ts, c) <=> ts - c > D - 1
    BY <2>1 DEF TooFarAhead, maxDuration
  <2>5. CASE c - ts > D - 1
    <3>1. d = D - 1
      BY <1>1, <1>2, <2>2, <2>3, <2>5, SubFacts
    <3>2. QED
      BY <1>1, <1>3, <2>4, <2>5, <3>1
  <2>6. CASE c - ts <= -D
    <3>1. d = -D
      BY <1>1, <1>2, <2>2, <2>3, <2>6, SubFacts
    <3>2. Wrap(D, D) = D - 2 * D
      <4>1. D \in D .. 3 * D - 1
        BY <1>1
      <4>2. QED
        BY <1>1, <4>1, WrapOver
    <3>3. age = -D
      BY <1>1, <3>1, <3>2
    <3>4. QED
      BY <1>1, <1>3, <2>4, <2>6, <3>3
  <2>7. CASE c - ts <= D - 1 /\ c - ts > -D
    <3>1. d = c - ts
      BY <1>1, <1>2, <2>2, <2>3, <2>7, SubFacts
    <3>2. CASE d < 0
      <4>1. -d \in Signed(D)
        BY <1>1, <2>7, <3>1, <3>2 DEF Signed
      <4>2. age = ts - c
        BY <1>1, <3>1, <3>2, <4>1, WrapFits
      <4>3. QED
        BY <1>1, <1>3, <2>4, <2>7, <3>1, <3>2, <4>2
    <3>3. CASE d >= 0
      BY <1>1, <1>3, <2>4, <2>7, <3>1, <3>3
    <3>4. QED
      BY <1>1, <3>1, <3>2, <3>3
  <2>8. QED
    BY <1>1, <2>5, <2>6, <2>7
<1>6. QED
  BY <1>1, <1>4, <1>5

LEMMA ClockFacts ==
  ASSUME NEW c \in Clocks PROVE c \in Nat /\ c + UnixToInternal + maxClockSkew < SecondsHalf
BY InboxAssumption, DataAssumption

\* Every message that a viewer may send is handled if and only if it is
\* timely, at every clock.
THEOREM HandledExactly ==
  ASSUME NEW m \in Messages, NEW c \in Clocks
  PROVE  HandledIffTimely(m, c)
<1>1. m.ts \in Signed(SecondsHalf)
  BY DEF Messages
<1>2. /\ clockSynced(c) => (tsAcceptable(m.ts, c) <=>
           TooFarAhead(m.ts, c) \/ m.ts \in c - maxClockSkew .. c + maxClockSkew)
      /\ ~clockSynced(c) => tsAcceptable(m.ts, c)
  BY <1>1, ClockFacts, TimelyExactly DEF tsAcceptable
<1>3. QED
  BY <1>2 DEF HandledIffTimely, Receive, Types

LEMMA NoMessageIgnored == HandledIffTimely(NoMessage, 0)
BY DEF HandledIffTimely, Receive, NoMessage

\* The same of the behaviours that the data run explores.
THEOREM TimelyAreHandled == DataSpec => []TimelyHandled
<1> DEFINE Inv == \/ msg = NoMessage /\ now = 0
                  \/ msg \in Messages /\ now \in Clocks
<1>1. DataInit => Inv
  BY DEF DataInit
<1>2. Inv /\ [DataNext]_dataVars => Inv'
  <2>1. [DataNext]_dataVars => msg' = msg /\ now' = now
    BY DEF DataNext, dataVars
  <2>2. QED
    BY <2>1
<1>3. Inv => TimelyHandled
  BY HandledExactly, NoMessageIgnored DEF TimelyHandled
<1>4. QED
  BY <1>1, <1>2, <1>3, PTL DEF DataSpec
=============================================================================
