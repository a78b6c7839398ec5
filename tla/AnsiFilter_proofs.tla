-------------------------- MODULE AnsiFilter_proofs -------------------------
(* What the filter takes from a paste and what it makes of it, for pastes of *)
(* any length.  One invariant is about the text that is read, and one, which *)
(* rests on it, about the output: its tags and the text between them.        *)
EXTENDS AnsiFilter, Induction

InSequence == Parameter \cup {"[", "(", "B", "m", "K", "J", "f"}

\* The loop is inside the paste, and nothing is shown that it has not passed.
ScanInv ==
    /\ paste \in Seq(Characters)
    /\ at \in 0..Len(paste)
    /\ shown \subseteq 1..at
    /\ LostOnlyBehindEscapes
    /\ NothingIsLeft

-----------------------------------------------------------------------------
(* The text in front of the loop. *)

LEMMA Part ==
    ASSUME NEW s \in Seq(Characters), NEW a \in Int, NEW b \in Int, 1 <= a, b <= Len(s)
    PROVE  /\ SubSeq(s, a, b) \in Seq(Characters)
           /\ Len(SubSeq(s, a, b)) = IF a <= b THEN b - a + 1 ELSE 0
           /\ \A k \in 1..b - a + 1 : SubSeq(s, a, b)[k] = s[a + k - 1]
<1>1. Len(s) \in Nat /\ \A i \in a..b : s[i] \in Characters
  OBVIOUS
<1> QED
  BY <1>1, SubSeqProperties

LEMMA PrefixOfRest ==
    ASSUME paste \in Seq(Characters), at \in 0..Len(paste), NEW n \in 1..Len(Rest)
    PROVE  /\ Len(Rest) = Len(paste) - at
           /\ SubSeq(Rest, 1, n) \in Seq(Characters)
           /\ Len(SubSeq(Rest, 1, n)) = n
           /\ \A i \in 1..n : SubSeq(Rest, 1, n)[i] = paste[at + i]
<1>1. /\ Rest \in Seq(Characters) /\ Len(Rest) = Len(paste) - at
      /\ \A i \in 1..Len(paste) - at : Rest[i] = paste[at + i]
  BY SubSeqProperties DEF Rest
<1>2. /\ SubSeq(Rest, 1, n) \in Seq(Characters) /\ Len(SubSeq(Rest, 1, n)) = n
      /\ \A i \in 1..n : SubSeq(Rest, 1, n)[i] = Rest[i]
  BY <1>1, SubSeqProperties
<1> QED
  BY <1>1, <1>2

LEMMA RestIsText ==
    ASSUME paste \in Seq(Characters), at \in 0..Len(paste)
    PROVE  Rest \in Seq(Characters) /\ Len(Rest) = Len(paste) - at
BY SubSeqProperties DEF Rest

-----------------------------------------------------------------------------
(* The patterns. *)

\* Every character is taken by a pattern, if only alone.
LEMMA EveryCharacterMatches ==
    ASSUME NEW c \in Characters
    PROVE  \E h \in Handlers : Pattern(h, <<c>>)
<1>1. Len(<<c>>) = 1 /\ <<c>>[1] = c
  OBVIOUS
<1>2. CASE c = "ESC"
  <2>1. SubSeq(<<c>>, 2, 1) = <<>>
    BY SubSeqProperties
  <2>2. CatchAll(<<c>>)
    BY <1>1, <1>2, <2>1 DEF CatchAll, OnlyOf
  <2> QED
    BY <2>2 DEF Pattern, Handlers
<1>3. CASE c = "BS"
  BY <1>1, <1>3 DEF Pattern, Handlers, OnlyOf
<1>4. CASE c = "LF"
  BY <1>4 DEF Pattern, Handlers
<1>5. CASE c = "CR"
  BY <1>5 DEF Pattern, Handlers
<1>6. CASE c \notin Control
  BY <1>1, <1>6 DEF Pattern, Handlers, OnlyOf
<1> QED
  BY <1>2, <1>3, <1>4, <1>5, <1>6 DEF Control

LEMMA CsiEnds ==
    ASSUME NEW s \in Seq(Characters), NEW final, Csi(s, final)
    PROVE  Len(s) \in Nat /\ Len(s) >= 3 /\ s[1] = "ESC" /\ s[2] = "[" /\ s[Len(s)] = final
BY DEF Csi

\* The characters between the bracket and the last one.
LEMMA CsiCharacters ==
    ASSUME NEW s \in Seq(Characters), NEW final \in InSequence, Csi(s, final),
           OnlyOf(Params(s), InSequence)
    PROVE  s[1] = "ESC" /\ \A k \in 2..Len(s) : s[k] \in InSequence
<1>1. Len(s) \in Nat /\ Len(s) >= 3 /\ s[1] = "ESC" /\ s[2] = "[" /\ s[Len(s)] = final
  BY DEF Csi
<1>2. ASSUME NEW k \in 3..Len(s) - 1 PROVE s[k] \in InSequence
  <2>1. /\ Len(Params(s)) = IF 3 <= Len(s) - 1 THEN Len(s) - 1 - 3 + 1 ELSE 0
        /\ \A j \in 1..Len(s) - 1 - 3 + 1 : Params(s)[j] = s[3 + j - 1]
    BY <1>1, Part DEF Params
  <2>2. k - 2 \in 1..Len(Params(s)) /\ Params(s)[k - 2] = s[k]
    BY <1>1, <1>2, <2>1
  <2> QED
    BY <1>1, <1>2, <2>2 DEF OnlyOf
<1>3. "[" \in InSequence
  BY DEF InSequence
<1> QED
  BY <1>1, <1>2, <1>3

LEMMA OnlyOfMore ==
    ASSUME NEW s, NEW S, NEW T, OnlyOf(s, S), S \subseteq T
    PROVE  OnlyOf(s, T)
BY DEF OnlyOf

LEMMA PositionCharacters ==
    ASSUME NEW s \in Seq(Characters), Csi(s, "f"), Position(s)
    PROVE  s[1] = "ESC" /\ \A k \in 2..Len(s) : s[k] \in InSequence
<1>1. Len(s) \in Nat /\ Len(s) >= 3 /\ s[1] = "ESC" /\ s[2] = "[" /\ s[Len(s)] = "f"
  BY CsiEnds
<1>2. Digit \subseteq InSequence /\ {";", "[", "f"} \subseteq InSequence
  BY DEF InSequence, Parameter
<1>3. PICK i \in 3..6 : s[i] = ";" /\ \A k \in 3..Len(s) - 1 : k = i \/ s[k] \in Digit
  BY DEF Position
<1>4. ASSUME NEW k \in 2..Len(s) PROVE s[k] \in InSequence
  <2>1. k = 2 \/ k = Len(s) \/ k \in 3..Len(s) - 1
    BY <1>1
  <2> QED
    BY <1>1, <1>2, <1>3, <2>1
<1> QED
  BY <1>1, <1>4

\* 38 and 48 are parameters of a sequence.
LEMMA ColorIsCsi ==
    ASSUME NEW s, NEW layers, NEW model, NEW n, Color(s, layers, model, n)
    PROVE  Csi(s, "m") /\ OnlyOf(Params(s), Parameter)
BY DEF Color

\* What a handler takes without showing it is backspaces or a sequence.
LEMMA WhatIsTaken ==
    ASSUME NEW s \in Seq(Characters), Len(s) >= 1, NEW h \in Handlers, Pattern(h, s),
           h \notin {6, 7, 8, 13}
    PROVE  \/ \A k \in 1..Len(s) : s[k] = "BS"
           \/ s[1] = "ESC" /\ \A k \in 2..Len(s) : s[k] \in InSequence
<1> DEFINE Sequence == s[1] = "ESC" /\ \A k \in 2..Len(s) : s[k] \in InSequence
<1> USE DEF Handlers
<1>1. CASE h = 0
  BY <1>1 DEF Pattern, OnlyOf
<1>2. ASSUME NEW final \in {"K", "m", "J", "f"}, Csi(s, final),
             \/ OnlyOf(Params(s), Parameter)
             \/ OnlyOf(Params(s), {"0", "1", "2"})
             \/ OnlyOf(Params(s), Digit)
      PROVE  Sequence
  <2>1. OnlyOf(Params(s), InSequence)
    <3>1. Parameter \subseteq InSequence /\ Digit \subseteq InSequence
      BY DEF InSequence, Parameter
    <3>2. {"0", "1", "2"} \subseteq InSequence
      BY DEF InSequence, Parameter, Digit
    <3> QED
      BY <1>2, <3>1, <3>2, OnlyOfMore
  <2> QED
    BY <1>2, <2>1, CsiCharacters DEF InSequence
<1>3. CASE h = 1
  BY <1>2, <1>3 DEF Pattern
<1>4. CASE h = 2
  <2>1. s = <<"ESC", "[", "(", "B">>
    BY <1>4 DEF Pattern
  <2>2. Len(s) = 4 /\ s[1] = "ESC" /\ s[2] = "[" /\ s[3] = "(" /\ s[4] = "B"
    BY <2>1
  <2> QED
    BY <2>2 DEF InSequence
<1>5. CASE h \in {3, 4, 5}
  <2>1. Csi(s, "m") /\ OnlyOf(Params(s), Parameter)
    <3>1. h = 3 => Color(s, {"3", "4"}, "2", 3)
      BY DEF Pattern
    <3>2. h = 4 => Color(s, {"3"}, "5", 1)
      BY DEF Pattern
    <3>3. h = 5 => Color(s, {"4"}, "5", 1)
      BY DEF Pattern
    <3> QED
      BY <1>5, <3>1, <3>2, <3>3, ColorIsCsi
  <2> QED
    BY <1>2, <2>1
<1>6. CASE h = 9
  <2>1. Csi(s, "m") /\ OnlyOf(Params(s), Parameter)
    BY <1>6 DEF Pattern
  <2> QED
    BY <1>2, <2>1
<1>7. CASE h = 10
  BY <1>2, <1>7 DEF Pattern
<1>8. CASE h = 11
  BY <1>8, PositionCharacters DEF Pattern
<1>9. CASE h = 12
  <2>1. CatchAll(s)
    BY <1>9 DEF Pattern
  <2>2. PICK n \in {1, 2} : /\ n <= Len(s)
                            /\ n = 2 => s[2] = "["
                            /\ OnlyOf(SubSeq(s, n + 1, Len(s)), Parameter)
    BY <2>1 DEF CatchAll
  <2>3. ASSUME NEW k \in n + 1..Len(s) PROVE s[k] \in InSequence
    <3> DEFINE rest == SubSeq(s, n + 1, Len(s))
    <3>1. /\ Len(rest) = IF n + 1 <= Len(s) THEN Len(s) - (n + 1) + 1 ELSE 0
          /\ \A j \in 1..Len(s) - (n + 1) + 1 : rest[j] = s[n + 1 + j - 1]
      BY Part
    <3>2. \A j \in 1..Len(rest) : rest[j] \in Parameter
      BY <2>2 DEF OnlyOf
    <3> HIDE DEF rest
    <3>3. k - n \in 1..Len(rest) /\ rest[k - n] = s[k]
      BY <2>2, <2>3, <3>1
    <3> QED
      BY <3>2, <3>3 DEF InSequence
  <2> QED
    BY <2>1, <2>2, <2>3 DEF CatchAll, InSequence
<1> QED
  BY <1>1, <1>3, <1>4, <1>5, <1>6, <1>7, <1>8, <1>9

-----------------------------------------------------------------------------
(* The steps. *)

LEMMA TokenizeKeeps == ScanInv /\ Tokenize => ScanInv'
<1> SUFFICES ASSUME ScanInv, Tokenize PROVE ScanInv'
  OBVIOUS
<1>1. PICK m \in Matches :
          /\ at' = at + m[2]
          /\ shown' = IF m[1] \in {6, 7, 8, 13} THEN shown \cup (at + 1..at + m[2]) ELSE shown
  BY DEF Tokenize
<1> DEFINE h == m[1]
           n == m[2]
           s == SubSeq(Rest, 1, n)
<1>2. paste' = paste /\ phase = "tokenizing" /\ phase' = phase
  BY DEF Tokenize
<1>3. h \in Handlers /\ n \in 1..Len(Rest) /\ Pattern(h, s)
  BY DEF Matches
<1>4. /\ Len(Rest) = Len(paste) - at /\ s \in Seq(Characters) /\ Len(s) = n
      /\ \A i \in 1..n : s[i] = paste[at + i]
  BY <1>3, PrefixOfRest DEF ScanInv
<1>5. /\ at \in Nat /\ Len(paste) \in Nat /\ n \in Nat
      /\ at' = at + n /\ at' \in 0..Len(paste) /\ at < at'
  BY <1>1, <1>3, <1>4 DEF ScanInv
<1>6. shown' \subseteq 1..at' /\ shown \subseteq shown'
  <2>1. shown' = shown \/ shown' = shown \cup (at + 1..at + n)
    BY <1>1
  <2>2. shown \subseteq 1..at
    BY DEF ScanInv
  <2> HIDE DEF n
  <2>3. ASSUME NEW i \in shown' PROVE i \in 1..at'
    <3>1. CASE i \in shown
      <4>1. i \in 1..at
        BY <2>2, <3>1
      <4> QED
        BY <1>5, <4>1
    <3>2. CASE i \in at + 1..at + n
      BY <1>5, <3>2
    <3> QED
      BY <2>1, <3>1, <3>2
  <2> QED
    BY <2>1, <2>3
<1> HIDE DEF h, n, s
<1>7. ASSUME NEW i \in 1..at'
      PROVE  \/ i \in shown'
             \/ paste[i] = "BS"
             \/ \E j \in 1..i : paste[j] = "ESC" /\ \A k \in j + 1..i : paste[k] \in InSequence
  <2>1. CASE i <= at
    BY <1>5, <1>6, <2>1 DEF ScanInv, LostOnlyBehindEscapes, InSequence
  <2>2. CASE i > at /\ h \in {6, 7, 8, 13}
    BY <1>1, <1>5, <2>2 DEF h, n
  <2>3. CASE i > at /\ h \notin {6, 7, 8, 13}
    <3>1. \/ \A k \in 1..n : s[k] = "BS"
          \/ s[1] = "ESC" /\ \A k \in 2..n : s[k] \in InSequence
      BY <1>3, <1>4, <2>3, WhatIsTaken
    <3>2. CASE \A k \in 1..n : s[k] = "BS"
      <4>1. i - at \in 1..n /\ s[i - at] = paste[i]
        BY <1>4, <1>5, <2>3
      <4> QED
        BY <3>2, <4>1
    <3>3. CASE s[1] = "ESC" /\ \A k \in 2..n : s[k] \in InSequence
      <4>1. at + 1 \in 1..i /\ paste[at + 1] = "ESC"
        BY <1>4, <1>5, <2>3, <3>3
      <4>2. ASSUME NEW k \in at + 2..i PROVE paste[k] \in InSequence
        <5>1. k - at \in 2..n /\ s[k - at] = paste[k]
          BY <1>4, <1>5, <2>3, <4>2
        <5> QED
          BY <3>3, <5>1
      <4> QED
        BY <1>5, <4>1, <4>2
    <3> QED
      BY <3>1, <3>2, <3>3
  <2> QED
    BY <1>5, <2>1, <2>2, <2>3
<1>8. LostOnlyBehindEscapes'
  BY <1>2, <1>7 DEF LostOnlyBehindEscapes, InSequence
<1> QED
  BY <1>2, <1>5, <1>6, <1>8 DEF ScanInv, NothingIsLeft

\* The loop ends where nothing is left, since any character would be a match.
LEMMA FinishKeeps == ScanInv /\ Finish => ScanInv'
<1> SUFFICES ASSUME ScanInv, Finish PROVE ScanInv'
  OBVIOUS
<1>1. Matches = {} /\ UNCHANGED <<paste, at, shown>>
  BY DEF Finish
<1>2. ASSUME at # Len(paste) PROVE FALSE
  <2>1. at \in 0..Len(paste) /\ Rest \in Seq(Characters) /\ Len(Rest) >= 1
    BY <1>2, RestIsText DEF ScanInv
  <2>2. SubSeq(Rest, 1, 1) = <<Rest[1]>> /\ Rest[1] \in Characters
    <3> HIDE DEF Rest
    <3>1. /\ Rest[1] \in Characters
          /\ SubSeq(Rest, 1, 1) \in Seq(Characters) /\ Len(SubSeq(Rest, 1, 1)) = 1
          /\ SubSeq(Rest, 1, 1)[1] = Rest[1]
      BY <2>1, SubSeqProperties
    <3> DEFINE c == Rest[1]
               one == SubSeq(Rest, 1, 1)
    <3>2. one \in Seq(Characters) /\ Len(one) = 1 /\ one[1] = c /\ c \in Characters
      BY <3>1
    <3> HIDE DEF c, one
    <3>3. <<c>> \in Seq(Characters) /\ Len(<<c>>) = 1 /\ <<c>>[1] = c
      BY <3>2
    <3>4. one = <<c>>
      BY <3>2, <3>3, SeqEqual
    <3> QED
      BY <3>2, <3>4 DEF c, one
  <2>3. PICK h \in Handlers : Pattern(h, SubSeq(Rest, 1, 1))
    BY <2>2, EveryCharacterMatches
  <2>4. <<h, 1>> \in Matches
    BY <2>1, <2>3 DEF Matches
  <2> QED
    BY <1>1, <2>4
<1>3. LostOnlyBehindEscapes' /\ NothingIsLeft'
  BY <1>1, <1>2 DEF ScanInv, LostOnlyBehindEscapes, NothingIsLeft
<1> QED
  BY <1>1, <1>3 DEF ScanInv

THEOREM Scanning == Spec => []ScanInv
<1>1. Init => ScanInv
  <2> SUFFICES ASSUME Init PROVE ScanInv
    OBVIOUS
  <2>1. paste \in Seq(Characters) /\ at = 0 /\ shown = {} /\ phase = "tokenizing"
    BY PastesAreTexts DEF Init
  <2>2. Len(paste) \in Nat
    BY <2>1
  <2> QED
    BY <2>1, <2>2 DEF ScanInv, LostOnlyBehindEscapes, NothingIsLeft
<1>2. ScanInv /\ [Next]_vars => ScanInv'
  <2> SUFFICES ASSUME ScanInv, [Next]_vars PROVE ScanInv'
    OBVIOUS
  <2>1. CASE Tokenize
    BY <2>1, TokenizeKeeps
  <2>2. CASE Finish
    BY <2>2, FinishKeeps
  <2>3. CASE UNCHANGED vars
    BY <2>3 DEF vars, ScanInv, LostOnlyBehindEscapes, NothingIsLeft
  <2> QED
    BY <2>1, <2>2, <2>3 DEF Next
<1> QED
  BY <1>1, <1>2, PTL DEF Spec

\* Of a paste of any length, nothing goes missing but backspaces and what stands
\* behind an ESC as part of a sequence (the patterns of tokenize).
THEOREM OnlyEscapesAreLost == Spec => []LostOnlyBehindEscapes
<1>1. ScanInv => LostOnlyBehindEscapes
  BY DEF ScanInv
<1> QED
  BY <1>1, Scanning, PTL

\* Whatever a paste contains, the loop of tokenize does not give up before its
\* end: every character is taken by some pattern.
THEOREM AllIsRead == Spec => []NothingIsLeft
<1>1. ScanInv => NothingIsLeft
  BY DEF ScanInv
<1> QED
  BY <1>1, Scanning, PTL

-----------------------------------------------------------------------------
(* What pushText writes, and what a browser makes of it. *)

LEMMA EntityIs ==
    /\ DOMAIN Entity = {"&", "<", ">", "\""}
    /\ Entity["&"] = "amp;" /\ Entity["<"] = "lt;" /\ Entity[">"] = "gt;"
    /\ Entity["\""] = "quot;"
    /\ Names = {"amp;", "lt;", "gt;", "quot;"}
    /\ DOMAIN Entity \subseteq Characters /\ Names \subseteq Characters
<1>1. /\ DOMAIN Entity = {"&", "<", ">", "\""}
      /\ Entity["&"] = "amp;" /\ Entity["<"] = "lt;" /\ Entity[">"] = "gt;"
      /\ Entity["\""] = "quot;"
  BY DEF Entity
<1>2. Names = {"amp;", "lt;", "gt;", "quot;"}
  BY <1>1 DEF Names
<1>3. DOMAIN Entity \subseteq Characters /\ Names \subseteq Characters
  BY DEF Characters
<1> QED
  BY <1>1, <1>2, <1>3

LEMMA EntityText ==
    ASSUME NEW c \in DOMAIN Entity
    PROVE  Entity[c] \in Names /\ <<"&", Entity[c]>> \in Seq(Characters)
<1> DEFINE y == Entity[c]
<1>1. "&" \in Characters /\ y \in Characters
  BY EntityIs
<1>2. y \in Names
  BY DEF Names
<1> HIDE DEF y
<1>3. <<"&", y>> \in Seq(Characters)
  BY <1>1
<1> QED
  BY <1>2, <1>3 DEF y

\* How a character is written if c is to be replaced.
Naming(c) == [x \in Characters |-> IF x = c THEN <<"&", Entity[c]>> ELSE <<x>>]

LEMMA NamedIs ==
    ASSUME NEW s \in Seq(Characters), NEW c \in DOMAIN Entity
    PROVE  Writes(Naming(c), Characters, Characters) /\ Named(s, c) = Written(Naming(c), s)
<1> DEFINE by == <<"&", Entity[c]>>
           m == Naming(c)
<1>1. by \in Seq(Characters)
  BY EntityText
<1>2. m = [x \in Characters |-> IF x = c THEN by ELSE <<x>>]
  BY DEF Naming
<1>3. Named(s, c) = FlattenSeq([i \in 1..Len(s) |-> IF s[i] = c THEN by ELSE <<s[i]>>])
  BY DEF Named, Replace
<1> HIDE DEF by, m
<1>4. \A x \in Characters : <<x>> \in Seq(Characters)
  OBVIOUS
<1>5. \A x \in Characters : (IF x = c THEN by ELSE <<x>>) \in Seq(Characters)
  BY <1>1, <1>4
<1>6. m \in [Characters -> Seq(Characters)]
  BY <1>2, <1>5
<1>7. \A i \in 1..Len(s) : s[i] \in Characters
  OBVIOUS
<1>8. [i \in 1..Len(s) |-> IF s[i] = c THEN by ELSE <<s[i]>>] = [i \in 1..Len(s) |-> m[s[i]]]
  BY <1>2, <1>7
<1> QED
  BY <1>3, <1>6, <1>8 DEF Written, Writes, m

LEMMA WrittenText ==
    ASSUME NEW m, Writes(m, Characters, Characters),
           NEW s \in Seq(Characters), NEW t \in Seq(Characters)
    PROVE  Written(m, s) \in Seq(Characters) /\ Written(m, s \o t) = Written(m, s) \o Written(m, t)
<1>1. Parts(m, Characters, Characters, s, t)
  BY DEF Parts
<1> QED
  BY <1>1, WrittenParts

LEMMA NamedConcat ==
    ASSUME NEW s \in Seq(Characters), NEW t \in Seq(Characters), NEW c \in DOMAIN Entity
    PROVE  /\ Named(s, c) \in Seq(Characters)
           /\ Named(s \o t, c) = Named(s, c) \o Named(t, c)
<1> DEFINE m == Naming(c)
<1>1. s \o t \in Seq(Characters)
  BY ConcatProperties
<1>2. /\ Writes(m, Characters, Characters)
      /\ Named(s, c) = Written(m, s) /\ Named(t, c) = Written(m, t)
  BY NamedIs
<1>3. Named(s \o t, c) = Written(m, s \o t)
  BY <1>1, NamedIs
<1> HIDE DEF m
<1>4. /\ Written(m, s) \in Seq(Characters)
      /\ Written(m, s \o t) = Written(m, s) \o Written(m, t)
  BY <1>2, WrittenText
<1> QED
  BY <1>2, <1>3, <1>4

LEMMA NamedOne ==
    ASSUME NEW x \in Characters, NEW c \in DOMAIN Entity
    PROVE  /\ Named(<<x>>, c) = IF x = c THEN <<"&", Entity[c]>> ELSE <<x>>
           /\ Named(<<>>, c) = <<>>
<1>1. <<x>> \in Seq(Characters) /\ <<>> \in Seq(Characters)
  OBVIOUS
<1>2. /\ Writes(Naming(c), Characters, Characters)
      /\ Named(<<x>>, c) = Written(Naming(c), <<x>>)
      /\ Named(<<>>, c) = Written(Naming(c), <<>>)
  BY <1>1, NamedIs
<1>3. /\ Written(Naming(c), <<x>>) = Naming(c)[x]
      /\ Written(Naming(c), <<>>) = <<>>
  BY <1>2, WrittenOne
<1>4. Naming(c)[x] = IF x = c THEN <<"&", Entity[c]>> ELSE <<x>>
  BY DEF Naming
<1> QED
  BY <1>2, <1>3, <1>4

LEMMA NamedPair ==
    ASSUME NEW x \in Characters, NEW y \in Characters, NEW c \in DOMAIN Entity, x # c, y # c
    PROVE  Named(<<x, y>>, c) = <<x, y>>
<1>1. <<x>> \in Seq(Characters) /\ <<y>> \in Seq(Characters) /\ <<x, y>> = <<x>> \o <<y>>
  <2>1. <<x>> \in Seq(Characters) /\ <<y>> \in Seq(Characters) /\ <<x, y>> = Append(<<x>>, y)
    OBVIOUS
  <2> QED
    BY <2>1, AppendIs
<1>2. Named(<<x>> \o <<y>>, c) = Named(<<x>>, c) \o Named(<<y>>, c)
  BY <1>1, NamedConcat
<1>3. Named(<<x>>, c) = <<x>> /\ Named(<<y>>, c) = <<y>>
  BY NamedOne
<1> QED
  BY <1>1, <1>2, <1>3

\* What pushText writes for a text, and for a character.
Escaped(s) == Named(Named(Named(Named(s, "&"), ">"), "<"), "\"")
Escape(x) == IF x \in DOMAIN Entity THEN <<"&", Entity[x]>> ELSE <<x>>

LEMMA EscapedConcat ==
    ASSUME NEW s \in Seq(Characters), NEW t \in Seq(Characters)
    PROVE  Escaped(s) \in Seq(Characters) /\ Escaped(s \o t) = Escaped(s) \o Escaped(t)
<1> DEFINE s1 == Named(s, "&")
           t1 == Named(t, "&")
           s2 == Named(s1, ">")
           t2 == Named(t1, ">")
           s3 == Named(s2, "<")
           t3 == Named(t2, "<")
           s4 == Named(s3, "\"")
           t4 == Named(t3, "\"")
<1>0. "&" \in DOMAIN Entity /\ ">" \in DOMAIN Entity /\ "<" \in DOMAIN Entity /\ "\"" \in DOMAIN Entity
  BY EntityIs
<1>1. s1 \in Seq(Characters) /\ t1 \in Seq(Characters) /\ Named(s \o t, "&") = s1 \o t1
  BY <1>0, NamedConcat
<1>2. s2 \in Seq(Characters) /\ t2 \in Seq(Characters) /\ Named(s1 \o t1, ">") = s2 \o t2
  <2> HIDE DEF s1, t1
  <2> QED
    BY <1>0, <1>1, NamedConcat
<1>3. s3 \in Seq(Characters) /\ t3 \in Seq(Characters) /\ Named(s2 \o t2, "<") = s3 \o t3
  <2> HIDE DEF s2, t2
  <2> QED
    BY <1>0, <1>2, NamedConcat
<1>4. s4 \in Seq(Characters) /\ t4 \in Seq(Characters) /\ Named(s3 \o t3, "\"") = s4 \o t4
  <2> HIDE DEF s3, t3
  <2> QED
    BY <1>0, <1>3, NamedConcat
<1>5. Escaped(s \o t) = s4 \o t4
  <2> HIDE DEF s1, t1, s2, t2, s3, t3, s4, t4
  <2> QED
    BY <1>1, <1>2, <1>3, <1>4 DEF Escaped
<1>6. Escaped(s) = s4 /\ Escaped(t) = t4
  BY DEF Escaped
<1> HIDE DEF s4, t4
<1> QED
  BY <1>4, <1>5, <1>6

LEMMA EscapedOne ==
    ASSUME NEW x \in Characters
    PROVE  Escaped(<<x>>) = Escape(x) /\ Escaped(<<>>) = <<>>
<1>0. {"&", ">", "<", "\""} = DOMAIN Entity /\ DOMAIN Entity \subseteq Characters
      /\ Entity["&"] = "amp;" /\ Entity["<"] = "lt;" /\ Entity[">"] = "gt;"
      /\ Entity["\""] = "quot;"
      /\ {"amp;", "lt;", "gt;", "quot;"} \subseteq Characters
  BY EntityIs
<1>1. Escaped(<<>>) = <<>>
  <2>1. \A c \in DOMAIN Entity : Named(<<>>, c) = <<>>
    BY NamedOne
  <2> QED
    BY <1>0, <2>1 DEF Escaped
<1>2. CASE x \notin DOMAIN Entity
  <2>1. x # "&" /\ x # ">" /\ x # "<" /\ x # "\""
    BY <1>0, <1>2
  <2>2. Named(<<x>>, "&") = <<x>> /\ Named(<<x>>, ">") = <<x>> /\ Named(<<x>>, "<") = <<x>>
        /\ Named(<<x>>, "\"") = <<x>>
    BY <1>0, <2>1, NamedOne
  <2> QED
    BY <1>1, <1>2, <2>2 DEF Escaped, Escape
<1>3. ASSUME NEW c \in {">", "<", "\""}
      PROVE  /\ Named(<<"&", "amp;">>, c) = <<"&", "amp;">>
             /\ Named(<<"&", "gt;">>, c) = <<"&", "gt;">>
             /\ Named(<<"&", "lt;">>, c) = <<"&", "lt;">>
  <2>1. c \in DOMAIN Entity /\ c # "&" /\ c # "amp;" /\ c # "gt;" /\ c # "lt;"
    BY <1>0
  <2> QED
    BY <1>0, <2>1, NamedPair
<1>4. CASE x = "&"
  <2>1. Named(<<x>>, "&") = <<"&", "amp;">>
    BY <1>0, <1>4, NamedOne
  <2> QED
    BY <1>0, <1>1, <1>3, <1>4, <2>1 DEF Escaped, Escape
<1>5. CASE x = ">"
  <2>1. Named(<<x>>, "&") = <<x>> /\ Named(<<x>>, ">") = <<"&", "gt;">>
    BY <1>0, <1>5, NamedOne
  <2> QED
    BY <1>0, <1>1, <1>3, <1>5, <2>1 DEF Escaped, Escape
<1>6. CASE x = "<"
  <2>1. Named(<<x>>, "&") = <<x>> /\ Named(<<x>>, ">") = <<x>> /\ Named(<<x>>, "<") = <<"&", "lt;">>
    BY <1>0, <1>6, NamedOne
  <2> QED
    BY <1>0, <1>1, <1>3, <1>6, <2>1 DEF Escaped, Escape
<1>7. CASE x = "\""
  <2>1. /\ Named(<<x>>, "&") = <<x>> /\ Named(<<x>>, ">") = <<x>> /\ Named(<<x>>, "<") = <<x>>
        /\ Named(<<x>>, "\"") = <<"&", "quot;">>
    BY <1>0, <1>7, NamedOne
  <2> QED
    BY <1>0, <1>1, <1>7, <2>1 DEF Escaped, Escape
<1> QED
  BY <1>0, <1>2, <1>4, <1>5, <1>6, <1>7

-----------------------------------------------------------------------------
(* What a browser reads in it. *)

\* No markup, and behind every ampersand a name.
Safe(h) ==
    /\ h \in Seq(Characters)
    /\ \A i \in 1..Len(h) : h[i] # "<" /\ h[i] # ">"
    /\ \A i \in 1..Len(h) : h[i] = "&" => i < Len(h) /\ h[i + 1] \in Names

DecodedAt(h, i) ==
    IF NameAt(h, i) THEN <<CHOOSE x \in DOMAIN Entity : Entity[x] = h[i]>>
    ELSE IF NameAt(h, i + 1) THEN <<>> ELSE <<h[i]>>

DecodedParts(p, h) == p = [i \in 1..Len(h) |-> DecodedAt(h, i)]

LEMMA DecodedIs ==
    ASSUME NEW h \in Seq(Characters), NEW p, DecodedParts(p, h)
    PROVE  /\ p \in Seq(Seq(Characters)) /\ Len(p) = Len(h) /\ Decoded(h) = FlattenSeq(p)
           /\ \A i \in 1..Len(h) : p[i] = DecodedAt(h, i)
<1>1. ASSUME NEW i \in 1..Len(h) PROVE DecodedAt(h, i) \in Seq(Characters)
  <2>1. h[i] \in Characters
    OBVIOUS
  <2>2. CASE NameAt(h, i)
    <3>1. \E x \in DOMAIN Entity : Entity[x] = h[i]
      BY <2>2 DEF NameAt, Names
    <3> DEFINE x == CHOOSE x \in DOMAIN Entity : Entity[x] = h[i]
    <3>2. x \in DOMAIN Entity
      BY <3>1
    <3>3. DecodedAt(h, i) = <<x>>
      BY <2>2 DEF DecodedAt
    <3> HIDE DEF x
    <3>4. x \in Characters
      BY <3>2, EntityIs
    <3> QED
      BY <3>3, <3>4
  <2>3. CASE ~NameAt(h, i)
    <3>1. DecodedAt(h, i) = <<>> \/ DecodedAt(h, i) = <<h[i]>>
      BY <2>3 DEF DecodedAt
    <3>2. <<>> \in Seq(Characters) /\ <<h[i]>> \in Seq(Characters)
      BY <2>1
    <3> QED
      BY <3>1, <3>2
  <2> QED
    BY <2>2, <2>3
<1>2. Len(h) \in Nat
  OBVIOUS
<1>3. p = [i \in 1..Len(h) |-> DecodedAt(h, i)]
  BY DEF DecodedParts
<1>4. Decoded(h) = FlattenSeq(p)
  BY <1>3 DEF Decoded, DecodedAt
<1> QED
  BY <1>1, <1>2, <1>3, <1>4

\* Two outputs, one after the other.
LEMMA SafeConcat ==
    ASSUME NEW h, NEW e, Safe(h), Safe(e)
    PROVE  /\ Safe(h \o e)
           /\ \A i \in 1..Len(h) + 1 : NameAt(h \o e, i) <=> NameAt(h, i)
           /\ \A j \in 1..Len(e) + 1 : NameAt(h \o e, Len(h) + j) <=> NameAt(e, j)
<1> DEFINE u == h \o e
           n == Len(h)
           k == Len(e)
<1>1. /\ h \in Seq(Characters) /\ e \in Seq(Characters) /\ u \in Seq(Characters)
      /\ n \in Nat /\ k \in Nat /\ Len(u) = n + k
      /\ \A i \in 1..n : u[i] = h[i]
      /\ \A j \in 1..k : u[n + j] = e[j]
  <2>1. h \in Seq(Characters) /\ e \in Seq(Characters)
    BY DEF Safe
  <2>2. /\ u \in Seq(Characters) /\ n \in Nat /\ k \in Nat /\ Len(u) = n + k
        /\ \A i \in 1..n + k : u[i] = IF i <= n THEN h[i] ELSE e[i - n]
    BY <2>1, ConcatProperties, LenProperties
  <2> HIDE DEF u, n, k
  <2> QED
    BY <2>1, <2>2
<1>2. /\ \A i \in 1..n : h[i] # "<" /\ h[i] # ">"
      /\ \A i \in 1..n : h[i] = "&" => i < n /\ h[i + 1] \in Names
      /\ \A i \in 1..k : e[i] # "<" /\ e[i] # ">"
      /\ \A i \in 1..k : e[i] = "&" => i < k /\ e[i + 1] \in Names
  BY DEF Safe
<1>3. /\ \A i : NameAt(u, i) <=> 1 < i /\ i <= n + k /\ u[i] \in Names /\ u[i - 1] = "&"
      /\ \A i : NameAt(h, i) <=> 1 < i /\ i <= n /\ h[i] \in Names /\ h[i - 1] = "&"
      /\ \A i : NameAt(e, i) <=> 1 < i /\ i <= k /\ e[i] \in Names /\ e[i - 1] = "&"
  BY <1>1 DEF NameAt
<1> HIDE DEF u, n, k
<1>4. n > 0 => u[n] # "&"
  <2>1. n > 0 => n \in 1..n
    BY <1>1
  <2> QED
    BY <1>1, <1>2, <2>1
<1>5. ASSUME NEW i \in 1..n + 1 PROVE NameAt(u, i) <=> NameAt(h, i)
  <2>1. CASE i = n + 1
    <3>1. ~NameAt(h, i)
      BY <1>1, <1>3, <2>1
    <3>2. NameAt(u, i) => n > 0 /\ u[n] = "&"
      <4>1. i - 1 = n
        BY <1>1, <2>1
      <4> QED
        BY <1>1, <1>3, <2>1, <4>1
    <3> QED
      BY <1>4, <3>1, <3>2
  <2>2. CASE i <= n /\ 1 < i
    <3>1. i \in 1..n /\ i - 1 \in 1..n
      BY <1>1, <2>2
    <3>2. u[i] = h[i] /\ u[i - 1] = h[i - 1]
      BY <1>1, <3>1
    <3>3. NameAt(u, i) <=> 1 < i /\ i <= n + k /\ h[i] \in Names /\ h[i - 1] = "&"
      BY <1>3, <3>2
    <3>4. 1 < i /\ i <= n + k /\ i <= n
      BY <1>1, <2>2
    <3>5. NameAt(h, i) <=> 1 < i /\ i <= n /\ h[i] \in Names /\ h[i - 1] = "&"
      BY <1>3
    <3> QED
      BY <3>3, <3>4, <3>5
  <2>3. CASE i = 1
    BY <1>3, <2>3
  <2> QED
    BY <1>1, <2>1, <2>2, <2>3
<1>6. ASSUME NEW j \in 1..k + 1 PROVE NameAt(u, n + j) <=> NameAt(e, j)
  <2>1. CASE j = 1
    <3>1. ~NameAt(e, j)
      BY <1>3, <2>1
    <3>2. NameAt(u, n + j) => n > 0 /\ u[n] = "&"
      <4>1. n + j - 1 = n
        BY <1>1, <2>1
      <4> QED
        BY <1>1, <1>3, <2>1, <4>1
    <3> QED
      BY <1>4, <3>1, <3>2
  <2>2. CASE 1 < j /\ j <= k
    <3>1. j \in 1..k /\ j - 1 \in 1..k /\ n + (j - 1) = n + j - 1
      BY <1>1, <2>2
    <3>2. u[n + j] = e[j] /\ u[n + (j - 1)] = e[j - 1]
      BY <1>1, <3>1
    <3>3. u[n + j - 1] = e[j - 1]
      BY <3>1, <3>2
    <3>4. 1 < n + j /\ n + j <= n + k
      BY <1>1, <2>2
    <3>5. NameAt(u, n + j) <=>
          1 < n + j /\ n + j <= n + k /\ u[n + j] \in Names /\ u[n + j - 1] = "&"
      BY <1>1 DEF NameAt
    <3>6. NameAt(e, j) <=> 1 < j /\ j <= k /\ e[j] \in Names /\ e[j - 1] = "&"
      BY <1>3
    <3> QED
      BY <2>2, <3>2, <3>3, <3>4, <3>5, <3>6
  <2>3. CASE j = k + 1 /\ 1 < j
    <3>1. ~(n + j <= n + k) /\ ~(j <= k)
      BY <1>1, <2>3
    <3> QED
      BY <1>3, <3>1
  <2> QED
    BY <1>1, <2>1, <2>2, <2>3
<1>7. ASSUME NEW i \in 1..n + k
      PROVE  /\ u[i] # "<" /\ u[i] # ">"
             /\ u[i] = "&" => i < n + k /\ u[i + 1] \in Names
  <2>1. CASE i <= n
    <3>1. i \in 1..n /\ u[i] = h[i]
      BY <1>1, <2>1
    <3>2. u[i] = "&" => i < n /\ u[i + 1] \in Names
      <4> SUFFICES ASSUME u[i] = "&" PROVE i < n /\ u[i + 1] \in Names
        OBVIOUS
      <4>1. i < n /\ h[i + 1] \in Names
        BY <1>2, <3>1
      <4>2. i + 1 \in 1..n
        BY <1>1, <4>1
      <4> QED
        BY <1>1, <4>1, <4>2
    <3>3. i < n => i < n + k
      BY <1>1
    <3>4. h[i] # "<" /\ h[i] # ">"
      BY <1>2, <3>1
    <3> QED
      BY <3>1, <3>2, <3>3, <3>4
  <2>2. CASE ~(i <= n)
    <3> DEFINE j == i - n
    <3>1. j \in 1..k /\ n + j = i
      BY <1>1, <2>2
    <3> HIDE DEF j
    <3>2. u[i] = e[j]
      BY <1>1, <3>1
    <3>3. u[i] = "&" => i < n + k /\ u[i + 1] \in Names
      <4> SUFFICES ASSUME u[i] = "&" PROVE i < n + k /\ u[i + 1] \in Names
        OBVIOUS
      <4>1. j < k /\ e[j + 1] \in Names
        BY <1>2, <3>1, <3>2
      <4>2. j + 1 \in 1..k /\ n + (j + 1) = i + 1
        BY <1>1, <3>1, <4>1
      <4>3. u[n + (j + 1)] = e[j + 1]
        BY <1>1, <4>2
      <4>4. i < n + k
        BY <1>1, <3>1, <4>1
      <4>5. u[i + 1] = e[j + 1]
        BY <4>2, <4>3
      <4> QED
        BY <4>1, <4>4, <4>5
    <3>4. e[j] # "<" /\ e[j] # ">"
      BY <1>2, <3>1
    <3> QED
      BY <3>2, <3>3, <3>4
  <2> QED
    BY <2>1, <2>2
<1>8. Safe(u)
  BY <1>1, <1>7 DEF Safe
<1> QED
  BY <1>5, <1>6, <1>8 DEF u, n, k

LEMMA DecodedConcat ==
    ASSUME NEW h, NEW e, Safe(h), Safe(e)
    PROVE  Decoded(h) \in Seq(Characters) /\ Decoded(h \o e) = Decoded(h) \o Decoded(e)
<1> DEFINE u == h \o e
           n == Len(h)
           k == Len(e)
<1>1. /\ h \in Seq(Characters) /\ e \in Seq(Characters) /\ u \in Seq(Characters)
      /\ n \in Nat /\ k \in Nat /\ Len(u) = n + k
      /\ \A i \in 1..n : u[i] = h[i]
      /\ \A j \in 1..k : u[n + j] = e[j]
  <2>1. h \in Seq(Characters) /\ e \in Seq(Characters)
    BY DEF Safe
  <2>2. /\ u \in Seq(Characters) /\ n \in Nat /\ k \in Nat /\ Len(u) = n + k
        /\ \A i \in 1..n + k : u[i] = IF i <= n THEN h[i] ELSE e[i - n]
    BY <2>1, ConcatProperties, LenProperties
  <2> HIDE DEF u, n, k
  <2> QED
    BY <2>1, <2>2
<1>2. PICK p : DecodedParts(p, h)
  BY DEF DecodedParts
<1>3. PICK q : DecodedParts(q, e)
  BY DEF DecodedParts
<1>4. PICK r : DecodedParts(r, u)
  BY DEF DecodedParts
<1>5. /\ p \in Seq(Seq(Characters)) /\ Len(p) = n /\ Decoded(h) = FlattenSeq(p)
      /\ \A i \in 1..n : p[i] = DecodedAt(h, i)
  BY <1>1, <1>2, DecodedIs
<1>6. /\ q \in Seq(Seq(Characters)) /\ Len(q) = k /\ Decoded(e) = FlattenSeq(q)
      /\ \A i \in 1..k : q[i] = DecodedAt(e, i)
  BY <1>1, <1>3, DecodedIs
<1>7. /\ r \in Seq(Seq(Characters)) /\ Len(r) = n + k /\ Decoded(u) = FlattenSeq(r)
      /\ \A i \in 1..n + k : r[i] = DecodedAt(u, i)
  <2> HIDE DEF u, n, k
  <2> QED
    BY <1>1, <1>4, DecodedIs
<1>8. /\ \A i \in 1..n + 1 : NameAt(u, i) <=> NameAt(h, i)
      /\ \A j \in 1..k + 1 : NameAt(u, n + j) <=> NameAt(e, j)
  BY SafeConcat
<1> HIDE DEF u, n, k
<1>9. ASSUME NEW i \in 1..n PROVE r[i] = p[i]
  <2>1. i \in 1..n + 1 /\ i + 1 \in 1..n + 1 /\ i \in 1..n + k
    BY <1>1
  <2>2. (NameAt(u, i) <=> NameAt(h, i)) /\ (NameAt(u, i + 1) <=> NameAt(h, i + 1)) /\ u[i] = h[i]
    BY <1>1, <1>8, <2>1
  <2>3. DecodedAt(u, i) = DecodedAt(h, i)
    BY <2>2 DEF DecodedAt
  <2> QED
    BY <1>5, <1>7, <2>1, <2>3
<1>10. ASSUME NEW j \in 1..k PROVE r[n + j] = q[j]
  <2>1. j \in 1..k + 1 /\ j + 1 \in 1..k + 1 /\ n + j \in 1..n + k /\ n + (j + 1) = n + j + 1
    BY <1>1
  <2>2. (NameAt(u, n + j) <=> NameAt(e, j)) /\ (NameAt(u, n + (j + 1)) <=> NameAt(e, j + 1))
    BY <1>8, <2>1
  <2>3. (NameAt(u, n + j + 1) <=> NameAt(e, j + 1)) /\ u[n + j] = e[j]
    BY <1>1, <2>1, <2>2
  <2>4. DecodedAt(u, n + j) = DecodedAt(e, j)
    BY <2>2, <2>3 DEF DecodedAt
  <2> QED
    BY <1>6, <1>7, <2>1, <2>4
<1>11. Joined(p, q, r, Seq(Characters))
  BY <1>1, <1>5, <1>6, <1>7, <1>9, <1>10 DEF Joined
<1>12. r = p \o q
  BY <1>11, JoinedIs
<1>13. FlattenSeq(p \o q) = FlattenSeq(p) \o FlattenSeq(q) /\ FlattenSeq(p) \in Seq(Characters)
  BY <1>5, <1>6, FlattenConcat, FlattenMore, EmptySeq
<1> QED
  BY <1>5, <1>6, <1>7, <1>12, <1>13 DEF u

\* A character as it is written is safe, and is read as itself.
LEMMA EscapeReads ==
    ASSUME NEW x \in Characters
    PROVE  Safe(Escape(x)) /\ Decoded(Escape(x)) = <<x>>
<1>0. /\ DOMAIN Entity = {"&", "<", ">", "\""}
      /\ Names = {"amp;", "lt;", "gt;", "quot;"}
      /\ DOMAIN Entity \subseteq Characters /\ Names \subseteq Characters
  BY EntityIs
<1>1. CASE x \in DOMAIN Entity
  <2> DEFINE y == Entity[x]
             h == <<"&", y>>
  <2>1. y \in Names /\ Escape(x) = h
    BY <1>1 DEF Names, Escape
  <2>2. (CHOOSE z \in DOMAIN Entity : Entity[z] = y) = x
    <3>1. \A z \in DOMAIN Entity : Entity[z] = y => z = x
      BY <1>1, EntityIs
    <3> QED
      BY <1>1, <3>1
  <2> HIDE DEF y
  <2>3. y \in Characters /\ "&" \in Characters /\ y # "&" /\ y # "<" /\ y # ">"
    BY <1>0, <2>1
  <2>4. h \in Seq(Characters) /\ Len(h) = 2 /\ h[1] = "&" /\ h[2] = y
    BY <2>3
  <2> HIDE DEF h
  <2>5. Safe(h)
    <3>1. \A i \in 1..Len(h) : i = 1 \/ i = 2
      BY <2>4
    <3>2. 1 < Len(h) /\ h[1 + 1] = y
      BY <2>4
    <3> QED
      BY <2>1, <2>3, <2>4, <3>1, <3>2 DEF Safe
  <2>6. ~NameAt(h, 1) /\ NameAt(h, 2) /\ NameAt(h, 1 + 1)
    BY <2>1, <2>4 DEF NameAt
  <2>7. DecodedAt(h, 1) = <<>> /\ DecodedAt(h, 2) = <<x>>
    BY <2>2, <2>4, <2>6 DEF DecodedAt
  <2>8. PICK p : DecodedParts(p, h)
    BY DEF DecodedParts
  <2>9. /\ p \in Seq(Seq(Characters)) /\ Len(p) = 2 /\ Decoded(h) = FlattenSeq(p)
        /\ p[1] = <<>> /\ p[2] = <<x>>
    <3>1. /\ p \in Seq(Seq(Characters)) /\ Len(p) = Len(h) /\ Decoded(h) = FlattenSeq(p)
          /\ \A i \in 1..Len(h) : p[i] = DecodedAt(h, i)
      BY <2>4, <2>8, DecodedIs
    <3>2. 1 \in 1..Len(h) /\ 2 \in 1..Len(h)
      BY <2>4
    <3>3. p[1] = DecodedAt(h, 1) /\ p[2] = DecodedAt(h, 2)
      BY <3>1, <3>2
    <3> QED
      BY <2>4, <2>7, <3>1, <3>3
  <2>10. p = Append(<< <<>> >>, <<x>>)
    <3> DEFINE none == <<>>
               one == <<x>>
    <3>1. p[1] = none /\ p[2] = one
      BY <2>9
    <3>2. none \in Seq(Characters) /\ one \in Seq(Characters)
      OBVIOUS
    <3> HIDE DEF none, one
    <3>3. p = Append(<<none>>, one)
      BY <2>9, <3>1, <3>2
    <3> QED
      BY <3>3 DEF none, one
  <2>11. FlattenSeq(p) = <<x>>
    <3> DEFINE none == <<>>
               one == <<x>>
               first == <<none>>
    <3>1. none \in Seq(Characters) /\ one \in Seq(Characters) /\ p = Append(first, one)
      BY <2>10
    <3>2. none \o one = one
      OBVIOUS
    <3> HIDE DEF none, one
    <3>3. FlattenSeq(first) = none
      BY <3>1, FlattenOne
    <3>4. first \in Seq(Seq(Characters))
      BY <3>1
    <3> HIDE DEF first
    <3>5. FlattenSeq(p) = FlattenSeq(first) \o one
      BY <3>1, <3>4, FlattenMore
    <3>6. FlattenSeq(p) = one
      BY <3>2, <3>3, <3>5
    <3> QED
      BY <3>6 DEF one
  <2> QED
    BY <2>1, <2>5, <2>9, <2>11
<1>2. CASE x \notin DOMAIN Entity
  <2> DEFINE h == <<x>>
  <2>1. Escape(x) = h /\ h \in Seq(Characters) /\ Len(h) = 1 /\ h[1] = x
    BY <1>2 DEF Escape
  <2>2. x # "&" /\ x # "<" /\ x # ">"
    BY <1>0, <1>2
  <2> HIDE DEF h
  <2>3. \A i \in 1..Len(h) : i = 1
    BY <2>1
  <2>4. Safe(h)
    BY <2>1, <2>2, <2>3 DEF Safe
  <2>5. ~NameAt(h, 1) /\ ~NameAt(h, 1 + 1)
    BY <2>1 DEF NameAt
  <2>6. DecodedAt(h, 1) = <<x>>
    BY <2>1, <2>5 DEF DecodedAt
  <2>7. PICK p : DecodedParts(p, h)
    BY DEF DecodedParts
  <2>8. /\ p \in Seq(Seq(Characters)) /\ Len(p) = 1 /\ Decoded(h) = FlattenSeq(p)
        /\ p[1] = <<x>>
    BY <2>1, <2>6, <2>7, DecodedIs
  <2> DEFINE one == <<x>>
  <2>9. one \in Seq(Characters) /\ p[1] = one
    BY <2>8
  <2> HIDE DEF one
  <2>10. p = <<one>>
    BY <2>8, <2>9
  <2>11. FlattenSeq(p) = one
    BY <2>9, <2>10, FlattenOne
  <2> QED
    BY <2>1, <2>4, <2>8, <2>11 DEF one
<1> QED
  BY <1>1, <1>2

LEMMA SafeNothing == Safe(<<>>) /\ Decoded(<<>>) = <<>>
<1>1. <<>> \in Seq(Characters) /\ Len(<<>>) = 0
  OBVIOUS
<1>2. Safe(<<>>)
  BY <1>1 DEF Safe
<1>3. [i \in 1..Len(<<>>) |-> DecodedAt(<<>>, i)] = <<>>
  OBVIOUS
<1>4. Decoded(<<>>) = FlattenSeq([i \in 1..Len(<<>>) |-> DecodedAt(<<>>, i)])
  BY DEF Decoded, DecodedAt
<1> QED
  BY <1>2, <1>3, <1>4, FlattenNone

\* What is written for a text is read as the text.
LEMMA EscapedReads ==
    ASSUME NEW s \in Seq(Characters)
    PROVE  Safe(Escaped(s)) /\ Decoded(Escaped(s)) = s
<1> DEFINE S == {t \in Seq(Characters) : Safe(Escaped(t)) /\ Decoded(Escaped(t)) = t}
<1>1. <<>> \in S
  <2>1. Escaped(<<>>) = <<>>
    BY EscapedOne, EntityIs
  <2> QED
    BY <2>1, SafeNothing
<1>2. ASSUME NEW t \in Seq(Characters), NEW x \in Characters, t \in S
      PROVE  Append(t, x) \in S
  <2> DEFINE y == <<x>>
             h == Escaped(t)
             e == Escaped(y)
  <2>1. Append(t, x) = t \o y /\ y \in Seq(Characters) /\ Append(t, x) \in Seq(Characters)
    BY AppendIs, AppendProperties
  <2>2. Safe(e) /\ Decoded(e) = y
    BY EscapedOne, EscapeReads
  <2>3. Safe(h) /\ Decoded(h) = t
    BY <1>2
  <2> HIDE DEF y
  <2>4. Escaped(t \o y) = h \o e
    BY <2>1, EscapedConcat
  <2> HIDE DEF h, e
  <2>5. Safe(h \o e) /\ Decoded(h \o e) = Decoded(h) \o Decoded(e)
    BY <2>2, <2>3, SafeConcat, DecodedConcat
  <2> QED
    BY <2>1, <2>2, <2>3, <2>4, <2>5
<1> HIDE DEF S
<1>3. Seq(Characters) \subseteq S
  BY <1>1, <1>2, AllSequences
<1> QED
  BY <1>3 DEF S

-----------------------------------------------------------------------------
(* The output as a sequence of elements. *)

LEMMA ElementsAre ==
    /\ \A tag \in Tags : Open(tag) \in Elements /\ Close(tag) \in Elements
    /\ \A html \in Seq(Characters) : Text(html) \in Elements
    /\ \A e \in Elements : \/ e.kind = "open" /\ e.tag \in Tags
                           \/ e.kind = "close" /\ e.tag \in Tags
                           \/ e.kind = "text" /\ e.html \in Seq(Characters)
<1>1. \A tag \in Tags : Open(tag) \in Elements /\ Close(tag) \in Elements
  BY DEF Elements
<1>2. \A html \in Seq(Characters) : Text(html) \in Elements
  BY DEF Elements, Text
<1>3. ASSUME NEW e \in Elements
      PROVE  \/ e.kind = "open" /\ e.tag \in Tags
             \/ e.kind = "close" /\ e.tag \in Tags
             \/ e.kind = "text" /\ e.html \in Seq(Characters)
  BY DEF Elements, Open, Close
<1> QED
  BY <1>1, <1>2, <1>3

\* The text in an element.
HtmlIn == [e \in Elements |-> IF e.kind = "text" THEN e.html ELSE <<>>]

LEMMA HtmlIs ==
    ASSUME NEW b \in Seq(Elements)
    PROVE  Writes(HtmlIn, Elements, Characters) /\ HtmlOf(b) = Written(HtmlIn, b)
<1>1. \A e \in Elements : HtmlIn[e] = IF e.kind = "text" THEN e.html ELSE <<>>
  BY DEF HtmlIn
<1>2. \A e \in Elements : (IF e.kind = "text" THEN e.html ELSE <<>>) \in Seq(Characters)
  BY ElementsAre
<1>3. \A i \in 1..Len(b) : b[i] \in Elements
  OBVIOUS
<1>4. [i \in 1..Len(b) |-> IF b[i].kind = "text" THEN b[i].html ELSE <<>>]
         = [i \in 1..Len(b) |-> HtmlIn[b[i]]]
  BY <1>1, <1>3
<1>5. HtmlOf(b) = Written(HtmlIn, b)
  BY <1>4 DEF HtmlOf, Written
<1>6. Writes(HtmlIn, Elements, Characters)
  BY <1>2 DEF HtmlIn, Writes
<1> QED
  BY <1>5, <1>6

\* A tag is no text, and a text comes last.
LEMMA HtmlMore ==
    ASSUME NEW b \in Seq(Elements), NEW e \in Elements
    PROVE  /\ HtmlOf(b) \in Seq(Characters)
           /\ HtmlOf(Append(b, e)) = IF e.kind = "text" THEN HtmlOf(b) \o e.html ELSE HtmlOf(b)
<1>1. Append(b, e) \in Seq(Elements)
  BY AppendProperties
<1>2. /\ Writes(HtmlIn, Elements, Characters)
      /\ HtmlOf(b) = Written(HtmlIn, b) /\ HtmlOf(Append(b, e)) = Written(HtmlIn, Append(b, e))
  BY <1>1, HtmlIs
<1>3. Written(HtmlIn, b) \in Seq(Characters)
  BY <1>2, WrittenConcat
<1>4. Written(HtmlIn, Append(b, e)) = Written(HtmlIn, b) \o HtmlIn[e]
  BY <1>2, WrittenMore
<1>5. HtmlIn[e] = IF e.kind = "text" THEN e.html ELSE <<>>
  BY DEF HtmlIn
<1>6. HtmlOf(b) \o <<>> = HtmlOf(b)
  BY <1>2, <1>3
<1> QED
  BY <1>2, <1>3, <1>4, <1>5, <1>6

LEMMA HtmlNone == HtmlOf(<<>>) = <<>>
<1>1. <<>> \in Seq(Elements)
  OBVIOUS
<1>2. Writes(HtmlIn, Elements, Characters) /\ HtmlOf(<<>>) = Written(HtmlIn, <<>>)
  BY <1>1, HtmlIs
<1>3. Written(HtmlIn, <<>>) = <<>>
  <2>1. Open("b") \in Elements
    BY ElementsAre DEF Tags
  <2> QED
    BY <1>2, <2>1, WrittenOne
<1> QED
  BY <1>2, <1>3

-----------------------------------------------------------------------------
(* How the tags nest. *)

\* The tags that may be open, and what an element makes of them.
Opened == Seq(Tags \cup {"mismatch"})
NestStep == [open \in Opened |-> [item \in Elements |-> Nest(open, item)]]

LEMMA NestStepping == Stepping(Opened, Elements, NestStep, <<>>)
<1>1. ASSUME NEW open \in Opened, NEW item \in Elements
      PROVE  Nest(open, item) \in Opened
  <2>1. CASE item.kind = "open" /\ item.tag \in Tags
    <3>1. Nest(open, item) = Append(open, item.tag)
      BY <2>1 DEF Nest
    <3> QED
      BY <2>1, <3>1 DEF Opened
  <2>2. CASE item.kind = "close" /\ item.tag \in Tags
    <3>1. \/ open # <<>> /\ Nest(open, item) = Front(open)
          \/ Nest(open, item) = Append(open, "mismatch")
      BY <2>2 DEF Nest
    <3>2. open # <<>> => Front(open) \in Opened
      BY FrontLast DEF Opened
    <3>3. Append(open, "mismatch") \in Opened
      BY DEF Opened
    <3> QED
      BY <3>1, <3>2, <3>3
  <2>3. CASE item.kind = "text"
    <3>1. Nest(open, item) = open
      BY <2>3 DEF Nest
    <3> QED
      BY <3>1
  <2> QED
    BY <2>1, <2>2, <2>3, ElementsAre
<1>2. <<>> \in Opened
  BY DEF Opened
<1> QED
  BY <1>1, <1>2 DEF Stepping, NestStep

LEMMA NestingIs ==
    ASSUME NEW s \in Seq(Elements)
    PROVE  Nesting(s) = FoldOf(NestStep, <<>>, s)
<1> DEFINE Place(f, T) == IF T = {} THEN <<>> ELSE Nest(f[T \ {Max(T)}], s[Max(T)])
           it == CHOOSE f : f = [T \in SUBSET DOMAIN s |-> Place(f, T)]
           n == Len(s)
<1>1. Nesting(s) = it[1..n]
  <2>1. Nesting(s) = it[DOMAIN s]
    BY DEF FoldLeft, MapThenFoldSet, Nesting
  <2> QED
    BY <2>1
<1>2. Stepping(Opened, Elements, NestStep, <<>>)
  BY NestStepping
<1>3. \A a \in Opened, x \in Elements : NestStep[a][x] = Nest(a, x)
  BY DEF NestStep
<1>4. n \in Nat /\ DOMAIN s = 1..n /\ \A i \in 1..n : s[i] \in Elements
  OBVIOUS
<1>5. \A T \in SUBSET (1..n) : T # {} => /\ s[Max(T)] \in Elements /\ T \ {Max(T)} \in SUBSET (1..n)
  BY <1>4, WithoutGreatest
<1>6. PICK f : Iterate(f, NestStep, <<>>, s, n) /\ \A T \in SUBSET (1..n) : f[T] \in Opened
  <2> HIDE DEF n
  <2>1. n <= Len(s)
    BY <1>4 DEF n
  <2> QED
    BY <1>2, <1>4, <2>1, IterateExists
<1> HIDE DEF n
<1>7. f = [T \in SUBSET (1..n) |-> Place(f, T)]
  <2>1. f = [T \in SUBSET (1..n) |->
               IF T = {} THEN <<>> ELSE NestStep[f[T \ {Max(T)}]][s[Max(T)]]]
    BY <1>6 DEF Iterate
  <2>2. \A T \in SUBSET (1..n) : T # {} =>
           NestStep[f[T \ {Max(T)}]][s[Max(T)]] = Nest(f[T \ {Max(T)}], s[Max(T)])
    BY <1>3, <1>5, <1>6
  <2> QED
    BY <2>1, <2>2
<1>8. it = [T \in SUBSET (1..n) |-> Place(it, T)]
  <2>1. f = [T \in SUBSET DOMAIN s |-> Place(f, T)]
    BY <1>4, <1>7
  <2>2. it = [T \in SUBSET DOMAIN s |-> Place(it, T)]
    BY <2>1
  <2> QED
    BY <1>4, <2>2
<1> HIDE DEF it
<1>9. Follows(it, NestStep, <<>>, s, n, Opened)
  <2>1. it[{}] = <<>>
    BY <1>8
  <2>2. ASSUME NEW T \in SUBSET (1..n), T # {}, it[T \ {Max(T)}] \in Opened
        PROVE  it[T] = NestStep[it[T \ {Max(T)}]][s[Max(T)]]
    <3>1. it[T] = Nest(it[T \ {Max(T)}], s[Max(T)])
      BY <1>8, <2>2
    <3>2. s[Max(T)] \in Elements
      BY <1>5, <2>2
    <3> QED
      BY <1>3, <2>2, <3>1, <3>2
  <2> QED
    BY <2>1, <2>2 DEF Follows
<1>10. it[1..Len(s)] = FoldOf(NestStep, <<>>, s)
  <2>1. Follows(it, NestStep, <<>>, s, Len(s), Opened) /\ Len(s) <= Len(s)
    BY <1>4, <1>9 DEF n
  <2>2. \A i \in 1..Len(s) : s[i] = s[i]
    OBVIOUS
  <2> QED
    BY <1>2, <2>1, <2>2, IterateIsFold
<1> QED
  BY <1>1, <1>10 DEF n

LEMMA NestingMore ==
    ASSUME NEW b \in Seq(Elements), NEW e \in Elements
    PROVE  /\ Nesting(b) \in Opened
           /\ Nesting(Append(b, e)) = Nest(Nesting(b), e)
<1>1. Append(b, e) \in Seq(Elements)
  BY AppendProperties
<1>2. /\ Nesting(b) = FoldOf(NestStep, <<>>, b)
      /\ Nesting(Append(b, e)) = FoldOf(NestStep, <<>>, Append(b, e))
  BY <1>1, NestingIs
<1>3. /\ FoldOf(NestStep, <<>>, b) \in Opened
      /\ FoldOf(NestStep, <<>>, Append(b, e)) = NestStep[FoldOf(NestStep, <<>>, b)][e]
  BY NestStepping, FoldOfMore
<1>4. \A o \in Opened : NestStep[o][e] = Nest(o, e)
  BY DEF NestStep
<1> QED
  BY <1>2, <1>3, <1>4

LEMMA NestingNone == Nesting(<<>>) = <<>>
<1>1. <<>> \in Seq(Elements)
  OBVIOUS
<1> QED
  BY <1>1, NestingIs, FoldOfNone

-----------------------------------------------------------------------------
(* What the handlers make of an output. *)

\* The outputs that are well nested and have this text in them.
Good(html) ==
    {out \in [buf : Seq(Elements), stack : Seq(Tags)] :
        Nesting(out.buf) = out.stack /\ HtmlOf(out.buf) = html}

LEMMA GoodIs ==
    ASSUME NEW html, NEW out, out \in Good(html)
    PROVE  /\ out.buf \in Seq(Elements) /\ out.stack \in Seq(Tags)
           /\ Nesting(out.buf) = out.stack /\ HtmlOf(out.buf) = html
BY DEF Good

LEMMA GoodWhen ==
    ASSUME NEW html, NEW b \in Seq(Elements), NEW st \in Seq(Tags),
           Nesting(b) = st, HtmlOf(b) = html
    PROVE  [buf |-> b, stack |-> st] \in Good(html)
BY DEF Good

LEMMA PushTagKeeps ==
    ASSUME NEW html, NEW out, out \in Good(html), NEW tag \in Tags
    PROVE  PushTag(out, tag) \in Good(html)
<1> DEFINE b == out.buf
           e == Open(tag)
<1>1. b \in Seq(Elements) /\ out.stack \in Seq(Tags) /\ Nesting(b) = out.stack /\ HtmlOf(b) = html
  BY GoodIs
<1>2. e \in Elements /\ e.kind = "open" /\ e.tag = tag
  BY ElementsAre DEF Open
<1>3. PushTag(out, tag) = [buf |-> Append(b, e), stack |-> Append(out.stack, tag)]
  BY DEF PushTag
<1> HIDE DEF b, e
<1>4. Append(b, e) \in Seq(Elements) /\ Append(out.stack, tag) \in Seq(Tags)
  BY <1>1, <1>2, AppendProperties
<1>5. Nesting(Append(b, e)) = Nest(Nesting(b), e) /\ HtmlOf(Append(b, e)) = html
  BY <1>1, <1>2, NestingMore, HtmlMore
<1>6. Nest(out.stack, e) = Append(out.stack, tag)
  BY <1>2 DEF Nest
<1> QED
  BY <1>1, <1>3, <1>4, <1>5, <1>6, GoodWhen

\* A tag that was opened last is closed.
LEMMA CloseKeeps ==
    ASSUME NEW b \in Seq(Elements), NEW st \in Seq(Tags), NEW tag \in Tags,
           Nesting(b) = Append(st, tag)
    PROVE  /\ Append(b, Close(tag)) \in Seq(Elements)
           /\ Nesting(Append(b, Close(tag))) = st
           /\ HtmlOf(Append(b, Close(tag))) = HtmlOf(b)
<1> DEFINE e == Close(tag)
<1>1. e \in Elements /\ e.kind = "close" /\ e.tag = tag
  BY ElementsAre DEF Close
<1> HIDE DEF e
<1>2. Append(b, e) \in Seq(Elements)
  BY <1>1, AppendProperties
<1>3. Nesting(Append(b, e)) = Nest(Append(st, tag), e) /\ HtmlOf(Append(b, e)) = HtmlOf(b)
  BY <1>1, NestingMore, HtmlMore
<1>4. Append(st, tag) # <<>> /\ Front(Append(st, tag)) = st /\ Last(Append(st, tag)) = tag
  BY FrontOfAppend
<1>5. Nest(Append(st, tag), e) = st
  BY <1>1, <1>4 DEF Nest
<1> QED
  BY <1>2, <1>3, <1>5 DEF e

LEMMA CloseTagKeeps ==
    ASSUME NEW html, NEW out, out \in Good(html), NEW tag \in Tags
    PROVE  CloseTag(out, tag) \in Good(html)
<1>1. /\ out.buf \in Seq(Elements) /\ out.stack \in Seq(Tags)
      /\ Nesting(out.buf) = out.stack /\ HtmlOf(out.buf) = html
  BY GoodIs
<1>2. CASE out.stack # <<>> /\ Last(out.stack) = tag
  <2>1. Front(out.stack) \in Seq(Tags) /\ out.stack = Append(Front(out.stack), tag)
    BY <1>1, <1>2, FrontLast
  <2>2. CloseTag(out, tag) = [buf |-> Append(out.buf, Close(tag)), stack |-> Front(out.stack)]
    BY <1>2 DEF CloseTag
  <2> DEFINE st == Front(out.stack)
             b == out.buf
  <2>3. b \in Seq(Elements) /\ st \in Seq(Tags) /\ Nesting(b) = Append(st, tag) /\ HtmlOf(b) = html
    BY <1>1, <2>1
  <2>4. CloseTag(out, tag) = [buf |-> Append(b, Close(tag)), stack |-> st]
    BY <2>2
  <2> HIDE DEF st, b
  <2>5. /\ Append(b, Close(tag)) \in Seq(Elements)
        /\ Nesting(Append(b, Close(tag))) = st /\ HtmlOf(Append(b, Close(tag))) = html
    BY <2>3, CloseKeeps
  <2> QED
    BY <2>3, <2>4, <2>5, GoodWhen
<1>3. CASE ~(out.stack # <<>> /\ Last(out.stack) = tag)
  BY <1>3 DEF CloseTag
<1> QED
  BY <1>2, <1>3

\* What resetStyles writes: the open tags are closed, the last one first.
Closing(st) == Reverse([i \in 1..Len(st) |-> Close(st[i])])

LEMMA ClosingMore ==
    ASSUME NEW st \in Seq(Tags), NEW tag \in Tags
    PROVE  /\ Closing(st) \in Seq(Elements)
           /\ Closing(Append(st, tag)) = <<Close(tag)>> \o Closing(st)
<1> DEFINE n == Len(st)
           t == Append(st, tag)
           first == <<Close(tag)>>
           c == Closing(st)
           d == Closing(t)
<1>1. n \in Nat /\ Len(t) = n + 1 /\ t[n + 1] = tag /\ \A i \in 1..n : t[i] = st[i] /\ st[i] \in Tags
  BY AppendProperties, LenProperties
<1>2. Close(tag) \in Elements /\ \A x \in Tags : Close(x) \in Elements
  BY ElementsAre
<1>3. c = [i \in 1..n |-> Close(st[n - i + 1])]
  BY <1>1 DEF Closing, Reverse
<1>4. d = [i \in 1..n + 1 |-> Close(t[n + 1 - i + 1])]
  BY <1>1 DEF Closing, Reverse
<1>5. first \in Seq(Elements) /\ Len(first) = 1 /\ first[1] = Close(tag)
  BY <1>2
<1> HIDE DEF n, t, first, c, d
<1>6. \A i \in 1..n : n - i + 1 \in 1..n
  BY <1>1
<1>7. c \in Seq(Elements) /\ Len(c) = n /\ \A i \in 1..n : c[i] = Close(st[n - i + 1])
  <2>1. \A i \in 1..n : Close(st[n - i + 1]) \in Elements
    BY <1>1, <1>2, <1>6
  <2> QED
    BY <1>1, <1>3, <2>1
<1> DEFINE m == n + 1
<1>8. m \in Nat /\ m = n + 1 /\ d = [i \in 1..m |-> Close(t[m - i + 1])]
  BY <1>1, <1>4
<1> HIDE DEF m
<1>9. d \in Seq(Elements) /\ Len(d) = m /\ \A i \in 1..m : d[i] = Close(t[m - i + 1])
  <2>1. \A i \in 1..m : t[i] \in Tags
    BY <1>1, <1>8
  <2>2. \A i \in 1..m : m - i + 1 \in 1..m
    BY <1>8
  <2>3. \A i \in 1..m : Close(t[m - i + 1]) \in Elements
    BY <1>2, <2>1, <2>2
  <2> QED
    BY <1>8, <2>3
<1>10. \A i \in 1..Len(first) : d[i] = first[i]
  <2>1. m - 1 + 1 = m /\ 1 \in 1..m
    BY <1>1, <1>8
  <2>2. d[1] = Close(t[m])
    BY <1>9, <2>1
  <2> QED
    BY <1>1, <1>5, <1>8, <2>2
<1>11. ASSUME NEW i \in 1..Len(c) PROVE d[Len(first) + i] = c[i]
  <2> DEFINE j == 1 + i
             k == n - i + 1
  <2>1. i \in 1..n /\ j \in 1..m /\ m - j + 1 = k /\ k \in 1..n
    BY <1>1, <1>7, <1>8
  <2>2. c[i] = Close(st[k])
    BY <1>7, <2>1
  <2> HIDE DEF j, k
  <2>3. d[j] = Close(t[k])
    BY <1>9, <2>1
  <2>4. t[k] = st[k]
    BY <1>1, <2>1
  <2> QED
    BY <1>5, <2>2, <2>3, <2>4 DEF j
<1>12. Joined(first, c, d, Elements)
  BY <1>1, <1>5, <1>7, <1>8, <1>9, <1>10, <1>11 DEF Joined
<1> QED
  BY <1>7, <1>12, JoinedIs DEF first, c, d, t

\* Three outputs in a row.
Three(p, q, r) == p \in Seq(Elements) /\ q \in Seq(Elements) /\ r \in Seq(Elements)

LEMMA InARow == ASSUME NEW p, NEW q, NEW r, Three(p, q, r) PROVE (p \o q) \o r = p \o (q \o r)
<1> DEFINE B == Elements
<1>1. p \in Seq(B) /\ q \in Seq(B) /\ r \in Seq(B)
  BY DEF Three
<1> HIDE DEF B
<1> QED
  BY <1>1, ConcatAssociative

\* All of them are closed: nothing stays open, and the text is the same.
LEMMA ClosesAll ==
    ASSUME NEW b \in Seq(Elements), NEW st \in Seq(Tags), Nesting(b) = st
    PROVE  /\ b \o Closing(st) \in Seq(Elements)
           /\ Nesting(b \o Closing(st)) = <<>>
           /\ HtmlOf(b \o Closing(st)) = HtmlOf(b)
<1> DEFINE Closed(a, s) == /\ a \o Closing(s) \in Seq(Elements)
                           /\ Nesting(a \o Closing(s)) = <<>>
                           /\ HtmlOf(a \o Closing(s)) = HtmlOf(a)
           S == {s \in Seq(Tags) : \A a \in Seq(Elements) : Nesting(a) = s => Closed(a, s)}
<1>1. <<>> \in S
  <2>1. Closing(<<>>) = <<>>
    BY DEF Closing, Reverse
  <2>2. \A a \in Seq(Elements) : a \o <<>> = a
    OBVIOUS
  <2>3. \A a \in Seq(Elements) : Nesting(a) = <<>> => Closed(a, <<>>)
    BY <2>1, <2>2
  <2>4. <<>> \in Seq(Tags)
    OBVIOUS
  <2> QED
    BY <2>3, <2>4
<1>2. ASSUME NEW s \in Seq(Tags), NEW tag \in Tags, s \in S
      PROVE  Append(s, tag) \in S
  <2>1. Append(s, tag) \in Seq(Tags)
    BY AppendProperties
  <2>2. ASSUME NEW a \in Seq(Elements), Nesting(a) = Append(s, tag)
        PROVE  Closed(a, Append(s, tag))
    <3> DEFINE y == <<Close(tag)>>
               c == Closing(s)
               e == Append(a, Close(tag))
    <3>1. Close(tag) \in Elements
      BY ElementsAre
    <3>2. e = a \o y /\ y \in Seq(Elements)
      BY <3>1, AppendIs
    <3>3. e \in Seq(Elements) /\ Nesting(e) = s /\ HtmlOf(e) = HtmlOf(a)
      BY <2>2, CloseKeeps
    <3>4. c \in Seq(Elements) /\ Closing(Append(s, tag)) = y \o c
      BY ClosingMore
    <3>5. Closed(e, s)
      <4> HIDE DEF e
      <4> QED
        BY <1>2, <3>3
    <3> HIDE DEF y, c, e
    <3>6. (a \o y) \o c = a \o (y \o c)
      <4>1. Three(a, y, c)
        BY <3>2, <3>4 DEF Three
      <4> QED
        BY <4>1, InARow
    <3>7. e \o c = a \o Closing(Append(s, tag))
      BY <3>2, <3>4, <3>6
    <3> QED
      BY <3>3, <3>5, <3>7 DEF c
  <2> QED
    BY <2>1, <2>2
<1> HIDE DEF S
<1>3. Seq(Tags) \subseteq S
  BY <1>1, <1>2, AllSequences
<1>4. st \in S
  BY <1>3
<1> QED
  BY <1>4 DEF S

LEMMA ResetStylesKeeps ==
    ASSUME NEW html, NEW out, out \in Good(html)
    PROVE  ResetStyles(out) \in Good(html) /\ ResetStyles(out).stack = <<>>
<1>1. /\ out.buf \in Seq(Elements) /\ out.stack \in Seq(Tags)
      /\ Nesting(out.buf) = out.stack /\ HtmlOf(out.buf) = html
  BY GoodIs
<1> DEFINE b == out.buf \o Closing(out.stack)
<1>2. b \in Seq(Elements) /\ Nesting(b) = <<>> /\ HtmlOf(b) = html
  BY <1>1, ClosesAll
<1>3. ResetStyles(out) = [buf |-> b, stack |-> <<>>]
  BY DEF ResetStyles, Closing
<1> HIDE DEF b
<1>4. <<>> \in Seq(Tags)
  OBVIOUS
<1>5. [buf |-> b, stack |-> <<>>] \in Good(html)
  BY <1>2, <1>4, GoodWhen
<1> QED
  BY <1>3, <1>5

LEMMA DisplayKeeps ==
    ASSUME NEW html, NEW out, out \in Good(html), NEW code \in Int
    PROVE  Display(out, code) \in Good(html)
<1>1. ResetStyles(out) \in Good(html)
  BY ResetStylesKeeps
<1>2. \A tag \in Tags : PushTag(out, tag) \in Good(html) /\ CloseTag(out, tag) \in Good(html)
  BY PushTagKeeps, CloseTagKeeps
<1>3. "b" \in Tags /\ "i" \in Tags /\ "u" \in Tags /\ "blink" \in Tags /\ "strike" \in Tags /\ "span" \in Tags
  BY DEF Tags
<1>4. CASE code = 0
  BY <1>1, <1>4 DEF Display
<1>5. CASE code \in {1, 3, 4, 5, 6, 9}
  BY <1>2, <1>3, <1>5 DEF Display
<1>6. CASE code = 23 \/ code = 24
  BY <1>2, <1>3, <1>6 DEF Display
<1>7. CASE code \in {22, 39, 53} \cup 30..37 \cup 90..97
  <2>1. Display(out, code) = PushTag(out, "span")
    BY <1>7 DEF Display
  <2> QED
    BY <1>2, <1>3, <2>1
<1>8. CASE code \notin {0, 1, 3, 4, 5, 6, 9, 23, 24, 22, 39, 53} \cup 30..37 \cup 90..97
  <2>1. Display(out, code) = out
    BY <1>8 DEF Display
  <2> QED
    BY <2>1
<1> QED
  BY <1>4, <1>5, <1>6, <1>7, <1>8

-----------------------------------------------------------------------------
(* The codes of a sequence, and what they do. *)

Fields == Seq(Int) \ {<<>>}
FieldStep == [fields \in Fields |-> [c \in Parameter |-> Field(fields, c)]]

LEMMA FieldStepping == Stepping(Fields, Parameter, FieldStep, <<NaN>>)
<1>1. ASSUME NEW fields \in Fields, NEW c \in Parameter
      PROVE  Field(fields, c) \in Fields
  <2>0. fields \in Seq(Int) /\ fields # <<>>
    BY DEF Fields
  <2>1. CASE c = ";"
    <3>a. Field(fields, c) = Append(fields, NaN)
      BY <2>1 DEF Field
    <3>b. NaN \in Int
      BY DEF NaN
    <3>1. Field(fields, c) = Append(fields, NaN) /\ NaN \in Int
      BY <3>a, <3>b
    <3>2. Append(fields, NaN) \in Seq(Int) /\ Append(fields, NaN) # <<>>
      BY <2>0, <3>1, FrontOfAppend
    <3> QED
      BY <3>1, <3>2 DEF Fields
  <2>2. CASE c # ";"
    <3> DEFINE n == Len(fields)
               v == IF fields[n] = NaN THEN ValueOf(c) ELSE 10 * fields[n] + ValueOf(c)
    <3>1. n \in 1..Len(fields) /\ fields[n] \in Int
      BY <2>0, EmptySeq, LenProperties
    <3>2. ValueOf(c) \in Int
      <4> DEFINE digits == <<"0", "1", "2", "3", "4", "5", "6", "7", "8", "9">>
      <4>1. c \in Digit
        BY <2>2 DEF Parameter
      <4>2. /\ digits[1] = "0" /\ digits[2] = "1" /\ digits[3] = "2" /\ digits[4] = "3"
            /\ digits[5] = "4" /\ digits[6] = "5" /\ digits[7] = "6" /\ digits[8] = "7"
            /\ digits[9] = "8" /\ digits[10] = "9"
        OBVIOUS
      <4> HIDE DEF digits
      <4>3. \E i \in 1..10 : digits[i] = c
        BY <4>1, <4>2 DEF Digit
      <4>4. \E w \in 0..9 : digits[w + 1] = c
        <5>1. PICK i \in 1..10 : digits[i] = c
          BY <4>3
        <5>2. i - 1 \in 0..9 /\ (i - 1) + 1 = i
          OBVIOUS
        <5>3. digits[(i - 1) + 1] = c
          BY <5>1, <5>2
        <5> QED
          BY <5>2, <5>3
      <4>5. ValueOf(c) = CHOOSE w \in 0..9 : digits[w + 1] = c
        BY DEF ValueOf, digits
      <4>6. ValueOf(c) \in 0..9
        BY <4>4, <4>5
      <4> QED
        BY <4>6
    <3>3. v \in Int
      BY <3>1, <3>2
    <3>4. Field(fields, c) = [fields EXCEPT ![n] = v]
      BY <2>2 DEF Field
    <3> HIDE DEF n, v
    <3>5. /\ [fields EXCEPT ![n] = v] \in Seq(Int)
          /\ Len([fields EXCEPT ![n] = v]) = Len(fields)
      BY <2>0, <3>1, <3>3, ExceptSeq
    <3>6. Len(fields) # 0
      BY <2>0, EmptySeq, LenProperties
    <3>7. [fields EXCEPT ![n] = v] # <<>>
      <4>1. Len(<<>>) = 0
        OBVIOUS
      <4> QED
        BY <3>5, <3>6, <4>1
    <3> QED
      BY <3>4, <3>5, <3>7 DEF Fields
  <2> QED
    BY <2>1, <2>2
<1>2. <<NaN>> \in Fields
  BY DEF Fields, NaN
<1> QED
  BY <1>1, <1>2 DEF Stepping, FieldStep

LEMMA CodesIs ==
    ASSUME NEW s \in Seq(Parameter)
    PROVE  Codes(s) = FoldOf(FieldStep, <<NaN>>, s)
<1> DEFINE Place(f, T) == IF T = {} THEN <<NaN>> ELSE Field(f[T \ {Max(T)}], s[Max(T)])
           it == CHOOSE f : f = [T \in SUBSET DOMAIN s |-> Place(f, T)]
           n == Len(s)
<1>1. Codes(s) = it[1..n]
  <2>1. Codes(s) = it[DOMAIN s]
    BY DEF FoldLeft, MapThenFoldSet, Codes
  <2> QED
    BY <2>1
<1>2. Stepping(Fields, Parameter, FieldStep, <<NaN>>)
  BY FieldStepping
<1>3. \A a \in Fields, x \in Parameter : FieldStep[a][x] = Field(a, x)
  BY DEF FieldStep
<1>4. n \in Nat /\ DOMAIN s = 1..n /\ \A i \in 1..n : s[i] \in Parameter
  OBVIOUS
<1>5. \A T \in SUBSET (1..n) : T # {} => /\ s[Max(T)] \in Parameter /\ T \ {Max(T)} \in SUBSET (1..n)
  BY <1>4, WithoutGreatest
<1>6. PICK f : Iterate(f, FieldStep, <<NaN>>, s, n) /\ \A T \in SUBSET (1..n) : f[T] \in Fields
  <2> HIDE DEF n
  <2>1. n <= Len(s)
    BY <1>4 DEF n
  <2> QED
    BY <1>2, <1>4, <2>1, IterateExists
<1> HIDE DEF n
<1>7. f = [T \in SUBSET (1..n) |-> Place(f, T)]
  <2>1. f = [T \in SUBSET (1..n) |->
               IF T = {} THEN <<NaN>> ELSE FieldStep[f[T \ {Max(T)}]][s[Max(T)]]]
    BY <1>6 DEF Iterate
  <2>2. \A T \in SUBSET (1..n) : T # {} =>
           FieldStep[f[T \ {Max(T)}]][s[Max(T)]] = Field(f[T \ {Max(T)}], s[Max(T)])
    BY <1>3, <1>5, <1>6
  <2> QED
    BY <2>1, <2>2
<1>8. it = [T \in SUBSET (1..n) |-> Place(it, T)]
  <2>1. f = [T \in SUBSET DOMAIN s |-> Place(f, T)]
    BY <1>4, <1>7
  <2>2. it = [T \in SUBSET DOMAIN s |-> Place(it, T)]
    BY <2>1
  <2> QED
    BY <1>4, <2>2
<1> HIDE DEF it
<1>9. Follows(it, FieldStep, <<NaN>>, s, n, Fields)
  <2>1. it[{}] = <<NaN>>
    BY <1>8
  <2>2. ASSUME NEW T \in SUBSET (1..n), T # {}, it[T \ {Max(T)}] \in Fields
        PROVE  it[T] = FieldStep[it[T \ {Max(T)}]][s[Max(T)]]
    <3>1. it[T] = Field(it[T \ {Max(T)}], s[Max(T)])
      BY <1>8, <2>2
    <3>2. s[Max(T)] \in Parameter
      BY <1>5, <2>2
    <3> QED
      BY <1>3, <2>2, <3>1, <3>2
  <2> QED
    BY <2>1, <2>2 DEF Follows
<1>10. it[1..Len(s)] = FoldOf(FieldStep, <<NaN>>, s)
  <2>1. Follows(it, FieldStep, <<NaN>>, s, Len(s), Fields) /\ Len(s) <= Len(s)
    BY <1>4, <1>9 DEF n
  <2>2. \A i \in 1..Len(s) : s[i] = s[i]
    OBVIOUS
  <2> QED
    BY <1>2, <2>1, <2>2, IterateIsFold
<1> QED
  BY <1>1, <1>10 DEF n

LEMMA CodesAre == ASSUME NEW s \in Seq(Parameter) PROVE Codes(s) \in Seq(Int)
<1>1. Codes(s) = FoldOf(FieldStep, <<NaN>>, s)
  BY CodesIs
<1>2. FoldOf(FieldStep, <<NaN>>, s) \in Fields
  <2>1. Stepping(Fields, Parameter, FieldStep, <<NaN>>)
    BY FieldStepping
  <2>2. \A x \in Parameter : FoldOf(FieldStep, <<NaN>>, s) \in Fields
    BY <2>1, FoldOfMore
  <2>3. ";" \in Parameter
    BY DEF Parameter
  <2> QED
    BY <2>2, <2>3
<1> QED
  BY <1>1, <1>2 DEF Fields

DisplayStep(html) == [out \in Good(html) |-> [code \in Int |-> Display(out, code)]]

LEMMA DisplayStepping ==
    ASSUME NEW html, NEW out, out \in Good(html)
    PROVE  Stepping(Good(html), Int, DisplayStep(html), out)
BY DisplayKeeps DEF Stepping, DisplayStep

LEMMA DisplaysIs ==
    ASSUME NEW html, NEW out, out \in Good(html), NEW s \in Seq(Int)
    PROVE  FoldLeft(Display, out, s) = FoldOf(DisplayStep(html), out, s)
<1> DEFINE Place(f, T) == IF T = {} THEN out ELSE Display(f[T \ {Max(T)}], s[Max(T)])
           it == CHOOSE f : f = [T \in SUBSET DOMAIN s |-> Place(f, T)]
           n == Len(s)
<1>1. FoldLeft(Display, out, s) = it[1..n]
  <2>1. FoldLeft(Display, out, s) = it[DOMAIN s]
    BY DEF FoldLeft, MapThenFoldSet
  <2> QED
    BY <2>1
<1>2. Stepping(Good(html), Int, DisplayStep(html), out)
  BY DisplayStepping
<1>3. \A a \in Good(html), x \in Int : DisplayStep(html)[a][x] = Display(a, x)
  BY DEF DisplayStep
<1>4. n \in Nat /\ DOMAIN s = 1..n /\ \A i \in 1..n : s[i] \in Int
  OBVIOUS
<1>5. \A T \in SUBSET (1..n) : T # {} => /\ s[Max(T)] \in Int /\ T \ {Max(T)} \in SUBSET (1..n)
  BY <1>4, WithoutGreatest
<1>6. PICK f : Iterate(f, DisplayStep(html), out, s, n) /\ \A T \in SUBSET (1..n) : f[T] \in Good(html)
  <2> HIDE DEF n
  <2>1. n <= Len(s)
    BY <1>4 DEF n
  <2> QED
    BY <1>2, <1>4, <2>1, IterateExists
<1> HIDE DEF n
<1>7. f = [T \in SUBSET (1..n) |-> Place(f, T)]
  <2>1. f = [T \in SUBSET (1..n) |->
               IF T = {} THEN out ELSE DisplayStep(html)[f[T \ {Max(T)}]][s[Max(T)]]]
    BY <1>6 DEF Iterate
  <2>2. \A T \in SUBSET (1..n) : T # {} =>
           DisplayStep(html)[f[T \ {Max(T)}]][s[Max(T)]] = Display(f[T \ {Max(T)}], s[Max(T)])
    BY <1>3, <1>5, <1>6
  <2> QED
    BY <2>1, <2>2
<1>8. it = [T \in SUBSET (1..n) |-> Place(it, T)]
  <2>1. f = [T \in SUBSET DOMAIN s |-> Place(f, T)]
    BY <1>4, <1>7
  <2>2. it = [T \in SUBSET DOMAIN s |-> Place(it, T)]
    BY <2>1
  <2> QED
    BY <1>4, <2>2
<1> HIDE DEF it
<1>9. Follows(it, DisplayStep(html), out, s, n, Good(html))
  <2>1. it[{}] = out
    BY <1>8
  <2>2. ASSUME NEW T \in SUBSET (1..n), T # {}, it[T \ {Max(T)}] \in Good(html)
        PROVE  it[T] = DisplayStep(html)[it[T \ {Max(T)}]][s[Max(T)]]
    <3>1. it[T] = Display(it[T \ {Max(T)}], s[Max(T)])
      BY <1>8, <2>2
    <3>2. s[Max(T)] \in Int
      BY <1>5, <2>2
    <3> QED
      BY <1>3, <2>2, <3>1, <3>2
  <2> QED
    BY <2>1, <2>2 DEF Follows
<1>10. it[1..Len(s)] = FoldOf(DisplayStep(html), out, s)
  <2>1. Follows(it, DisplayStep(html), out, s, Len(s), Good(html)) /\ Len(s) <= Len(s)
    BY <1>4, <1>9 DEF n
  <2>2. \A i \in 1..Len(s) : s[i] = s[i]
    OBVIOUS
  <2> QED
    BY <1>2, <2>1, <2>2, IterateIsFold
<1> QED
  BY <1>1, <1>10 DEF n

LEMMA AnsiMessKeeps ==
    ASSUME NEW html, NEW out, out \in Good(html), NEW s, Params(s) \in Seq(Parameter)
    PROVE  AnsiMess(out, s) \in Good(html)
<1> DEFINE codes == IF Params(s) = <<>> THEN <<0>> ELSE Codes(Params(s))
           G == Good(html)
           step == DisplayStep(html)
<1>1. codes \in Seq(Int)
  <2>1. <<0>> \in Seq(Int)
    OBVIOUS
  <2> QED
    BY <2>1, CodesAre
<1>2. AnsiMess(out, s) = FoldLeft(Display, out, codes)
  BY DEF AnsiMess
<1> HIDE DEF codes
<1>3. FoldLeft(Display, out, codes) = FoldOf(step, out, codes)
  BY <1>1, DisplaysIs
<1>4. Stepping(G, Int, step, out)
  BY DisplayStepping
<1> HIDE DEF step, G
<1>5. FoldOf(step, out, codes) \in G
  <2>1. 0 \in Int
    OBVIOUS
  <2> QED
    BY <1>1, <1>4, <2>1, FoldOfMore
<1> QED
  BY <1>2, <1>3, <1>5 DEF G

-----------------------------------------------------------------------------
(* What is kept of the paste. *)

KeptOf(t, S) == FlattenSeq([i \in 1..Len(t) |-> IF i \in S THEN <<t[i]>> ELSE <<>>])

\* A text of which every character is kept.
LEMMA AllKept ==
    ASSUME NEW s \in Seq(Characters), NEW q, q = [i \in 1..Len(s) |-> <<s[i]>>]
    PROVE  q \in Seq(Seq(Characters)) /\ FlattenSeq(q) = s
<1> DEFINE m == [x \in Characters |-> <<x>>]
           S == {t \in Seq(Characters) : Written(m, t) = t}
<1>1. \A x \in Characters : m[x] = <<x>> /\ <<x>> \in Seq(Characters)
  OBVIOUS
<1>2. Writes(m, Characters, Characters)
  BY <1>1 DEF Writes
<1>3. \A i \in 1..Len(s) : s[i] \in Characters
  OBVIOUS
<1>4. q = [i \in 1..Len(s) |-> m[s[i]]]
  BY <1>1, <1>3
<1> HIDE DEF m
<1>5. Pieces(q, m, s)
  BY <1>4 DEF Pieces
<1>6. q \in Seq(Seq(Characters)) /\ Written(m, s) = FlattenSeq(q)
  BY <1>2, <1>5, WrittenIs
<1>7. <<>> \in S
  <2>1. "ESC" \in Characters
    BY DEF Characters, Control
  <2>2. Written(m, <<>>) = <<>>
    BY <1>2, <2>1, WrittenOne
  <2>3. <<>> \in Seq(Characters)
    OBVIOUS
  <2> QED
    BY <2>2, <2>3
<1>8. ASSUME NEW t \in Seq(Characters), NEW x \in Characters, t \in S
      PROVE  Append(t, x) \in S
  <2> DEFINE y == <<x>>
  <2>1. Append(t, x) = t \o y /\ Append(t, x) \in Seq(Characters)
    BY AppendIs, AppendProperties
  <2>2. m[x] = y
    BY <1>1
  <2> HIDE DEF y
  <2>3. Written(m, Append(t, x)) = Written(m, t) \o m[x]
    BY <1>2, WrittenMore
  <2> QED
    BY <1>8, <2>1, <2>2, <2>3
<1> HIDE DEF S
<1>9. Seq(Characters) \subseteq S
  BY <1>7, <1>8, AllSequences
<1> QED
  BY <1>6, <1>9 DEF S

KeptParts(p, t, S, a) == p = [i \in 1..a |-> IF i \in S THEN <<t[i]>> ELSE <<>>]

\* What is behind a is not in S and adds nothing.
LEMMA KeptUpTo ==
    ASSUME NEW t \in Seq(Characters), NEW a \in 0..Len(t), NEW S, S \subseteq 1..a,
           NEW p, KeptParts(p, t, S, a)
    PROVE  /\ p \in Seq(Seq(Characters)) /\ Len(p) = a
           /\ KeptOf(t, S) = FlattenSeq(p) /\ KeptOf(t, S) \in Seq(Characters)
<1> DEFINE Q(i) == IF i \in S THEN <<t[i]>> ELSE <<>>
           n == Len(t)
           r == [i \in 1..n |-> Q(i)]
           none == <<>>
           z == [i \in 1..n - a |-> none]
<1>1. n \in Nat /\ a \in Nat /\ a <= n /\ n - a \in Nat
  BY LenProperties
<1>2. \A i \in 1..n : Q(i) \in Seq(Characters)
  <2>1. \A i \in 1..n : t[i] \in Characters
    OBVIOUS
  <2>2. \A i \in 1..n : <<t[i]>> \in Seq(Characters)
    BY <2>1
  <2> QED
    BY <2>2
<1>3. \A i \in 1..n : i > a => Q(i) = none
  <2>1. \A i \in 1..n : i > a => i \notin S
    BY <1>1
  <2> QED
    BY <2>1
<1>4. KeptOf(t, S) = FlattenSeq(r)
  BY DEF KeptOf
<1>5. p = [i \in 1..a |-> Q(i)]
  BY DEF KeptParts
<1> HIDE DEF Q, n
<1>6. \A i \in 1..a : i \in 1..n
  BY <1>1
<1>7. /\ p \in Seq(Seq(Characters)) /\ Len(p) = a /\ r \in Seq(Seq(Characters)) /\ Len(r) = n
      /\ \A i \in 1..a : p[i] = Q(i)
      /\ \A i \in 1..n : r[i] = Q(i)
  BY <1>1, <1>2, <1>5, <1>6
<1>8. /\ z \in Seq({none}) /\ Len(z) = n - a
      /\ \A i \in 1..n - a : z[i] = none
  <2> DEFINE k == n - a
  <2>1. k \in Nat
    BY <1>1
  <2> HIDE DEF k, none
  <2>2. z \in Seq({none}) /\ Len(z) = k /\ \A i \in 1..k : z[i] = none
    BY <2>1 DEF k
  <2> QED
    BY <2>2 DEF k
<1>9. z \in Seq(Seq(Characters)) /\ FlattenSeq(z) = none
  <2> HIDE DEF z
  <2> QED
    BY <1>8, Blanks
<1> HIDE DEF r, z, none
<1>10. \A i \in 1..Len(p) : r[i] = p[i]
  BY <1>6, <1>7
<1>11. ASSUME NEW i \in 1..Len(z) PROVE r[Len(p) + i] = z[i]
  <2> DEFINE j == a + i
  <2>1. j \in 1..n /\ j > a /\ i \in 1..n - a
    BY <1>1, <1>8
  <2> HIDE DEF j
  <2>2. r[j] = none /\ z[i] = none
    BY <1>3, <1>7, <1>8, <2>1
  <2> QED
    BY <1>7, <2>2 DEF j
<1>12. Joined(p, z, r, Seq(Characters))
  <2>1. Len(r) = Len(p) + Len(z)
    BY <1>1, <1>7, <1>8
  <2> QED
    BY <1>7, <1>9, <1>10, <1>11, <2>1 DEF Joined
<1>13. r = p \o z
  BY <1>12, JoinedIs
<1>14. FlattenSeq(p \o z) = FlattenSeq(p) \o FlattenSeq(z) /\ FlattenSeq(p) \in Seq(Characters)
  BY <1>7, <1>9, FlattenConcat, FlattenMore, EmptySeq
<1>15. FlattenSeq(p) \o none = FlattenSeq(p)
  BY <1>14 DEF none
<1> QED
  BY <1>4, <1>7, <1>9, <1>13, <1>14, <1>15

\* s is what comes next in t, behind a, and S is of what is in front.
NextIs(s, t, a, S) ==
    /\ t \in Seq(Characters) /\ s \in Seq(Characters)
    /\ a \in 0..Len(t) /\ S \subseteq 1..a
    /\ a + Len(s) <= Len(t)
    /\ \A i \in 1..Len(s) : s[i] = t[a + i]

\* What is kept of the next n characters is all of them.
LEMMA KeptMore ==
    ASSUME NEW s, NEW t, NEW a, NEW S, NextIs(s, t, a, S)
    PROVE  KeptOf(t, S \cup (a + 1..a + Len(s))) = KeptOf(t, S) \o s
<1> DEFINE n == Len(s)
           b == a + n
           R == S \cup (a + 1..b)
           q == [i \in 1..n |-> <<s[i]>>]
<1>0. /\ t \in Seq(Characters) /\ s \in Seq(Characters)
      /\ a \in 0..Len(t) /\ S \subseteq 1..a
      /\ a + n <= Len(t) /\ \A i \in 1..n : s[i] = t[a + i]
  BY DEF NextIs
<1>1. n \in Nat /\ a \in Nat /\ b \in 0..Len(t) /\ R \subseteq 1..b /\ b = a + n
  <2>1. n \in Nat /\ a \in Nat /\ Len(t) \in Nat /\ a + n <= Len(t)
    BY <1>0, LenProperties
  <2> HIDE DEF n
  <2>2. b \in 0..Len(t)
    BY <2>1
  <2>3. \A i \in 1..a : i \in 1..b
    BY <2>1
  <2>4. \A i \in a + 1..b : i \in 1..b
    BY <2>1
  <2> QED
    BY <1>0, <2>1, <2>2, <2>3, <2>4
<1>a. PICK p : KeptParts(p, t, S, a)
  BY DEF KeptParts
<1>b. PICK r : KeptParts(r, t, R, b)
  BY DEF KeptParts
<1>2. /\ p \in Seq(Seq(Characters)) /\ Len(p) = a
      /\ KeptOf(t, S) = FlattenSeq(p)
  BY <1>0, <1>a, KeptUpTo
<1> HIDE DEF R, b
<1>3. /\ r \in Seq(Seq(Characters)) /\ Len(r) = b
      /\ KeptOf(t, R) = FlattenSeq(r)
  BY <1>0, <1>1, <1>b, KeptUpTo
<1>4. q \in Seq(Seq(Characters)) /\ FlattenSeq(q) = s
  BY <1>0, AllKept
<1>5. /\ Len(q) = n /\ \A i \in 1..n : q[i] = <<s[i]>>
  BY <1>1
<1>6. \A i \in 1..a : p[i] = IF i \in S THEN <<t[i]>> ELSE <<>>
  BY <1>a DEF KeptParts
<1>7. \A i \in 1..b : r[i] = IF i \in R THEN <<t[i]>> ELSE <<>>
  BY <1>b DEF KeptParts
<1>8. \A i \in 1..n : s[i] = t[a + i]
  BY <1>0
<1> HIDE DEF n, q
<1>9. ASSUME NEW i \in 1..a PROVE r[i] = p[i]
  <2>1. i \in 1..b
    BY <1>1
  <2>2. i \in R <=> i \in S
    BY <1>0, <1>1 DEF R
  <2> QED
    BY <1>6, <1>7, <2>1, <2>2
<1>10. ASSUME NEW i \in 1..n PROVE r[a + i] = q[i]
  <2> DEFINE j == a + i
  <2>1. j \in 1..b /\ j \in R
    BY <1>1 DEF R
  <2>2. q[i] = <<t[j]>>
    BY <1>5, <1>8
  <2> HIDE DEF j
  <2>3. r[j] = <<t[j]>>
    BY <1>7, <2>1
  <2> QED
    BY <2>2, <2>3 DEF j
<1>11. Joined(p, q, r, Seq(Characters))
  BY <1>1, <1>2, <1>3, <1>4, <1>5, <1>9, <1>10 DEF Joined
<1>12. r = p \o q
  BY <1>11, JoinedIs
<1>13. FlattenSeq(p \o q) = FlattenSeq(p) \o FlattenSeq(q)
  BY <1>2, <1>4, FlattenConcat
<1>14. KeptOf(t, R) = KeptOf(t, S) \o s
  BY <1>2, <1>3, <1>4, <1>12, <1>13
<1> QED
  BY <1>14 DEF R, b, n

-----------------------------------------------------------------------------
(* The invariant of the output. *)

\* The output is nested and typed, and reads as what is kept of the paste.
OutputInv ==
    /\ phase \in {"tokenizing", "done"}
    /\ Output \in Good(Html)
    /\ phase = "done" => stack = <<>>
    /\ Safe(Html) /\ Decoded(Html) = Kept(shown)

LEMMA OutputIs ==
    ASSUME NEW html, Output \in Good(html)
    PROVE  /\ buf \in Seq(Elements) /\ stack \in Seq(Tags) /\ Nesting(buf) = stack
           /\ Html = html
<1>1. Output.buf = buf /\ Output.stack = stack
  BY DEF Output
<1>2. /\ Output.buf \in Seq(Elements) /\ Output.stack \in Seq(Tags)
      /\ Nesting(Output.buf) = Output.stack /\ HtmlOf(Output.buf) = html
  BY GoodIs
<1> QED
  BY <1>1, <1>2 DEF Html

\* An output that has been written is the next one.
LEMMA WrittenOut ==
    ASSUME NEW html, NEW out, out \in Good(html), Write(out)
    PROVE  Output' \in Good(html) /\ Html' = html /\ stack' = out.stack
<1>1. /\ out.buf \in Seq(Elements) /\ out.stack \in Seq(Tags)
      /\ Nesting(out.buf) = out.stack /\ HtmlOf(out.buf) = html
  BY GoodIs
<1>2. buf' = out.buf /\ stack' = out.stack
  BY DEF Write
<1>3. Output' = [buf |-> out.buf, stack |-> out.stack] /\ Html' = HtmlOf(out.buf)
  BY <1>2 DEF Output, Html
<1> DEFINE b == out.buf
           st == out.stack
<1>4. b \in Seq(Elements) /\ st \in Seq(Tags) /\ Nesting(b) = st /\ HtmlOf(b) = html
  BY <1>1
<1> HIDE DEF b, st
<1>5. [buf |-> b, stack |-> st] \in Good(html)
  BY <1>4, GoodWhen
<1> QED
  BY <1>1, <1>2, <1>3, <1>5 DEF b, st

\* The parameters of a sequence, for handler 9.
LEMMA ParamsAre ==
    ASSUME NEW s \in Seq(Characters), Csi(s, "m"), OnlyOf(Params(s), Parameter)
    PROVE  Params(s) \in Seq(Parameter)
<1> DEFINE g == Params(s)
           m == Len(s) - 1
<1>1. Len(s) \in Nat /\ m \in Int /\ m <= Len(s)
  BY LenProperties
<1>2. g = SubSeq(s, 3, m)
  BY DEF Params
<1> HIDE DEF m
<1>3. SubSeq(s, 3, m) \in Seq(Characters)
  BY <1>1, Part
<1>4. g \in Seq(Characters) /\ \A i \in 1..Len(g) : g[i] \in Parameter
  BY <1>2, <1>3 DEF OnlyOf
<1> HIDE DEF g
<1>5. g = [i \in 1..Len(g) |-> g[i]] /\ Len(g) \in Nat
  BY <1>4
<1>6. g \in Seq(Parameter)
  BY <1>4, <1>5
<1> QED
  BY <1>6 DEF g

\* A handler that writes no text leaves the text alone.
LEMMA HandleKeeps ==
    ASSUME NEW html, NEW out, out \in Good(html), NEW h \in Handlers, h \notin {6, 7, 8, 13},
           NEW s \in Seq(Characters), Pattern(h, s)
    PROVE  Handle(h, s, out) \in Good(html)
<1>1. h \in {0, 1, 2, 10, 11, 12} \/ h \in {3, 4, 5} \/ h = 9
  BY DEF Handlers
<1>2. CASE h \in {0, 1, 2, 10, 11, 12}
  BY <1>2 DEF Handle
<1>3. CASE h \in {3, 4, 5}
  <2>1. Handle(h, s, out) = PushTag(out, "span") /\ "span" \in Tags
    BY <1>3 DEF Handle, Tags
  <2> QED
    BY <2>1, PushTagKeeps
<1>4. CASE h = 9
  <2>1. Csi(s, "m") /\ OnlyOf(Params(s), Parameter)
    BY <1>4 DEF Pattern
  <2>2. Handle(h, s, out) = AnsiMess(out, s)
    BY <1>4 DEF Handle
  <2> QED
    BY <2>1, <2>2, ParamsAre, AnsiMessKeeps
<1> QED
  BY <1>1, <1>2, <1>3, <1>4

\* One that writes text adds it as pushText writes it.
LEMMA HandleWrites ==
    ASSUME NEW html, NEW out, out \in Good(html), NEW h \in {6, 7, 8, 13},
           NEW s \in Seq(Characters)
    PROVE  Handle(h, s, out) \in Good(html \o Escaped(s))
<1> DEFINE b == out.buf
           st == out.stack
           e == PushText(s)
           x == Escaped(s)
<1>1. b \in Seq(Elements) /\ st \in Seq(Tags) /\ Nesting(b) = st /\ HtmlOf(b) = html
  BY GoodIs
<1>2. out = [buf |-> b, stack |-> st]
  BY DEF Good
<1>3. Handle(h, s, out) = [out EXCEPT !.buf = Append(b, e)]
  BY DEF Handle
<1>4. e = Text(x)
  BY DEF PushText, Escaped
<1>5. x \in Seq(Characters)
  BY EscapedReads DEF Safe
<1> HIDE DEF b, st, e, x
<1>6. e \in Elements /\ e.kind = "text" /\ e.html = x
  BY <1>4, <1>5, ElementsAre DEF Text
<1>7. Handle(h, s, out) = [buf |-> Append(b, e), stack |-> st]
  BY <1>2, <1>3
<1>8. Append(b, e) \in Seq(Elements) /\ HtmlOf(Append(b, e)) = html \o x
  BY <1>1, <1>6, AppendProperties, HtmlMore
<1>9. Nesting(Append(b, e)) = Nest(st, e)
  BY <1>1, <1>6, NestingMore
<1>10. Nest(st, e) = st
  BY <1>6 DEF Nest
<1>11. Handle(h, s, out) \in Good(html \o x)
  BY <1>1, <1>7, <1>8, <1>9, <1>10, GoodWhen
<1> QED
  BY <1>11 DEF x

LEMMA TokenizeWrites == ScanInv /\ OutputInv /\ Tokenize => OutputInv'
<1> SUFFICES ASSUME ScanInv, OutputInv, Tokenize PROVE OutputInv'
  OBVIOUS
<1>1. PICK m \in Matches :
          /\ Write(Handle(m[1], SubSeq(Rest, 1, m[2]), Output))
          /\ at' = at + m[2]
          /\ shown' = IF m[1] \in {6, 7, 8, 13} THEN shown \cup (at + 1..at + m[2]) ELSE shown
  BY DEF Tokenize
<1> DEFINE h == m[1]
           n == m[2]
           s == SubSeq(Rest, 1, n)
           html == Html
           out == Handle(h, s, Output)
<1>2. paste' = paste /\ phase = "tokenizing" /\ phase' = phase
  BY DEF Tokenize
<1>3. h \in Handlers /\ n \in 1..Len(Rest) /\ Pattern(h, s)
  BY DEF Matches
<1>4. /\ Len(Rest) = Len(paste) - at /\ s \in Seq(Characters) /\ Len(s) = n
      /\ \A i \in 1..n : s[i] = paste[at + i]
  BY <1>3, PrefixOfRest DEF ScanInv
<1>5. /\ paste \in Seq(Characters) /\ at \in 0..Len(paste) /\ shown \subseteq 1..at
      /\ at + n <= Len(paste)
  <2>1. paste \in Seq(Characters) /\ at \in 0..Len(paste) /\ shown \subseteq 1..at
    BY DEF ScanInv
  <2>2. n \in 1..Len(paste) - at
    BY <1>3, <1>4
  <2> HIDE DEF n
  <2> QED
    BY <2>1, <2>2
<1>6. Output \in Good(html) /\ Safe(html) /\ Decoded(html) = KeptOf(paste, shown)
  BY DEF OutputInv, Kept, KeptOf
<1>7. Write(out) /\ (h \in {6, 7, 8, 13} => shown' = shown \cup (at + 1..at + n))
      /\ (h \notin {6, 7, 8, 13} => shown' = shown)
  BY <1>1
<1>8. Kept(shown)' = KeptOf(paste, shown')
  BY <1>2 DEF Kept, KeptOf
<1> HIDE DEF h, n, s, html, out
<1>9. \E x : Output' \in Good(x) /\ Html' = x /\ Safe(x) /\ Decoded(x) = KeptOf(paste, shown')
  <2>1. CASE h \notin {6, 7, 8, 13}
    <3>1. out \in Good(html)
      BY <1>3, <1>4, <1>6, <2>1, HandleKeeps DEF out
    <3>2. Output' \in Good(html) /\ Html' = html
      BY <1>7, <3>1, WrittenOut
    <3> QED
      BY <1>6, <1>7, <2>1, <3>2
  <2>2. CASE h \in {6, 7, 8, 13}
    <3> DEFINE x == html \o Escaped(s)
    <3>1. out \in Good(x)
      BY <1>4, <1>6, <2>2, HandleWrites DEF out
    <3>2. Safe(Escaped(s)) /\ Decoded(Escaped(s)) = s
      BY <1>4, EscapedReads
    <3>3. Safe(x) /\ Decoded(x) = Decoded(html) \o s
      BY <1>6, <3>2, SafeConcat, DecodedConcat
    <3> HIDE DEF x
    <3>4. Output' \in Good(x) /\ Html' = x
      BY <1>7, <3>1, WrittenOut
    <3>5. KeptOf(paste, shown \cup (at + 1..at + Len(s))) = KeptOf(paste, shown) \o s
      <4>1. NextIs(s, paste, at, shown)
        BY <1>4, <1>5 DEF NextIs
      <4> QED
        BY <4>1, KeptMore
    <3>6. KeptOf(paste, shown') = KeptOf(paste, shown) \o s
      BY <1>4, <1>7, <2>2, <3>5
    <3> QED
      BY <1>6, <3>3, <3>4, <3>6
  <2> QED
    BY <2>1, <2>2
<1> QED
  BY <1>2, <1>8, <1>9 DEF OutputInv

LEMMA FinishWrites == ScanInv /\ OutputInv /\ Finish => OutputInv'
<1> SUFFICES ASSUME ScanInv, OutputInv, Finish PROVE OutputInv'
  OBVIOUS
<1> DEFINE html == Html
           out == ResetStyles(Output)
<1>1. Write(out) /\ phase' = "done" /\ paste' = paste /\ shown' = shown
  BY DEF Finish
<1>2. Output \in Good(html) /\ Safe(html) /\ Decoded(html) = Kept(shown)
  BY DEF OutputInv
<1>3. out \in Good(html) /\ out.stack = <<>>
  BY <1>2, ResetStylesKeeps
<1>4. Kept(shown)' = Kept(shown)
  BY <1>1 DEF Kept
<1> HIDE DEF html, out
<1>5. Output' \in Good(html) /\ Html' = html /\ stack' = <<>>
  BY <1>1, <1>3, WrittenOut
<1> QED
  BY <1>1, <1>2, <1>4, <1>5 DEF OutputInv

LEMMA OutputInvHolds == Spec => []OutputInv
<1>1. Init => OutputInv
  <2> SUFFICES ASSUME Init PROVE OutputInv
    OBVIOUS
  <2>1. paste \in Seq(Characters) /\ stack = <<>> /\ buf = <<>> /\ shown = {} /\ phase = "tokenizing"
    BY PastesAreTexts DEF Init
  <2>2. Html = <<>>
    BY <2>1, HtmlNone DEF Html
  <2>3. Output \in Good(<<>>)
    <3> DEFINE none == <<>>
    <3>1. none \in Seq(Elements) /\ none \in Seq(Tags) /\ Nesting(none) = none /\ HtmlOf(none) = none
      BY NestingNone, HtmlNone
    <3>2. Output = [buf |-> none, stack |-> none]
      BY <2>1 DEF Output
    <3> HIDE DEF none
    <3>3. Output \in Good(none)
      BY <3>1, <3>2, GoodWhen
    <3> QED
      BY <3>3 DEF none
  <2>4. Kept(shown) = <<>>
    <3>1. PICK p : KeptParts(p, paste, {}, 0)
      BY DEF KeptParts
    <3>2. 0 \in 0..Len(paste) /\ {} \subseteq 1..0
      BY <2>1, LenProperties
    <3>3. KeptOf(paste, {}) = FlattenSeq(p)
      BY <2>1, <3>1, <3>2, KeptUpTo
    <3>4. p = <<>>
      BY <3>1 DEF KeptParts
    <3>5. KeptOf(paste, {}) = <<>>
      BY <3>3, <3>4, FlattenNone
    <3> QED
      BY <2>1, <3>5 DEF Kept, KeptOf
  <2> QED
    BY <2>1, <2>2, <2>3, <2>4, SafeNothing DEF OutputInv
<1>2. ScanInv /\ OutputInv /\ [Next]_vars => OutputInv'
  <2> SUFFICES ASSUME ScanInv, OutputInv, [Next]_vars PROVE OutputInv'
    OBVIOUS
  <2>1. CASE Tokenize
    BY <2>1, TokenizeWrites
  <2>2. CASE Finish
    BY <2>2, FinishWrites
  <2>3. CASE UNCHANGED vars
    BY <2>3 DEF vars, OutputInv, Output, Html, Kept
  <2> QED
    BY <2>1, <2>2, <2>3 DEF Next
<1> QED
  BY <1>1, <1>2, Scanning, PTL DEF Spec

\* Every variable has its type for pastes of any length: the output consists of
\* tags the filter knows and of texts, whatever the sequences ask for.
THEOREM FilterTyping == Spec => []TypeOK
<1>1. ScanInv /\ OutputInv => TypeOK
  BY OutputIs DEF ScanInv, OutputInv, TypeOK
<1> QED
  BY <1>1, Scanning, OutputInvHolds, PTL

\* Whatever codes a paste sends in whatever order, the tags in the output are
\* nested as the stack says, and none is left open (closeTag, resetStyles).
THEOREM TagsAreNested == Spec => []TagsNest
<1>1. OutputInv => TagsNest
  BY OutputIs DEF OutputInv, TagsNest
<1> QED
  BY <1>1, OutputInvHolds, PTL

\* For a text of any length the four replacements of pushText are undone by the
\* browser, and none of its characters is read as markup.
THEOREM TextReadsAsWritten == Spec => []ReadsAsWritten
<1>1. ASSUME OutputInv PROVE ReadsAsWritten
  <2>1. Safe(Html) /\ Decoded(Html) = Kept(shown)
    BY <1>1 DEF OutputInv
  <2>2. \A i \in 1..Len(Html) : Html[i] \in Characters /\ Html[i] # "<" /\ Html[i] # ">"
    <3> DEFINE html == Html
    <3>1. Safe(html)
      BY <2>1
    <3> HIDE DEF html
    <3>2. \A i \in 1..Len(html) : html[i] \in Characters /\ html[i] # "<" /\ html[i] # ">"
      BY <3>1 DEF Safe
    <3> QED
      BY <3>2 DEF html
  <2> HIDE DEF Html
  <2> QED
    BY <2>1, <2>2 DEF ReadsAsWritten, OnlyOf
<1> QED
  BY <1>1, OutputInvHolds, PTL
=============================================================================
