----------------------------- MODULE AnsiFilter -----------------------------
(***************************************************************************)
(* static/ansi-to-html.js: Filter.toHtml, which turns the escape sequences *)
(* of a paste into tags when load (application.js:45) shows it.  One step  *)
(* is one turn of the loop of tokenize: the first pattern that matches     *)
(* what is left takes the longest prefix it can.                           *)
(*                                                                         *)
(* ansiMatch is always FALSE again when it is looked at, since every turn  *)
(* begins with handler 0; newline and stream are off in new Filter({}), so *)
(* there is no <br/> and no sticky stack.  A span is a span, whatever its  *)
(* style.                                                                  *)
(***************************************************************************)
EXTENDS Integers, Sequences, SequencesExt

CONSTANTS
    Pastes,            \* the texts to be shown, as sequences of characters
    Letters            \* characters that mean nothing to the filter

Digit == {"0", "1", "2", "3", "4", "5", "6", "7", "8", "9"}
Parameter == Digit \cup {";"}
Control == {"ESC", "BS", "LF", "CR"}

\* The characters HTML has a meaning for, and the names pushText gives them: a
\* name is one character here, which a paste may contain as well.
Entity == [x \in {"&", "<", ">", "\""} |->
             CASE x = "&" -> "amp;" [] x = "<" -> "lt;" [] x = ">" -> "gt;"
               [] OTHER -> "quot;"]
Names == {Entity[x] : x \in DOMAIN Entity}

Characters == Control \cup Parameter \cup {"[", "(", "B", "m", "K", "J", "f"}
              \cup DOMAIN Entity \cup Names \cup Letters

ASSUME PastesAreTexts == Pastes \subseteq Seq(Characters)

Tags == {"b", "i", "u", "strike", "blink", "span"}

VARIABLES
    paste,
    at,                \* how much of it the loop has removed
    stack,             \* the tags that are open
    buf,               \* what the output consists of
    phase,
    shown              \* history: positions given to the callback as text

vars == <<paste, at, stack, buf, phase, shown>>

Init ==
    /\ paste \in Pastes
    /\ at = 0 /\ stack = <<>> /\ buf = <<>> /\ shown = {}
    /\ phase = "tokenizing"

-----------------------------------------------------------------------------
(* The patterns, as predicates of a text that is not empty. *)

OnlyOf(s, S) == \A i \in 1..Len(s) : s[i] \in S

\* ESC [ ... final, and what is in between.
Csi(s, final) == Len(s) >= 3 /\ s[1] = "ESC" /\ s[2] = "[" /\ s[Len(s)] = final
Params(s) == SubSeq(s, 3, Len(s) - 1)

\* parseInt of every part of g1.split(';'); NaN for one that is empty.
NaN == -1
ValueOf(c) == CHOOSE v \in 0..9 : <<"0", "1", "2", "3", "4", "5", "6", "7", "8", "9">>[v + 1] = c
Field(fields, c) ==
    LET n == Len(fields) IN
    IF c = ";" THEN Append(fields, NaN)
    ELSE [fields EXCEPT ![n] = IF @ = NaN THEN ValueOf(c) ELSE 10 * @ + ValueOf(c)]
Codes(g) == FoldLeft(Field, <<NaN>>, g)

\* 38 or 48, the model of the color, and n numbers.
Color(s, layers, model, n) ==
    /\ Csi(s, "m") /\ Len(s) > 8 /\ OnlyOf(Params(s), Parameter)
    /\ \E l \in layers : SubSeq(s, 3, 7) = <<l, "8", ";", model, ";">>
    /\ LET numbers == Codes(SubSeq(s, 8, Len(s) - 1)) IN
       Len(numbers) = n /\ NaN \notin {numbers[i] : i \in 1..n}

\* Mutant of CatchAll: the bracket is not optional.
CatchAllCsi(s) ==
    /\ Len(s) >= 2 /\ s[1] = "ESC" /\ s[2] = "["
    /\ Len(s) <= 5 /\ OnlyOf(SubSeq(s, 3, Len(s)), Parameter)

\* Mutant of CatchAll: it takes three characters of any kind.
CatchAllThree(s) ==
    /\ s[1] = "ESC"
    /\ Len(s) <= 4 \/ (Len(s) = 5 /\ s[2] = "[")

\* An ESC, with a bracket or without, and up to three parameter characters.
CatchAll(s) ==
    /\ s[1] = "ESC"
    /\ \E n \in {1, 2} :
          /\ n <= Len(s) /\ Len(s) <= n + 3
          /\ n = 2 => s[2] = "["
          /\ OnlyOf(SubSeq(s, n + 1, Len(s)), Parameter)

\* There is a number in front of every semicolon.
Separated(s) == \A i \in 3..Len(s) - 1 : s[i] = ";" => i > 3 /\ s[i - 1] # ";"

\* Two numbers, which may be missing, and a semicolon between them.
Position(s) ==
    \E i \in 3..6 :
       /\ i < Len(s) /\ Len(s) - i <= 4 /\ s[i] = ";"
       /\ \A k \in 3..Len(s) - 1 : k = i \/ s[k] \in Digit

\* The handlers of tokens, by their index.
Handlers == 0..13
Pattern(h, s) ==
    \/ h = 0 /\ OnlyOf(s, {"BS"})
    \/ h = 1 /\ Csi(s, "K") /\ Len(s) <= 4 /\ OnlyOf(Params(s), {"0", "1", "2"})
    \/ h = 2 /\ s = <<"ESC", "[", "(", "B">>
    \/ h = 3 /\ Color(s, {"3", "4"}, "2", 3)
    \/ h = 4 /\ Color(s, {"3"}, "5", 1)
    \/ h = 5 /\ Color(s, {"4"}, "5", 1)
    \/ h = 6 /\ s = <<"LF">>
    \/ h = 7 /\ Len(s) >= 2 /\ s[Len(s)] = "LF" /\ OnlyOf(Front(s), {"CR"})
    \/ h = 8 /\ s = <<"CR">>
    \/ h = 9 /\ Csi(s, "m") /\ OnlyOf(Params(s), Parameter) /\ Separated(s)
    \/ h = 10 /\ Csi(s, "J") /\ Len(s) <= 4 /\ OnlyOf(Params(s), Digit)
    \/ h = 11 /\ Csi(s, "f") /\ Position(s)
    \/ h = 12 /\ CatchAll(s)
    \/ h = 13 /\ OnlyOf(s, Characters \ Control)

-----------------------------------------------------------------------------
(* What the handlers write: an output is a buffer and the open tags. *)

Open(tag) == [kind |-> "open", tag |-> tag]
Close(tag) == [kind |-> "close", tag |-> tag]
Text(html) == [kind |-> "text", html |-> html]

Replace(s, c, by) == FlattenSeq([i \in 1..Len(s) |-> IF s[i] = c THEN by ELSE <<s[i]>>])
Named(s, c) == Replace(s, c, <<"&", Entity[c]>>)

\* Mutant of PushText: the ampersand is replaced last.
PushTextAmpersandLast(s) == Text(Named(Named(Named(Named(s, ">"), "<"), "\""), "&"))

PushText(s) == Text(Named(Named(Named(Named(s, "&"), ">"), "<"), "\""))

PushTag(out, tag) == [buf |-> Append(out.buf, Open(tag)), stack |-> Append(out.stack, tag)]

\* Mutant of CloseTag: the tag is closed wherever it is in the stack.
CloseTagAnywhere(out, tag) ==
    IF \E i \in 1..Len(out.stack) : out.stack[i] = tag
    THEN LET i == CHOOSE i \in 1..Len(out.stack) :
                     out.stack[i] = tag /\ \A j \in i + 1..Len(out.stack) : out.stack[j] # tag
         IN [buf |-> Append(out.buf, Close(tag)), stack |-> RemoveAt(out.stack, i)]
    ELSE out

\* Mutant of CloseTag: whatever pop gives is closed, undefined as well.
CloseTagUnasked(out, tag) ==
    IF out.stack = <<>> THEN [out EXCEPT !.buf = Append(@, Close("undefined"))]
    ELSE [buf |-> Append(out.buf, Close(Last(out.stack))), stack |-> Front(out.stack)]

\* Only the tag that was opened last is closed.
CloseTag(out, tag) ==
    IF out.stack # <<>> /\ Last(out.stack) = tag
    THEN [buf |-> Append(out.buf, Close(tag)), stack |-> Front(out.stack)]
    ELSE out

\* Mutant of ResetStyles: the tags are closed in the order they were opened in.
ResetStylesForward(out) ==
    [buf |-> out.buf \o [i \in 1..Len(out.stack) |-> Close(out.stack[i])], stack |-> <<>>]

ResetStyles(out) ==
    [buf |-> out.buf \o Reverse([i \in 1..Len(out.stack) |-> Close(out.stack[i])]),
     stack |-> <<>>]

\* handleDisplay: a code that is not here does nothing.
Display(out, code) ==
    CASE code = 0 -> ResetStyles(out)
      [] code = 1 -> PushTag(out, "b")
      [] code = 3 -> PushTag(out, "i")
      [] code = 4 -> PushTag(out, "u")
      [] code \in {5, 6} -> PushTag(out, "blink")
      [] code = 9 -> PushTag(out, "strike")
      [] code = 23 -> CloseTag(out, "i")
      [] code = 24 -> CloseTag(out, "u")
      [] code \in {22, 39, 53} \cup 30..37 \cup 90..97 -> PushTag(out, "span")
      [] OTHER -> out

\* ansiMess: no parameters are a 0, and each one is a code of its own.
AnsiMess(out, s) ==
    FoldLeft(Display, out, IF Params(s) = <<>> THEN <<0>> ELSE Codes(Params(s)))

\* What handler h does with the prefix s.
Handle(h, s, out) ==
    CASE h \in {0, 1, 2, 10, 11, 12} -> out
      [] h \in {3, 4, 5} -> PushTag(out, "span")
      [] h = 9 -> AnsiMess(out, s)
      [] h \in {6, 7, 8, 13} -> [out EXCEPT !.buf = Append(@, PushText(s))]

-----------------------------------------------------------------------------
(* toHtml. *)

Rest == SubSeq(paste, at + 1, Len(paste))

\* The handlers that match what is left, each with the lengths it could take.
Matches == {m \in Handlers \X (1..Len(Rest)) : Pattern(m[1], SubSeq(Rest, 1, m[2]))}

Output == [buf |-> buf, stack |-> stack]
Write(out) == buf' = out.buf /\ stack' = out.stack

\* One turn of the loop: the first handler that matches removes all it can.
Tokenize ==
    /\ phase = "tokenizing"
    /\ LET matches == Matches IN
       \E m \in matches :
          LET h == m[1]
              n == m[2]
          IN /\ \A o \in matches : h < o[1] \/ (h = o[1] /\ n >= o[2])
             /\ Write(Handle(h, SubSeq(Rest, 1, n), Output))
             /\ at' = at + n
             /\ shown' = IF h \in {6, 7, 8, 13} THEN shown \cup (at + 1..at + n) ELSE shown
    /\ UNCHANGED <<paste, phase>>

\* Nothing is left, or nothing matches: the loop ends, and so do the styles.
Finish ==
    /\ phase = "tokenizing"
    /\ Matches = {}
    /\ Write(ResetStyles(Output))
    /\ phase' = "done"
    /\ UNCHANGED <<paste, at, shown>>

Next == Tokenize \/ Finish

Spec == Init /\ [][Next]_vars

-----------------------------------------------------------------------------
(* The type invariant. *)

Elements == {Open(tag) : tag \in Tags} \cup {Close(tag) : tag \in Tags}
                \cup [kind : {"text"}, html : Seq(Characters)]

\* Every variable has its type; texts are written character by character.
TypeOK ==
    /\ paste \in Seq(Characters)
    /\ at \in 0..Len(paste)
    /\ stack \in Seq(Tags)
    /\ buf \in Seq(Elements)
    /\ phase \in {"tokenizing", "done"}
    /\ shown \subseteq 1..at

-----------------------------------------------------------------------------
(* Properties. *)

\* The tags that are open after b, if each was closed when it was the last one.
Nest(open, item) ==
    CASE item.kind = "open" -> Append(open, item.tag)
      [] item.kind = "close" -> IF open # <<>> /\ Last(open) = item.tag
                                THEN Front(open) ELSE Append(open, "mismatch")
      [] OTHER -> open
Nesting(b) == FoldLeft(Nest, <<>>, b)

\* The output is well nested at every moment, and nothing is left open over the
\* rest of the page: whatever codes a paste sends in whatever order, the tags
\* that are open are those of the stack, and in the end there are none
\* (closeTag, resetStyles).
TagsNest == Nesting(buf) = stack /\ (phase = "done" => stack = <<>>)

\* What a browser shows for a text: a name behind an ampersand is a character.
NameAt(html, i) == 1 < i /\ i <= Len(html) /\ html[i] \in Names /\ html[i - 1] = "&"
Decoded(html) ==
    FlattenSeq([i \in 1..Len(html) |->
        IF NameAt(html, i) THEN <<CHOOSE x \in DOMAIN Entity : Entity[x] = html[i]>>
        ELSE IF NameAt(html, i + 1) THEN <<>> ELSE <<html[i]>>])

HtmlOf(b) == FlattenSeq([i \in 1..Len(b) |-> IF b[i].kind = "text" THEN b[i].html ELSE <<>>])
Html == HtmlOf(buf)
Kept(S) == FlattenSeq([i \in 1..Len(paste) |-> IF i \in S THEN <<paste[i]>> ELSE <<>>])

\* What the paste says is what the page reads: every character that was handed
\* on as text comes back from the browser as it was, in its place, and none of
\* them as markup (pushText).
ReadsAsWritten == Decoded(Html) = Kept(shown) /\ OnlyOf(Html, Characters \ {"<", ">"})

\* A character of the paste is missing only if it is a backspace, or belongs to
\* an escape sequence: nothing but characters of sequences is between it and an
\* ESC.  No line is lost, so that the line numbers fit (application.js:47).
LostOnlyBehindEscapes ==
    \A i \in 1..at :
        \/ i \in shown
        \/ paste[i] = "BS"
        \/ \E j \in 1..i :
              /\ paste[j] = "ESC"
              /\ \A k \in j + 1..i : paste[k] \in Parameter \cup {"[", "(", "B", "m", "K", "J", "f"}

\* The loop does not give up: no character is one that no handler takes, at
\* which tokenize would break off and the rest of the paste be dropped.
NothingIsLeft == phase = "done" => at = Len(paste)
=============================================================================
