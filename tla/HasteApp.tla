------------------------------ MODULE HasteApp -----------------------------
(***************************************************************************)
(* static/application.js and index.html: one page of the browser           *)
(* application.  Handlers and Ajax callbacks run to their end one at a     *)
(* time, but an answer may come after the user has gone on, in any order,  *)
(* and its callback changes the page without asking whose answer it is.    *)
(*                                                                         *)
(* Of the haste_document objects only the present one, app.doc, is ever    *)
(* read, so doc is its fields, and a request remembers whether its object  *)
(* is still the present one.                                               *)
(***************************************************************************)
EXTENDS Integers, Sequences

CONSTANTS
    Keys, None,
    Texts,            \* what is typed and pasted; none of them is blank
    Torn,             \* [Texts -> SUBSET Texts]: what a short write leaves of a text
    Pastes,           \* what was posted before: [Keys -> SUBSET Texts]
    Names,            \* extensions and languages
    Languages,        \* what highlight.js knows
    Paths,            \* the addresses at which the page may be opened
    MaxRequests,      \* bound: requests under way at a time
    MaxHistory        \* the browser forgets its oldest entry beyond these

\* The object literal, in its order.
ExtensionMap ==
    << <<"rb", "ruby">>, <<"py", "python">>, <<"pl", "perl">>, <<"php", "php">>,
       <<"scala", "scala">>, <<"go", "go">>, <<"xml", "xml">>, <<"html", "xml">>,
       <<"htm", "xml">>, <<"css", "css">>, <<"js", "javascript">>,
       <<"vbs", "vbscript">>, <<"lua", "lua">>, <<"pas", "delphi">>,
       <<"java", "java">>, <<"cpp", "cpp">>, <<"cc", "cpp">>, <<"m", "objectivec">>,
       <<"vala", "vala">>, <<"sql", "sql">>, <<"sm", "smalltalk">>,
       <<"lisp", "lisp">>, <<"ini", "ini">>, <<"diff", "diff">>, <<"bash", "bash">>,
       <<"sh", "bash">>, <<"tex", "tex">>, <<"erl", "erlang">>, <<"hs", "haskell">>,
       <<"md", "markdown">>, <<"txt", "">>, <<"coffee", "coffee">>, <<"swift", "swift">> >>

Root == [key |-> None, ext |-> None]        \* "/"; otherwise "/key.ext"
Addresses == {Root} \cup [key : Keys, ext : Names \cup {None}]
Blank == ""

\* What the page asks the server for.
RequestType ==
    [kind : {"load"}, key : Keys, ext : Names \cup {None}, data : {Blank},
     mine : BOOLEAN]
    \cup [kind : {"save"}, key : {None}, ext : {None}, data : Texts, mine : BOOLEAN]

ASSUME AppConstants ==
    /\ None \notin Keys \cup Texts \cup Names \cup RequestType /\ Blank \notin Texts
    /\ Torn \in [Texts -> SUBSET Texts] /\ Pastes \in [Keys -> SUBSET Texts]
    /\ \A i \in 1..Len(ExtensionMap) : ExtensionMap[i] \in Names \X Names
    /\ Languages \subseteq Names /\ "ans" \in Names
    /\ Paths \subseteq Addresses
    /\ MaxHistory \in Nat \ {0} /\ MaxRequests \in Nat \ {0}

\* highlightAuto answers with the name of a language, not with an alias: an
\* extension that stands for another language is none.
ASSUME LanguageNames ==
    /\ "" \notin Languages
    /\ \A i \in 1..Len(ExtensionMap) :
          ExtensionMap[i][1] \in Languages => ExtensionMap[i][2] = ExtensionMap[i][1]

VARIABLES
    posted,           \* history: the texts the server was given under each key,
                      \* and what its storage may have kept of them
    history, pos,     \* the addresses of the tab, and the present one
    doc,              \* app.doc
    view,             \* what the page shows
    ajax,             \* [Slots -> a request under way, or None]
    listening,        \* onpopstate is set
    upset             \* history: the user went on before an answer came, or
                      \* something the page does not handle has happened

Slots == 1..MaxRequests
places == <<history, pos>>
vars == <<posted, history, pos, doc, view, ajax, listening, upset>>

-----------------------------------------------------------------------------
(* Languages. *)

Entries(place, name) == {i \in 1..Len(ExtensionMap) : ExtensionMap[i][place] = name}

LookupTypeByExtension(ext) ==
    IF \E i \in Entries(1, ext) : ExtensionMap[i][2] # ""
    THEN ExtensionMap[CHOOSE i \in Entries(1, ext) : TRUE][2]
    ELSE ext

\* The first entry with this type.
LookupExtensionByType(type) ==
    LET found == Entries(2, type) IN
    IF found = {} THEN type
    ELSE ExtensionMap[CHOOSE i \in found : \A j \in found : i <= j][1]

\* How load renders a paste: as text, by highlight.js, or by the ANSI filter.
Rendering(ext) ==
    IF ext = None THEN "ans" ELSE LookupTypeByExtension(ext)

\* hljs.highlight throws for a language it does not know.
Throws(ext) == Rendering(ext) \notin Languages \cup {"ans", "txt"}

-----------------------------------------------------------------------------
(* The parts that handlers and callbacks are made of. *)

Free(s) == ajax[s] = None /\ \A r \in 1..s - 1 : ajax[r] # None
Busy == \E s \in Slots : ajax[s] # None
Address == history[pos]
NewDoc == [locked |-> FALSE, key |-> None, data |-> Blank]
EmptyPage == [face |-> "area", text |-> Blank, title |-> None, lang |-> None,
              shown |-> Blank]
Showing(key, lang, data) ==
    [face |-> "box", text |-> Blank, title |-> key, lang |-> lang, shown |-> data]

\* The document of the requests under way is no longer app.doc.
Superseded(requests) ==
    [s \in Slots |-> IF requests[s] = None THEN None
                     ELSE [requests[s] EXCEPT !.mine = FALSE]]
Settle(s) == [ajax EXCEPT ![s] = None]

\* Mutant of Push: the place in the history runs ahead of it.
PushTooFar(path) ==
    LET longer == Append(SubSeq(history, 1, pos), path) IN
    /\ history' = IF Len(longer) > MaxHistory THEN Tail(longer) ELSE longer
    /\ pos' = pos + 1

\* history.pushState
Push(path) ==
    LET longer == Append(SubSeq(history, 1, pos), path) IN
    /\ history' = IF Len(longer) > MaxHistory THEN Tail(longer) ELSE longer
    /\ pos' = Len(history')

\* newDocument, with what it leaves in the text area.
NewDocument(hideHistory, text) ==
    /\ doc' = NewDoc
    /\ view' = [EmptyPage EXCEPT !.text = text]
    /\ IF hideHistory THEN UNCHANGED places ELSE Push(Root)

LoadOf(path) == [kind |-> "load", key |-> path.key, ext |-> path.ext,
                 data |-> Blank, mine |-> TRUE]

\* loadDocument
LoadDocument(path) ==
    /\ doc' = NewDoc
    /\ \E s \in Slots :
          /\ Free(s)
          /\ ajax' = [Superseded(ajax) EXCEPT ![s] = LoadOf(path)]
    /\ UNCHANGED view

-----------------------------------------------------------------------------
(* The user. *)

\* What handlePop makes of the address when the page is loaded: a new document,
\* or an empty page and a request.
FirstView(path) ==
    IF path = Root THEN EmptyPage ELSE [EmptyPage EXCEPT !.face = "blank"]

FirstRequests(path) ==
    [s \in Slots |-> IF s = 1 /\ path # Root THEN LoadOf(path) ELSE None]

Init ==
    /\ posted = Pastes
    /\ \E path \in Paths :
          /\ history = <<path>>
          /\ view = FirstView(path) /\ ajax = FirstRequests(path)
    /\ pos = 1
    /\ doc = NewDoc
    /\ listening = FALSE /\ upset = FALSE

\* The page is loaded again: what was under way is dropped.
Reload ==
    /\ view' = FirstView(Address) /\ ajax' = FirstRequests(Address)
    /\ doc' = NewDoc
    /\ listening' = FALSE /\ upset' = FALSE
    /\ UNCHANGED <<posted, places>>

\* The timer of index.html: a second after loading.
Listen ==
    /\ ~listening
    /\ listening' = TRUE
    /\ UNCHANGED <<posted, places, doc, view, ajax, upset>>

\* Back and forward.  Before the timer the address changes and nothing else.
Pop(n) ==
    /\ n \in 1..Len(history) /\ n # pos
    /\ pos' = n
    /\ \/ ~listening /\ upset' = TRUE /\ UNCHANGED <<doc, view, ajax>>
       \/ /\ listening /\ upset' = (upset \/ Busy)
          /\ IF history[n] = Root
             THEN /\ doc' = NewDoc /\ view' = EmptyPage
                  /\ ajax' = Superseded(ajax)
             ELSE LoadDocument(history[n])
    /\ UNCHANGED <<posted, history, listening>>

Type(text) ==
    /\ view.face = "area" /\ view.text # text
    /\ view' = [view EXCEPT !.text = text]
    /\ upset' = (upset \/ Busy)
    /\ UNCHANGED <<posted, places, doc, ajax, listening>>

\* Save: the text area is not blank, and save() goes on unless doc is locked.
Save ==
    /\ view.text # Blank
    /\ ~doc.locked
    /\ \E s \in Slots :
          /\ Free(s)
          /\ ajax' = [ajax EXCEPT ![s] =
                [kind |-> "save", key |-> None, ext |-> None,
                 data |-> view.text, mine |-> TRUE]]
    /\ doc' = [doc EXCEPT !.data = view.text]
    /\ upset' = (upset \/ Busy)
    /\ UNCHANGED <<posted, places, view, listening>>

\* New: "/" is not pushed when the present document has no key.
New ==
    /\ NewDocument(doc.key = None, Blank)
    /\ ajax' = Superseded(ajax)
    /\ upset' = (upset \/ Busy)
    /\ UNCHANGED <<posted, listening>>

Duplicate ==
    /\ doc.locked
    /\ NewDocument(FALSE, doc.data)
    /\ ajax' = Superseded(ajax)
    /\ upset' = (upset \/ Busy)
    /\ UNCHANGED <<posted, listening>>

-----------------------------------------------------------------------------
(* Answers. *)

\* Get of a paste: the callback of load locks its document and shows it.  The
\* server answers what was posted under the key (ReadsComeFromPosts of
\* HasteServer), be it of earlier, or overwritten since.
Loaded(s) ==
    LET key == ajax[s].key IN
    /\ ajax[s] # None /\ ajax[s].kind = "load"
    /\ \E data \in posted[key] :
          /\ doc' = IF ajax[s].mine THEN [locked |-> TRUE, key |-> key, data |-> data]
                    ELSE doc
          /\ IF Throws(ajax[s].ext) THEN upset' = TRUE /\ UNCHANGED view
             ELSE /\ view' = Showing(key, Rendering(ajax[s].ext), data)
                  /\ UNCHANGED upset
    /\ ajax' = Settle(s)
    /\ UNCHANGED <<posted, places, listening>>

\* Mutant of NotLoaded: the callback does not handle a failure.
NotLoadedIgnored(s) ==
    /\ ajax[s] # None /\ ajax[s].kind = "load"
    /\ ajax' = Settle(s)
    /\ UNCHANGED <<posted, places, doc, view, listening, upset>>

\* Mutant of NotLoaded: the address stays that of the paste.
NotLoadedStays(s) ==
    /\ ajax[s] # None /\ ajax[s].kind = "load"
    /\ NewDocument(TRUE, Blank)
    /\ ajax' = Superseded(Settle(s))
    /\ UNCHANGED <<posted, listening, upset>>

\* There is no such paste, or it is lost or has expired, or the request fails:
\* callback(false).
NotLoaded(s) ==
    /\ ajax[s] # None /\ ajax[s].kind = "load"
    /\ NewDocument(FALSE, Blank)
    /\ ajax' = Superseded(Settle(s))
    /\ UNCHANGED <<posted, listening, upset>>

\* HandlePost hands the text to Set, under a key that need not be new, and drops
\* the error of Set: the text may be stored or not, whole or in part.
Posts(s, key) ==
    posted' = [posted EXCEPT ![key] = @ \cup {ajax[s].data} \cup Torn[ajax[s].data]]

\* Mutant of Saved: the page shows what is in the text area by now.
SavedShowsArea(s) ==
    /\ ajax[s] # None /\ ajax[s].kind = "save"
    /\ \E key \in Keys, lang \in Languages \cup {None} :
          /\ Posts(s, key)
          /\ view' = Showing(key, lang, view.text)
          /\ Push([key |-> key,
                   ext |-> IF lang = None THEN None ELSE LookupExtensionByType(lang)])
          /\ doc' = IF ajax[s].mine THEN [doc EXCEPT !.locked = TRUE, !.key = key]
                    ELSE doc
    /\ ajax' = Settle(s)
    /\ UNCHANGED <<listening, upset>>

\* The server answers with the key it has drawn; hljs.highlightAuto guesses a
\* language, or none.
Saved(s) ==
    /\ ajax[s] # None /\ ajax[s].kind = "save"
    /\ \E key \in Keys, lang \in Languages \cup {None} :
          /\ Posts(s, key)
          /\ view' = Showing(key, lang, ajax[s].data)
          /\ Push([key |-> key,
                   ext |-> IF lang = None THEN None ELSE LookupExtensionByType(lang)])
          /\ doc' = IF ajax[s].mine THEN [doc EXCEPT !.locked = TRUE, !.key = key]
                    ELSE doc
    /\ ajax' = Settle(s)
    /\ UNCHANGED <<listening, upset>>

\* An error message is shown, though the paste may have been posted.
NotSaved(s) ==
    /\ ajax[s] # None /\ ajax[s].kind = "save"
    /\ UNCHANGED posted \/ \E key \in Keys : Posts(s, key)
    /\ ajax' = Settle(s)
    /\ UNCHANGED <<places, doc, view, listening, upset>>

Answer(s) == Loaded(s) \/ NotLoaded(s) \/ Saved(s) \/ NotSaved(s)

Next ==
    \/ \E n \in 1..MaxHistory : Pop(n)
    \/ \E text \in Texts : Type(text)
    \/ Reload \/ Listen \/ Save \/ New \/ Duplicate
    \/ \E s \in Slots : Answer(s)

Spec == Init /\ [][Next]_vars

\* A request is answered, or the browser reports that it failed.
FairSpec == Spec /\ \A s \in Slots : WF_vars(Answer(s))

-----------------------------------------------------------------------------
(* Properties. *)

DocType == [locked : BOOLEAN, key : Keys \cup {None}, data : Texts \cup {Blank}]
ViewType ==
    [face : {"blank", "area", "box"}, text : Texts \cup {Blank},
     title : Keys \cup {None}, lang : Names \cup {None}, shown : Texts \cup {Blank}]

PlacesOK ==
    /\ history \in Seq(Addresses) /\ Len(history) <= MaxHistory
    /\ pos \in 1..Len(history)

\* Every variable has its type.
TypeOK ==
    /\ posted \in [Keys -> SUBSET Texts]
    /\ PlacesOK
    /\ doc \in DocType
    /\ view \in ViewType
    /\ ajax \in [Slots -> RequestType \cup {None}]
    /\ listening \in BOOLEAN /\ upset \in BOOLEAN

\* Title and content belong together: however late and in whatever order answers
\* come, whatever the user has typed, saved or left meanwhile, what is shown was
\* posted under the key in the title, or is what a short write has left of that.
ShownUnderItsKey ==
    view.face = "box" => view.title \in Keys /\ view.shown \in posted[view.title]

\* Unless the user went on before an answer came, the page, the document behind
\* its buttons and the address agree once all is answered: so "Duplicate" and
\* "Just Text" act on what is shown, and the address that may be shared is that of
\* the paste shown, in the same language if it names one.
PageAgrees ==
    ~Busy /\ ~upset =>
        \/ /\ view.face = "area"
           /\ ~doc.locked /\ doc.key = None
           /\ Address = Root
        \/ /\ view.face = "box"
           /\ doc = [locked |-> TRUE, key |-> view.title, data |-> view.shown]
           /\ Address.key = view.title
           /\ Address.ext # None => Rendering(Address.ext) = view.lang

\* A page that has been opened does not stay empty: it ends up with the paste or
\* with the text area, unless something of the kind of upset happens or the user
\* reloads it for ever.
PageAppears ==
    <>[][~Reload]_vars => (view.face = "blank" ~> view.face # "blank" \/ upset)

-----------------------------------------------------------------------------
(* What the comments say and the code does not do. *)

\* application.js:145, newDocument is to "Remove the current document (if there is
\* one)": when all is answered, what is shown is app.doc.  The callback of load
\* (245) does not look whether its document still is, and save (66) puts its text
\* into a document whose first save has not been answered.
LoadedIsShown ==
    ~Busy /\ view.face = "box" => view.title = doc.key /\ view.shown = doc.data
=============================================================================
