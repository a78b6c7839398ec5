-------------------------- MODULE HasteApp_proofs --------------------------
(* Theorems about HasteApp: any keys and texts, any number of requests under *)
(* way, any length of the history.                                           *)
EXTENDS HasteApp, Induction, SequenceTheorems

-----------------------------------------------------------------------------
(* The operators. *)

\* An entry of the map has an extension and a language.
LEMMA EntryIsNames ==
    ASSUME NEW place \in {1, 2}, NEW name, NEW i \in Entries(place, name)
    PROVE  ExtensionMap[i][1] \in Names /\ ExtensionMap[i][2] \in Names
  BY AppConstants DEF Entries

Ext(i) == ExtensionMap[i][1]

LEMMA FirstEntry ==
    ASSUME NEW type, Entries(2, type) # {}
    PROVE  \E i \in Entries(2, type) : LookupExtensionByType(type) = Ext(i)
<1> DEFINE found == Entries(2, type)
<1>1. found \subseteq Nat /\ found # {}
  BY DEF Entries
<1>2. (CHOOSE i \in found : \A j \in found : i <= j) \in found
  <2> HIDE DEF found
  <2>1. \E i \in found : \A j \in found : i <= j
    BY <1>1, Smallest
  <2> QED
    BY <2>1
<1> QED
  BY <1>2 DEF LookupExtensionByType, Ext

LEMMA ExtensionIsName ==
    ASSUME NEW type \in Names
    PROVE  LookupExtensionByType(type) \in Names
<1>1. CASE Entries(2, type) = {}
  BY <1>1 DEF LookupExtensionByType
<1>2. CASE Entries(2, type) # {}
  BY <1>2, FirstEntry, EntryIsNames DEF Ext
<1> QED
  BY <1>1, <1>2

LEMMA RenderingIsName ==
    ASSUME NEW ext \in Names \cup {None}
    PROVE  Rendering(ext) \in Names
<1>1. CASE ext = None
  BY <1>1, AppConstants DEF Rendering
<1>2. CASE ext # None /\ \E i \in Entries(1, ext) : ExtensionMap[i][2] # ""
  <2>1. (CHOOSE i \in Entries(1, ext) : TRUE) \in Entries(1, ext)
    BY <1>2
  <2> QED
    BY <1>2, <2>1, EntryIsNames DEF Rendering, LookupTypeByExtension
<1>3. CASE ext # None /\ ~ \E i \in Entries(1, ext) : ExtensionMap[i][2] # ""
  BY <1>3 DEF Rendering, LookupTypeByExtension
<1> QED
  BY <1>1, <1>2, <1>3

\* An address that is pushed is the present one, and the oldest may be forgotten.
LEMMA PushTyped ==
    ASSUME PlacesOK, NEW path \in Addresses, Push(path)
    PROVE  PlacesOK'
<1> DEFINE kept == SubSeq(history, 1, pos)
           longer == Append(kept, path)
<1>1. kept \in Seq(Addresses) /\ Len(kept) = pos
  BY SubSeqProperties DEF PlacesOK
<1>2. longer \in Seq(Addresses) /\ Len(longer) = pos + 1
  BY <1>1, AppendProperties
<1>3. Tail(longer) \in Seq(Addresses) /\ Len(Tail(longer)) = pos
  BY <1>2 DEF PlacesOK
<1>4. CASE Len(longer) > MaxHistory
  <2>1. history' = Tail(longer) /\ pos' = Len(history')
    BY <1>4 DEF Push
  <2> HIDE DEF longer
  <2> QED
    BY <1>2, <1>3, <1>4, <2>1, AppConstants DEF PlacesOK
<1>5. CASE Len(longer) <= MaxHistory
  <2>1. history' = longer /\ pos' = Len(history')
    BY <1>2, <1>5, AppConstants DEF Push
  <2> HIDE DEF longer
  <2> QED
    BY <1>2, <1>5, <2>1 DEF PlacesOK
<1> QED
  BY <1>2, <1>4, <1>5, AppConstants DEF PlacesOK

LEMMA RootIsAddress == Root \in Addresses
  BY DEF Addresses

LEMMA PresentAddress ==
    ASSUME PlacesOK
    PROVE  Address \in Addresses
  BY DEF PlacesOK, Address

LEMMA RecordsTyped ==
    /\ NewDoc \in DocType
    /\ \A text \in Texts \cup {Blank} : [EmptyPage EXCEPT !.text = text] \in ViewType
    /\ \A path \in Addresses : FirstView(path) \in ViewType
    /\ \A key \in Keys, lang \in Names \cup {None}, data \in Texts :
          Showing(key, lang, data) \in ViewType
  BY DEF NewDoc, DocType, EmptyPage, ViewType, Showing, FirstView

\* The address of a paste can be asked for.
LEMMA LoadTyped ==
    ASSUME NEW path \in Addresses, path # Root
    PROVE  LoadOf(path) \in RequestType
  BY DEF LoadOf, Addresses, RequestType

LEMMA SupersededTyped ==
    ASSUME NEW requests \in [Slots -> RequestType \cup {None}]
    PROVE  Superseded(requests) \in [Slots -> RequestType \cup {None}]
<1> SUFFICES ASSUME NEW s \in Slots, requests[s] # None
             PROVE  [requests[s] EXCEPT !.mine = FALSE] \in RequestType
  BY DEF Superseded
<1>1. requests[s] \in RequestType
  OBVIOUS
<1> QED
  BY <1>1 DEF RequestType

LEMMA SettleTyped ==
    ASSUME TypeOK, NEW s \in Slots
    PROVE  Settle(s) \in [Slots -> RequestType \cup {None}]
  BY DEF TypeOK, Settle

LEMMA NewDocumentTyped ==
    ASSUME TypeOK, NEW hideHistory \in BOOLEAN, NEW text \in Texts \cup {Blank},
           NewDocument(hideHistory, text)
    PROVE  doc' \in DocType /\ view' \in ViewType /\ PlacesOK'
<1>1. doc' \in DocType /\ view' \in ViewType
  BY RecordsTyped DEF NewDocument
<1>2. CASE hideHistory
  <2>1. UNCHANGED places
    BY <1>2, Zenon DEF NewDocument
  <2> QED
    BY <1>1, <2>1 DEF places, PlacesOK, TypeOK
<1>3. CASE ~hideHistory
  <2>1. Push(Root)
    BY <1>3, Zenon DEF NewDocument
  <2> QED
    BY <1>1, <2>1, PushTyped, RootIsAddress DEF TypeOK
<1> QED
  BY <1>1, <1>2, <1>3

LEMMA LoadDocumentTyped ==
    ASSUME TypeOK, NEW path \in Addresses, path # Root, LoadDocument(path)
    PROVE  /\ doc' \in DocType /\ view' \in ViewType
           /\ ajax' \in [Slots -> RequestType \cup {None}]
<1>1. LoadOf(path) \in RequestType
  BY LoadTyped
<1>2. Superseded(ajax) \in [Slots -> RequestType \cup {None}]
  BY SupersededTyped DEF TypeOK
<1> QED
  BY <1>1, <1>2, RecordsTyped DEF LoadDocument, TypeOK

LEMMA FirstRequestsTyped ==
    ASSUME NEW path \in Addresses
    PROVE  FirstRequests(path) \in [Slots -> RequestType \cup {None}]
  BY LoadTyped DEF FirstRequests

\* What was posted under a key is not forgotten.
LEMMA PostsGrow ==
    ASSUME TypeOK, NEW s \in Slots, ajax[s].data \in Texts, NEW key \in Keys, Posts(s, key)
    PROVE  /\ posted' \in [Keys -> SUBSET Texts]
           /\ ajax[s].data \in posted'[key]
           /\ \A k \in Keys : posted[k] \subseteq posted'[k]
BY AppConstants DEF TypeOK, Posts

-----------------------------------------------------------------------------
(* The type invariant. *)

LEMMA TypeInit == Init => TypeOK
<1> SUFFICES ASSUME Init PROVE TypeOK
  OBVIOUS
<1>1. PICK path \in Paths : history = <<path>> /\ view = FirstView(path)
                                /\ ajax = FirstRequests(path)
  BY DEF Init
<1>2. path \in Addresses
  BY AppConstants
<1>3. PlacesOK
  BY <1>1, <1>2, AppConstants DEF PlacesOK, Init
<1>4. view \in ViewType /\ doc \in DocType
  BY <1>1, <1>2, RecordsTyped DEF Init
<1>5. ajax \in [Slots -> RequestType \cup {None}]
  BY <1>1, <1>2, FirstRequestsTyped
<1> QED
  BY <1>3, <1>4, <1>5, AppConstants DEF TypeOK, Init

LEMMA TypeStep == TypeOK /\ [Next]_vars => TypeOK'
<1> SUFFICES ASSUME TypeOK, [Next]_vars PROVE TypeOK'
  OBVIOUS
<1>1. ASSUME NEW n \in 1..MaxHistory, Pop(n) PROVE TypeOK'
  <2>1. PlacesOK' /\ history[n] \in Addresses
    BY <1>1 DEF Pop, TypeOK, PlacesOK
  <2>2. posted' \in [Keys -> SUBSET Texts] /\ listening' \in BOOLEAN
    BY <1>1 DEF Pop, TypeOK
  <2>3. upset' \in BOOLEAN
    BY <1>1 DEF Pop, TypeOK
  <2>4. CASE UNCHANGED <<doc, view, ajax>>
    BY <2>1, <2>2, <2>3, <2>4 DEF TypeOK
  <2>5. CASE history[n] = Root /\ doc' = NewDoc /\ view' = EmptyPage
                 /\ ajax' = Superseded(ajax)
    <3>1. EmptyPage \in ViewType
      BY DEF EmptyPage, ViewType
    <3> QED
      BY <2>1, <2>2, <2>3, <2>5, <3>1, RecordsTyped, SupersededTyped DEF TypeOK
  <2>6. CASE history[n] # Root /\ LoadDocument(history[n])
    BY <2>1, <2>2, <2>3, <2>6, LoadDocumentTyped DEF TypeOK
  <2> QED
    BY <1>1, <2>4, <2>5, <2>6 DEF Pop
<1>2. ASSUME NEW text \in Texts, Type(text) PROVE TypeOK'
  BY <1>2 DEF Type, TypeOK, ViewType, PlacesOK, places
<1>3. CASE Reload
  <2>1. Address \in Addresses
    BY PresentAddress DEF TypeOK
  <2> QED
    BY <1>3, <2>1, RecordsTyped, FirstRequestsTyped
    DEF Reload, TypeOK, PlacesOK, places
<1>4. CASE Listen
  BY <1>4 DEF Listen, TypeOK, PlacesOK, places
<1>5. CASE Save
  <2>1. view.text \in Texts
    BY <1>5 DEF Save, TypeOK, ViewType
  <2>2. [kind |-> "save", key |-> None, ext |-> None, data |-> view.text,
         mine |-> TRUE] \in RequestType
    BY <2>1 DEF RequestType
  <2>3. ajax' \in [Slots -> RequestType \cup {None}]
    BY <1>5, <2>2 DEF Save, TypeOK
  <2>4. doc' \in DocType
    BY <1>5, <2>1 DEF Save, TypeOK, DocType
  <2> QED
    BY <1>5, <2>3, <2>4 DEF Save, TypeOK, PlacesOK, places
<1>6. CASE New
  <2>1. doc' \in DocType /\ view' \in ViewType /\ PlacesOK'
    BY <1>6, NewDocumentTyped DEF New
  <2> QED
    BY <1>6, <2>1, SupersededTyped DEF New, TypeOK
<1>7. CASE Duplicate
  <2>1. doc.data \in Texts \cup {Blank}
    BY DEF TypeOK, DocType
  <2>2. doc' \in DocType /\ view' \in ViewType /\ PlacesOK'
    BY <1>7, <2>1, NewDocumentTyped DEF Duplicate
  <2> QED
    BY <1>7, <2>2, SupersededTyped DEF Duplicate, TypeOK
<1>8. ASSUME NEW s \in Slots, Loaded(s) PROVE TypeOK'
  <2>1. /\ ajax[s].key \in Keys /\ ajax[s].ext \in Names \cup {None}
        /\ \A data \in posted[ajax[s].key] : data \in Texts
    BY <1>8 DEF Loaded, TypeOK, RequestType
  <2>2. doc' \in DocType
    BY <1>8, <2>1 DEF Loaded, TypeOK, DocType
  <2>3. view' \in ViewType
    BY <1>8, <2>1, RecordsTyped, RenderingIsName DEF Loaded, TypeOK
  <2>4. ajax' \in [Slots -> RequestType \cup {None}]
    BY <1>8, SettleTyped DEF Loaded
  <2> QED
    BY <1>8, <2>2, <2>3, <2>4 DEF Loaded, TypeOK, PlacesOK, places
<1>9. ASSUME NEW s \in Slots, NotLoaded(s) PROVE TypeOK'
  <2>1. doc' \in DocType /\ view' \in ViewType /\ PlacesOK'
    BY <1>9, NewDocumentTyped DEF NotLoaded
  <2>2. ajax' \in [Slots -> RequestType \cup {None}]
    BY <1>9, SettleTyped, SupersededTyped DEF NotLoaded
  <2> QED
    BY <1>9, <2>1, <2>2 DEF NotLoaded, TypeOK
<1>10. ASSUME NEW s \in Slots, Saved(s) PROVE TypeOK'
  <2>1. ajax[s].data \in Texts
    BY <1>10 DEF Saved, TypeOK, RequestType
  <2>2. PICK key \in Keys, lang \in Languages \cup {None} :
          /\ Posts(s, key)
          /\ view' = Showing(key, lang, ajax[s].data)
          /\ Push([key |-> key,
                   ext |-> IF lang = None THEN None ELSE LookupExtensionByType(lang)])
          /\ doc' = IF ajax[s].mine THEN [doc EXCEPT !.locked = TRUE, !.key = key]
                    ELSE doc
    BY <1>10 DEF Saved
  <2>3. posted' \in [Keys -> SUBSET Texts]
    BY <2>1, <2>2, PostsGrow
  <2>4. PlacesOK'
    <3>1. (IF lang = None THEN None ELSE LookupExtensionByType(lang))
              \in Names \cup {None}
      BY ExtensionIsName, AppConstants
    <3>2. [key |-> key,
           ext |-> IF lang = None THEN None ELSE LookupExtensionByType(lang)]
              \in Addresses
      BY <3>1 DEF Addresses
    <3> QED
      BY <2>2, <3>2, PushTyped DEF TypeOK
  <2>5. view' \in ViewType
    BY <2>1, <2>2, RecordsTyped, AppConstants
  <2>6. doc' \in DocType
    BY <2>2 DEF TypeOK, DocType
  <2>7. ajax' \in [Slots -> RequestType \cup {None}]
    BY <1>10, SettleTyped DEF Saved
  <2> QED
    BY <1>10, <2>3, <2>4, <2>5, <2>6, <2>7 DEF Saved, TypeOK
<1>11. ASSUME NEW s \in Slots, NotSaved(s) PROVE TypeOK'
  <2>1. ajax[s].data \in Texts
    BY <1>11 DEF NotSaved, TypeOK, RequestType
  <2>2. posted' \in [Keys -> SUBSET Texts]
    BY <1>11, <2>1, PostsGrow DEF NotSaved, TypeOK
  <2>3. ajax' \in [Slots -> RequestType \cup {None}]
    BY <1>11, SettleTyped DEF NotSaved
  <2> QED
    BY <1>11, <2>2, <2>3 DEF NotSaved, TypeOK, PlacesOK, places
<1>12. CASE UNCHANGED vars
  BY <1>12 DEF vars, TypeOK, PlacesOK
<1> QED
  BY <1>1, <1>2, <1>3, <1>4, <1>5, <1>6, <1>7, <1>8, <1>9, <1>10, <1>11, <1>12
  DEF Next, Answer

\* The page keeps its types through every answer, navigation and reload: an
\* address always names a paste and a language that can be asked for.
THEOREM AppTyping == Spec => []TypeOK
<1> QED
  BY TypeInit, TypeStep, PTL DEF Spec

-----------------------------------------------------------------------------
(* What is shown. *)

\* A page that is not a box, or is the box it was, while pastes are posted.
LEMMA OtherShown ==
    ASSUME ShownUnderItsKey, view'.face # "box" \/ UNCHANGED view,
           \A k \in Keys : posted[k] \subseteq posted'[k]
    PROVE  ShownUnderItsKey'
  BY DEF ShownUnderItsKey

LEMMA ShownInit == Init => ShownUnderItsKey
<1> SUFFICES ASSUME Init PROVE view.face # "box"
  BY DEF ShownUnderItsKey
<1>1. PICK path \in Paths : view = FirstView(path)
  BY DEF Init
<1> QED
  BY <1>1 DEF FirstView, EmptyPage

LEMMA ShownStep == TypeOK /\ ShownUnderItsKey /\ [Next]_vars => ShownUnderItsKey'
<1> SUFFICES ASSUME TypeOK, ShownUnderItsKey, [Next]_vars PROVE ShownUnderItsKey'
  OBVIOUS
<1>1. ASSUME NEW n \in 1..MaxHistory, Pop(n) PROVE ShownUnderItsKey'
  BY <1>1, OtherShown DEF Pop, LoadDocument, EmptyPage
<1>2. ASSUME NEW text \in Texts, Type(text) PROVE ShownUnderItsKey'
  BY <1>2, OtherShown DEF Type, TypeOK, ViewType
<1>3. CASE Reload
  BY <1>3, OtherShown DEF Reload, FirstView, EmptyPage
<1>4. CASE Listen \/ Save
  BY <1>4, OtherShown DEF Listen, Save
<1>5. CASE New \/ Duplicate
  BY <1>5, OtherShown DEF New, Duplicate, NewDocument, EmptyPage
<1>6. ASSUME NEW s \in Slots, Loaded(s) PROVE ShownUnderItsKey'
  <2>1. ajax[s].key \in Keys /\ UNCHANGED posted
    BY <1>6 DEF Loaded, TypeOK, RequestType
  <2>2. CASE UNCHANGED view
    BY <2>1, <2>2, OtherShown
  <2>3. CASE \E data \in posted[ajax[s].key] :
               view' = Showing(ajax[s].key, Rendering(ajax[s].ext), data)
    BY <2>1, <2>3 DEF Showing, ShownUnderItsKey
  <2> QED
    BY <1>6, <2>2, <2>3 DEF Loaded
<1>7. ASSUME NEW s \in Slots, NotLoaded(s) PROVE ShownUnderItsKey'
  BY <1>7, OtherShown DEF NotLoaded, NewDocument, EmptyPage
<1>8. ASSUME NEW s \in Slots, Saved(s) PROVE ShownUnderItsKey'
  <2>1. ajax[s].data \in Texts
    BY <1>8 DEF Saved, TypeOK, RequestType
  <2>2. PICK key \in Keys, lang \in Languages \cup {None} :
          Posts(s, key) /\ view' = Showing(key, lang, ajax[s].data)
    BY <1>8 DEF Saved
  <2>3. ajax[s].data \in posted'[key]
    BY <2>1, <2>2, PostsGrow
  <2> QED
    BY <2>2, <2>3 DEF Showing, ShownUnderItsKey
<1>9. ASSUME NEW s \in Slots, NotSaved(s) PROVE ShownUnderItsKey'
  <2>1. UNCHANGED view /\ ajax[s].data \in Texts
    BY <1>9 DEF NotSaved, TypeOK, RequestType
  <2>2. \A k \in Keys : posted[k] \subseteq posted'[k]
    BY <1>9, <2>1, PostsGrow DEF NotSaved
  <2> QED
    BY <2>1, <2>2, OtherShown
<1>10. CASE UNCHANGED vars
  BY <1>10, OtherShown DEF vars
<1> QED
  BY <1>1, <1>2, <1>3, <1>4, <1>5, <1>6, <1>7, <1>8, <1>9, <1>10 DEF Next, Answer

\* However many answers come late and in whatever order, what is shown was posted
\* under the key in the title: whether or not keys repeat, pastes expire or the
\* server stores what it acknowledges.
THEOREM ShownIsPosted == Spec => []ShownUnderItsKey
<1> QED
  BY TypeInit, TypeStep, ShownInit, ShownStep, PTL DEF Spec

-----------------------------------------------------------------------------
(* The extension map: a language that gives a paste its extension is found   *)
(* again by it.                                                              *)

LEMMA Extensions ==
    /\ Ext(1) = "rb" /\ Ext(2) = "py" /\ Ext(3) = "pl" /\ Ext(4) = "php"
    /\ Ext(5) = "scala" /\ Ext(6) = "go" /\ Ext(7) = "xml" /\ Ext(8) = "html"
    /\ Ext(9) = "htm" /\ Ext(10) = "css" /\ Ext(11) = "js" /\ Ext(12) = "vbs"
    /\ Ext(13) = "lua" /\ Ext(14) = "pas" /\ Ext(15) = "java" /\ Ext(16) = "cpp"
    /\ Ext(17) = "cc" /\ Ext(18) = "m" /\ Ext(19) = "vala" /\ Ext(20) = "sql"
    /\ Ext(21) = "sm" /\ Ext(22) = "lisp" /\ Ext(23) = "ini" /\ Ext(24) = "diff"
    /\ Ext(25) = "bash" /\ Ext(26) = "sh" /\ Ext(27) = "tex" /\ Ext(28) = "erl"
    /\ Ext(29) = "hs" /\ Ext(30) = "md" /\ Ext(31) = "txt" /\ Ext(32) = "coffee"
    /\ Ext(33) = "swift"
BY DEF ExtensionMap, Ext

LEMMA Size == Len(ExtensionMap) = 33
BY DEF ExtensionMap

LEMMA Within ==
    ASSUME NEW i \in 1..33
    PROVE   \/ i = 1 \/ i = 2 \/ i = 3 \/ i = 4 \/ i = 5 \/ i = 6 \/ i = 7 \/ i = 8
            \/ i = 9 \/ i = 10 \/ i = 11 \/ i = 12 \/ i = 13 \/ i = 14 \/ i = 15 \/ i = 16
            \/ i = 17 \/ i = 18 \/ i = 19 \/ i = 20 \/ i = 21 \/ i = 22 \/ i = 23 \/ i = 24
            \/ i = 25 \/ i = 26 \/ i = 27 \/ i = 28 \/ i = 29 \/ i = 30 \/ i = 31 \/ i = 32
            \/ i = 33
OBVIOUS

\* The object literal gives no extension twice.
LEMMA ExtensionsDiffer ==
    ASSUME NEW i \in 1..33, NEW j \in 1..33, Ext(i) = Ext(j)
    PROVE  i = j
BY Within, Extensions

\* The address of a paste that has just been saved names its language.
LEMMA LanguageComesBack ==
    ASSUME NEW lang \in Languages
    PROVE  Rendering(LookupExtensionByType(lang)) = lang
<1> DEFINE ext == LookupExtensionByType(lang)
<1>1. ext # None
  BY ExtensionIsName, AppConstants
<1>2. CASE Entries(2, lang) = {}
  <2>1. ext = lang
    BY <1>2 DEF LookupExtensionByType
  <2>2. Entries(1, lang) = {}
    <3> SUFFICES ASSUME NEW i \in Entries(1, lang) PROVE FALSE
      OBVIOUS
    <3>1. i \in 1..Len(ExtensionMap) /\ ExtensionMap[i][1] = lang
      BY DEF Entries
    <3>2. ExtensionMap[i][2] = lang
      BY <3>1, LanguageNames
    <3> QED
      BY <1>2, <3>1, <3>2 DEF Entries
  <2> QED
    BY <1>1, <2>1, <2>2 DEF Rendering, LookupTypeByExtension
<1>3. CASE Entries(2, lang) # {}
  <2>1. PICK i \in Entries(2, lang) : ext = Ext(i)
    BY <1>3, FirstEntry
  <2>2. i \in 1..33 /\ ExtensionMap[i][2] = lang /\ ExtensionMap[i][1] = ext
    BY <2>1, Size DEF Entries, Ext
  <2> HIDE DEF ext
  <2>3. \A j \in Entries(1, ext) : j = i
    <3> SUFFICES ASSUME NEW j \in Entries(1, ext) PROVE j = i
      OBVIOUS
    <3>1. j \in 1..33 /\ Ext(j) = ext
      BY Size DEF Entries, Ext
    <3> QED
      BY <2>1, <2>2, <3>1, ExtensionsDiffer
  <2>4. i \in Entries(1, ext)
    BY <2>2, Size DEF Entries
  <2>5. ExtensionMap[i][2] # ""
    BY <2>2, LanguageNames
  <2>6. (CHOOSE j \in Entries(1, ext) : TRUE) = i
    BY <2>3, <2>4
  <2>7. LookupTypeByExtension(ext) = lang
    BY <2>2, <2>4, <2>5, <2>6 DEF LookupTypeByExtension
  <2> QED
    BY <1>1, <2>7 DEF Rendering, ext
<1> QED
  BY <1>2, <1>3

-----------------------------------------------------------------------------
(* The page, the document and the address. *)

Agrees ==
    \/ /\ view.face = "area"
       /\ ~doc.locked /\ doc.key = None
       /\ Address = Root
    \/ /\ view.face = "box"
       /\ doc = [locked |-> TRUE, key |-> view.title, data |-> view.shown]
       /\ Address.key = view.title
       /\ Address.ext # None => Rendering(Address.ext) = view.lang

\* The request under way is of the present document and of the present address.
Belongs(r) ==
    /\ r.mine
    /\ \/ /\ r.kind = "load"
          /\ doc = NewDoc
          /\ Address.key = r.key /\ Address.ext = r.ext
       \/ /\ r.kind = "save"
          /\ view.face = "area"
          /\ doc = [locked |-> FALSE, key |-> None, data |-> r.data]
          /\ Address = Root

\* The only request that may be under way is that of slot s.
OnlyIn(requests, s) == \A r \in Slots : requests[r] # None => r = s

\* The inductive invariant behind PageAgrees: as long as the user waits for
\* answers, there is one request at most, and it belongs to what is there.
AgreeInv ==
    /\ view.face # "area" => view.text = Blank
    /\ ~upset => \/ ~Busy /\ Agrees
                 \/ \E s \in Slots : /\ ajax[s] # None /\ OnlyIn(ajax, s)
                                     /\ Belongs(ajax[s])

LEMMA AgreeMeans == AgreeInv => PageAgrees
<1> SUFFICES ASSUME AgreeInv, ~Busy, ~upset PROVE Agrees
  BY DEF PageAgrees, Agrees
<1> QED
  BY DEF AgreeInv, Busy

LEMMA NoneIsNoRequest == None \notin RequestType
BY AppConstants

LEMMA FirstSlot == 1 \in Slots
BY AppConstants DEF Slots

LEMMA NothingUnderWay ==
    ASSUME NEW requests, \A s \in Slots : requests[s] = None
    PROVE  \A s \in Slots : Superseded(requests)[s] = None
BY DEF Superseded

\* The last answer leaves nothing under way.
LEMMA LastAnswer ==
    ASSUME TypeOK, NEW s \in Slots, OnlyIn(ajax, s)
    PROVE  /\ \A r \in Slots : Settle(s)[r] = None
           /\ \A r \in Slots : Superseded(Settle(s))[r] = None
<1>1. \A r \in Slots : Settle(s)[r] = None
  BY DEF Settle, OnlyIn, TypeOK
<1> QED
  BY <1>1, NothingUnderWay

\* What is pushed is the present address.
LEMMA PushGoes ==
    ASSUME PlacesOK, NEW path \in Addresses, Push(path)
    PROVE  Address' = path
<1> DEFINE kept == SubSeq(history, 1, pos)
           longer == Append(kept, path)
<1>1. kept \in Seq(Addresses) /\ Len(kept) = pos /\ pos \in Nat \ {0}
  BY SubSeqProperties DEF PlacesOK
<1>2. longer \in Seq(Addresses) /\ Len(longer) = pos + 1 /\ longer[pos + 1] = path
  BY <1>1, AppendProperties
<1>3. pos' = Len(history') /\ history' = IF Len(longer) > MaxHistory THEN Tail(longer) ELSE longer
  BY DEF Push
<1> HIDE DEF longer, kept
<1>4. Len(Tail(longer)) = pos /\ Tail(longer)[pos] = path
  <2>1. longer # <<>>
    BY <1>1, <1>2
  <2> QED
    BY <1>1, <1>2, <2>1, HeadTailProperties
<1>5. CASE history' = Tail(longer)
  BY <1>3, <1>4, <1>5 DEF Address
<1>6. CASE history' = longer
  BY <1>2, <1>3, <1>6 DEF Address
<1> QED
  BY <1>3, <1>5, <1>6

\* New, Duplicate and a load that fails end at the text area.
LEMMA AgreeNewDocument ==
    ASSUME TypeOK, NEW hideHistory \in BOOLEAN, NEW text, NewDocument(hideHistory, text),
           hideHistory => Address = Root
    PROVE  Agrees' /\ view'.face = "area"
<1>1. doc' = NewDoc /\ view' = [EmptyPage EXCEPT !.text = text]
  BY DEF NewDocument
<1>2. Address' = Root
  <2>1. CASE hideHistory
    <3>1. UNCHANGED places
      BY <2>1, Zenon DEF NewDocument
    <3> QED
      BY <2>1, <3>1 DEF places, Address
  <2>2. CASE ~hideHistory
    <3>1. Push(Root)
      BY <2>2, Zenon DEF NewDocument
    <3> QED
      BY <3>1, PushGoes, RootIsAddress DEF TypeOK
  <2> QED
    BY <2>1, <2>2
<1>3. view'.face = "area" /\ doc'.locked = FALSE /\ doc'.key = None
  BY <1>1 DEF NewDoc, EmptyPage
<1> QED
  BY <1>2, <1>3 DEF Agrees

\* A page that is loaded: empty at "/", and otherwise with a request.
FreshPage ==
    /\ Address \in Addresses /\ doc = NewDoc
    /\ view = FirstView(Address) /\ ajax = FirstRequests(Address)

LEMMA AgreeFirst == FreshPage => AgreeInv
<1> SUFFICES ASSUME FreshPage PROVE AgreeInv
  OBVIOUS
<1>1. view.face # "area" => view.text = Blank
  BY DEF FreshPage, FirstView, EmptyPage
<1>2. CASE Address = Root
  <2>1. \A s \in Slots : ajax[s] = None
    BY <1>2 DEF FreshPage, FirstRequests
  <2>2. Agrees
    BY <1>2 DEF FreshPage, FirstView, EmptyPage, NewDoc, Agrees
  <2> QED
    BY <1>1, <2>1, <2>2 DEF AgreeInv, Busy
<1>3. CASE Address # Root
  <2>1. ajax[1] = LoadOf(Address) /\ \A s \in Slots : s # 1 => ajax[s] = None
    BY <1>3, FirstSlot DEF FreshPage, FirstRequests
  <2>2. LoadOf(Address) # None
    BY <1>3, LoadTyped, NoneIsNoRequest DEF FreshPage
  <2>3. OnlyIn(ajax, 1)
    BY <2>1 DEF OnlyIn
  <2>4. Belongs(LoadOf(Address))
    BY DEF FreshPage, LoadOf, Belongs
  <2> QED
    BY <1>1, <2>1, <2>2, <2>3, <2>4, FirstSlot DEF AgreeInv
<1> QED
  BY <1>2, <1>3

LEMMA AgreeReload == TypeOK /\ Reload => AgreeInv'
<1>1. TypeOK /\ Reload => FreshPage'
  BY PresentAddress DEF TypeOK, Reload, FreshPage, Address, places
<1> QED
  BY <1>1, AgreeFirst, PTL

\* Where the request of slot s is answered while nothing is upset, it is the
\* only one and belongs to what is there.
LEMMA AnsweredBelongs ==
    ASSUME AgreeInv, ~upset, NEW s \in Slots, ajax[s] # None
    PROVE  OnlyIn(ajax, s) /\ Belongs(ajax[s])
<1>1. Busy
  BY DEF Busy
<1> QED
  BY <1>1 DEF AgreeInv, OnlyIn

LEMMA NotBusyIs ==
    ASSUME ~Busy
    PROVE  \A s \in Slots : ajax[s] = None /\ Superseded(ajax)[s] = None
BY NothingUnderWay DEF Busy

\* While nothing is under way, a step that leaves nothing under way has only to
\* keep the page, the document and the address together.
LEMMA AgreeQuiet ==
    ASSUME \A s \in Slots : ajax'[s] = None, Agrees', view'.face # "area" => view'.text = Blank
    PROVE  AgreeInv'
BY DEF AgreeInv, Busy

LEMMA AgreeLoad ==
    ASSUME TypeOK, ~Busy, NEW path \in Addresses, path # Root,
           Address' = path, LoadDocument(path), view.face # "area" => view.text = Blank
    PROVE  AgreeInv'
<1>1. PICK s \in Slots : ajax' = [Superseded(ajax) EXCEPT ![s] = LoadOf(path)]
  BY DEF LoadDocument
<1>2. Superseded(ajax) = [r \in Slots |-> None]
  BY NotBusyIs DEF Superseded
<1>3. ajax'[s] = LoadOf(path) /\ \A r \in Slots : r # s => ajax'[r] = None
  BY <1>1, <1>2
<1>4. LoadOf(path) # None
  BY LoadTyped, NoneIsNoRequest
<1>5. OnlyIn(ajax', s)
  BY <1>3 DEF OnlyIn
<1>6. Belongs(LoadOf(path))'
  BY DEF LoadDocument, LoadOf, Belongs
<1>7. UNCHANGED view
  BY DEF LoadDocument
<1> QED
  BY <1>3, <1>4, <1>5, <1>6, <1>7 DEF AgreeInv

LEMMA AgreePop ==
    ASSUME TypeOK, AgreeInv, NEW n \in 1..MaxHistory, Pop(n)
    PROVE  AgreeInv'
<1>1. history' = history /\ pos' = n /\ n \in 1..Len(history)
  BY DEF Pop
<1>2. Address' = history[n] /\ history[n] \in Addresses
  BY <1>1 DEF Address, TypeOK, PlacesOK
<1>3. CASE upset' /\ UNCHANGED <<doc, view, ajax>>
  BY <1>3 DEF AgreeInv
<1>4. CASE /\ upset' = (upset \/ Busy) /\ history[n] = Root
           /\ doc' = NewDoc /\ view' = EmptyPage /\ ajax' = Superseded(ajax)
  <2>1. view'.face = "area" /\ Agrees'
    BY <1>2, <1>4 DEF NewDoc, EmptyPage, Agrees
  <2>2. CASE Busy
    BY <1>4, <2>1, <2>2 DEF AgreeInv
  <2>3. CASE ~Busy
    BY <1>4, <2>1, <2>3, NotBusyIs, AgreeQuiet
  <2> QED
    BY <2>2, <2>3
<1>5. CASE upset' = (upset \/ Busy) /\ history[n] # Root /\ LoadDocument(history[n])
  <2>1. view.face # "area" => view.text = Blank
    BY DEF AgreeInv
  <2>2. CASE Busy
    <3>1. UNCHANGED view
      BY <1>5 DEF LoadDocument
    <3> QED
      BY <1>5, <2>1, <2>2, <3>1 DEF AgreeInv
  <2>3. CASE ~Busy
    BY <1>2, <1>5, <2>1, <2>3, AgreeLoad
  <2> QED
    BY <2>2, <2>3
<1> QED
  BY <1>3, <1>4, <1>5 DEF Pop

LEMMA AgreeType ==
    ASSUME TypeOK, AgreeInv, NEW text \in Texts, Type(text)
    PROVE  AgreeInv'
<1>1. view'.face = "area" /\ view.face = "area" /\ UNCHANGED <<places, doc, ajax>>
      /\ upset' = (upset \/ Busy)
  BY DEF Type, TypeOK, ViewType
<1>2. CASE Busy
  BY <1>1, <1>2 DEF AgreeInv
<1>3. CASE ~Busy
  <2>1. ~upset => Agrees
    BY <1>3, NotBusyIs DEF AgreeInv
  <2>2. Agrees => Agrees'
    BY <1>1 DEF Agrees, Address, places
  <2> QED
    BY <1>1, <1>3, <2>1, <2>2 DEF AgreeInv, Busy
<1> QED
  BY <1>2, <1>3

LEMMA AgreeSave ==
    ASSUME TypeOK, AgreeInv, Save
    PROVE  AgreeInv'
<1>1. PICK s \in Slots :
         ajax' = [ajax EXCEPT ![s] = [kind |-> "save", key |-> None, ext |-> None,
                                      data |-> view.text, mine |-> TRUE]]
  BY DEF Save
<1> DEFINE r == [kind |-> "save", key |-> None, ext |-> None,
                 data |-> view.text, mine |-> TRUE]
<1>2. /\ view.text # Blank /\ ~doc.locked /\ doc' = [doc EXCEPT !.data = view.text]
      /\ upset' = (upset \/ Busy) /\ UNCHANGED <<places, view>>
  BY DEF Save
<1>3. view.face = "area"
  BY <1>2 DEF AgreeInv
<1>4. CASE upset'
  BY <1>2, <1>3, <1>4 DEF AgreeInv
<1>5. CASE ~upset'
  <2>1. ~Busy /\ ~upset /\ Agrees
    BY <1>2, <1>5, NotBusyIs DEF AgreeInv
  <2>2. doc.key = None /\ Address = Root /\ Address' = Root
    BY <1>2, <1>3, <2>1 DEF Agrees, Address, places
  <2>3. doc' = [locked |-> FALSE, key |-> None, data |-> view.text]
    BY <1>2, <2>2 DEF TypeOK, DocType
  <2>4. r \in RequestType
    BY <1>2 DEF TypeOK, ViewType, RequestType
  <2>5. ajax'[s] = r /\ \A q \in Slots : q # s => ajax'[q] = None
    BY <1>1, <2>1, NotBusyIs DEF TypeOK
  <2>6. Belongs(r)'
    BY <1>2, <1>3, <2>2, <2>3 DEF Belongs
  <2>7. r # None
    BY <2>4, NoneIsNoRequest
  <2> HIDE DEF r
  <2>8. OnlyIn(ajax', s)
    BY <2>5 DEF OnlyIn
  <2>9. r' = r
    BY <1>2 DEF r
  <2> QED
    BY <1>2, <1>3, <2>5, <2>6, <2>7, <2>8, <2>9 DEF AgreeInv
<1> QED
  BY <1>4, <1>5

LEMMA AgreeNew ==
    ASSUME TypeOK, ShownUnderItsKey, AgreeInv, New \/ Duplicate
    PROVE  AgreeInv'
<1>1. PICK hide \in BOOLEAN, text \in Texts \cup {Blank} :
         NewDocument(hide, text) /\ (hide => doc.key = None)
  BY DEF New, Duplicate, TypeOK, DocType
<1>2. upset' = (upset \/ Busy) /\ ajax' = Superseded(ajax)
  BY DEF New, Duplicate
<1>3. view'.face = "area"
  BY <1>1 DEF NewDocument, EmptyPage
<1>4. CASE upset'
  BY <1>3, <1>4 DEF AgreeInv
<1>5. CASE ~upset'
  <2>1. ~Busy /\ ~upset /\ Agrees
    BY <1>2, <1>5, NotBusyIs DEF AgreeInv
  <2>2. hide => Address = Root
    <3>1. view.face = "box" => doc.key \in Keys
      BY <2>1 DEF Agrees, ShownUnderItsKey
    <3>2. doc.key = None => view.face # "box"
      BY <3>1, AppConstants
    <3> QED
      BY <1>1, <2>1, <3>2 DEF Agrees
  <2>3. Agrees'
    BY <1>1, <2>2, AgreeNewDocument
  <2> QED
    BY <1>2, <1>3, <2>1, <2>3, NotBusyIs, AgreeQuiet
<1> QED
  BY <1>4, <1>5

LEMMA AgreeLoaded ==
    ASSUME TypeOK, AgreeInv, NEW s \in Slots, Loaded(s)
    PROVE  AgreeInv'
<1> DEFINE r == ajax[s]
<1>1. r # None /\ r.kind = "load" /\ ajax' = Settle(s) /\ UNCHANGED places
  BY DEF Loaded
<1>2. PICK data \in posted[r.key] :
         /\ doc' = IF r.mine THEN [locked |-> TRUE, key |-> r.key, data |-> data] ELSE doc
         /\ \/ upset' = TRUE /\ UNCHANGED view
            \/ UNCHANGED upset /\ view' = Showing(r.key, Rendering(r.ext), data)
  BY Zenon DEF Loaded
<1> HIDE DEF r
<1>3. CASE upset' = TRUE /\ UNCHANGED view
  BY <1>3 DEF AgreeInv
<1>4. CASE UNCHANGED upset /\ view' = Showing(r.key, Rendering(r.ext), data)
  <2>1. view'.face = "box" /\ view'.text = Blank /\ view'.title = r.key
        /\ view'.lang = Rendering(r.ext) /\ view'.shown = data
    BY <1>4 DEF Showing
  <2>2. CASE upset
    BY <1>4, <2>1, <2>2 DEF AgreeInv
  <2>3. CASE ~upset
    <3>1. OnlyIn(ajax, s) /\ Belongs(r)
      BY <1>1, <2>3, AnsweredBelongs DEF r
    <3>2. r.mine /\ Address.key = r.key /\ Address.ext = r.ext
      BY <1>1, <3>1 DEF Belongs
    <3>3. Address' = Address
      BY <1>1 DEF Address, places
    <3>4. Agrees'
      BY <1>2, <2>1, <3>2, <3>3 DEF Agrees
    <3>5. \A q \in Slots : ajax'[q] = None
      BY <1>1, <3>1, LastAnswer
    <3> QED
      BY <2>1, <3>4, <3>5, AgreeQuiet
  <2> QED
    BY <2>2, <2>3
<1> QED
  BY <1>2, <1>3, <1>4

LEMMA AgreeNotLoaded ==
    ASSUME TypeOK, AgreeInv, NEW s \in Slots, NotLoaded(s)
    PROVE  AgreeInv'
<1>1. /\ ajax[s] # None /\ NewDocument(FALSE, Blank) /\ ajax' = Superseded(Settle(s))
      /\ UNCHANGED upset
  BY DEF NotLoaded
<1>2. Agrees' /\ view'.face = "area"
  BY <1>1, AgreeNewDocument
<1>3. CASE upset
  BY <1>1, <1>2, <1>3 DEF AgreeInv
<1>4. CASE ~upset
  <2>1. OnlyIn(ajax, s)
    BY <1>1, <1>4, AnsweredBelongs
  <2>2. \A q \in Slots : ajax'[q] = None
    BY <1>1, <2>1, LastAnswer
  <2> QED
    BY <1>2, <2>2, AgreeQuiet
<1> QED
  BY <1>3, <1>4

LEMMA AgreeSaved ==
    ASSUME TypeOK, AgreeInv, NEW s \in Slots, Saved(s)
    PROVE  AgreeInv'
<1> DEFINE r == ajax[s]
<1>1. PICK key \in Keys, lang \in Languages \cup {None} :
         /\ view' = Showing(key, lang, r.data)
         /\ Push([key |-> key, ext |-> IF lang = None THEN None ELSE LookupExtensionByType(lang)])
         /\ doc' = IF r.mine THEN [doc EXCEPT !.locked = TRUE, !.key = key] ELSE doc
  BY DEF Saved
<1>2. r # None /\ r.kind = "save" /\ ajax' = Settle(s) /\ UNCHANGED upset
  BY DEF Saved
<1> HIDE DEF r
<1> DEFINE ext == IF lang = None THEN None ELSE LookupExtensionByType(lang)
<1>3. view'.face = "box" /\ view'.text = Blank /\ view'.title = key
      /\ view'.lang = lang /\ view'.shown = r.data
  BY <1>1 DEF Showing
<1>4. ext \in Names \cup {None} /\ (ext # None => Rendering(ext) = lang)
  <2>1. CASE lang = None
    BY <2>1
  <2>2. CASE lang # None
    <3>1. lang \in Languages /\ lang \in Names
      BY <2>2, AppConstants
    <3> QED
      BY <2>2, <3>1, ExtensionIsName, LanguageComesBack
  <2> QED
    BY <2>1, <2>2
<1>5. Push([key |-> key, ext |-> ext])
  BY <1>1
<1> HIDE DEF ext
<1>6. Address' = [key |-> key, ext |-> ext]
  <2>1. [key |-> key, ext |-> ext] \in Addresses
    BY <1>4 DEF Addresses
  <2> QED
    BY <1>5, <2>1, PushGoes DEF TypeOK
<1>7. CASE upset
  BY <1>2, <1>3, <1>7 DEF AgreeInv
<1>8. CASE ~upset
  <2>1. OnlyIn(ajax, s) /\ Belongs(r)
    BY <1>2, <1>8, AnsweredBelongs DEF r
  <2>2. r.mine /\ doc = [locked |-> FALSE, key |-> None, data |-> r.data]
    BY <1>2, <2>1 DEF Belongs
  <2>3. doc' = [locked |-> TRUE, key |-> key, data |-> r.data]
    BY <1>1, <2>2
  <2>4. Agrees'
    BY <1>3, <1>4, <1>6, <2>3 DEF Agrees
  <2>5. \A q \in Slots : ajax'[q] = None
    BY <1>2, <2>1, LastAnswer
  <2> QED
    BY <1>3, <2>4, <2>5, AgreeQuiet
<1> QED
  BY <1>7, <1>8

LEMMA AgreeNotSaved ==
    ASSUME TypeOK, AgreeInv, NEW s \in Slots, NotSaved(s)
    PROVE  AgreeInv'
<1>1. /\ ajax[s] # None /\ ajax[s].kind = "save" /\ ajax' = Settle(s)
      /\ UNCHANGED <<places, doc, view, upset>>
  BY DEF NotSaved
<1>2. CASE upset
  BY <1>1, <1>2 DEF AgreeInv
<1>3. CASE ~upset
  <2>1. OnlyIn(ajax, s) /\ Belongs(ajax[s])
    BY <1>1, <1>3, AnsweredBelongs
  <2>2. view.face = "area" /\ ~doc.locked /\ doc.key = None /\ Address = Root
    BY <1>1, <2>1 DEF Belongs
  <2>3. Agrees' /\ view'.face = "area"
    BY <1>1, <2>2 DEF Agrees, Address, places
  <2>4. \A q \in Slots : ajax'[q] = None
    BY <1>1, <2>1, LastAnswer
  <2> QED
    BY <2>3, <2>4, AgreeQuiet
<1> QED
  BY <1>2, <1>3

LEMMA AgreeSame ==
    ASSUME AgreeInv, UNCHANGED <<places, doc, view, ajax, upset>>
    PROVE  AgreeInv'
<1>1. Address' = Address
  BY DEF Address, places
<1>2. Agrees' = Agrees /\ Busy' = Busy /\ \A r : Belongs(r)' = Belongs(r)
  BY <1>1 DEF Agrees, Busy, Belongs
<1> QED
  BY <1>2 DEF AgreeInv

\* Unless the user went on before an answer came, the page, the document behind
\* its buttons and the address agree once all is answered, whatever the page was
\* opened at, and however long the history and the session are.
THEOREM PageAndAddressAgree == Spec => []PageAgrees
<1>1. Init => AgreeInv
  <2>1. Init => FreshPage
    BY AppConstants DEF Init, FreshPage, Address
  <2> QED
    BY <2>1, AgreeFirst
<1>2. TypeOK /\ ShownUnderItsKey /\ AgreeInv /\ [Next]_vars => AgreeInv'
  <2> SUFFICES ASSUME TypeOK, ShownUnderItsKey, AgreeInv, [Next]_vars PROVE AgreeInv'
    OBVIOUS
  <2>1. CASE \E n \in 1..MaxHistory : Pop(n)
    BY <2>1, AgreePop
  <2>2. CASE \E text \in Texts : Type(text)
    BY <2>2, AgreeType
  <2>3. CASE Reload
    BY <2>3, AgreeReload
  <2>4. CASE Save \/ New \/ Duplicate
    BY <2>4, AgreeSave, AgreeNew
  <2>5. CASE \E s \in Slots : Answer(s)
    BY <2>5, AgreeLoaded, AgreeNotLoaded, AgreeSaved, AgreeNotSaved DEF Answer
  <2>6. CASE Listen \/ UNCHANGED vars
    <3>1. UNCHANGED <<places, doc, view, ajax, upset>>
      BY <2>6 DEF Listen, vars, places
    <3> QED
      BY <3>1, AgreeSame
  <2> QED
    BY <2>1, <2>2, <2>3, <2>4, <2>5, <2>6 DEF Next
<1> QED
  BY <1>1, <1>2, AgreeMeans, TypeInit, TypeStep, ShownInit, ShownStep, PTL DEF Spec
=============================================================================
