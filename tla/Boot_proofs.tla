----------------------------- MODULE Boot_proofs ---------------------------
(* Theorems about Boot: any configurations and changes of configuration, any *)
(* number of lives, any failures of the storage.                             *)
EXTENDS Boot, Induction, SequenceTheorems

-----------------------------------------------------------------------------
(* cfg.Documents: what the loop over the environment leaves. *)

Entry(variable) == [key |-> variable.key, path |-> Head(variable.path)]

\* s is the list after the first n variables: first the documents of the file,
\* then, in order, one for each variable that was accepted.
ListAfter(d, n, s) ==
    /\ Len(d.documents) <= Len(s)
    /\ \A i \in 1..Len(d.documents) : s[i] = d.documents[i]
    /\ \A b \in Len(d.documents) + 1..Len(s) :
          \E j \in 1..n : Accepted(d.variables[j]) /\ s[b] = Entry(d.variables[j])
    /\ \A i \in 1..n :
          Accepted(d.variables[i]) =>
              \E a \in 1..Len(s) :
                 /\ s[a] = Entry(d.variables[i])
                 /\ \A b \in a + 1..Len(s) :
                       \E j \in i + 1..n : Accepted(d.variables[j]) /\ s[b] = Entry(d.variables[j])

LEMMA ListGrows ==
    ASSUME NEW d, NEW Doc, NEW s \in Seq(Doc), NEW n \in Nat, Len(d.documents) \in Nat,
           ListAfter(d, n, s), Accepted(d.variables[n + 1]), Entry(d.variables[n + 1]) \in Doc
    PROVE  ListAfter(d, n + 1, Append(s, Entry(d.variables[n + 1])))
<1> DEFINE e == Entry(d.variables[n + 1])
           t == Append(s, e)
<1>1. Len(t) = Len(s) + 1 /\ t[Len(s) + 1] = e /\ Len(s) \in Nat
      /\ \A i \in 1..Len(s) : t[i] = s[i]
  BY AppendProperties
<1>a. Len(t) = Len(s) + 1 /\ Len(s) \in Nat /\ n \in Nat /\ Len(d.documents) \in Nat
  BY <1>1
<1> HIDE DEF t, e
<1>2. Len(d.documents) <= Len(t) /\ \A i \in 1..Len(d.documents) : t[i] = d.documents[i]
  BY <1>1 DEF ListAfter
<1>3. ASSUME NEW b \in Len(d.documents) + 1..Len(t)
      PROVE  \E j \in 1..n + 1 : Accepted(d.variables[j]) /\ t[b] = Entry(d.variables[j])
  <2>1. CASE b = Len(s) + 1
    BY <1>1, <2>1 DEF e
  <2>2. CASE b \in 1..Len(s)
    <3>1. b \in Len(d.documents) + 1..Len(s)
      BY <1>3, <2>2
    <3>2. PICK j \in 1..n : Accepted(d.variables[j]) /\ s[b] = Entry(d.variables[j])
      BY <3>1 DEF ListAfter
    <3> QED
      BY <1>1, <2>2, <3>2
  <2>3. b = Len(s) + 1 \/ b \in 1..Len(s)
    BY <1>a
  <2> QED
    BY <2>1, <2>2, <2>3
<1>4. ASSUME NEW i \in 1..n + 1, Accepted(d.variables[i])
      PROVE  \E a \in 1..Len(t) :
                 /\ t[a] = Entry(d.variables[i])
                 /\ \A b \in a + 1..Len(t) :
                       \E j \in i + 1..n + 1 : Accepted(d.variables[j]) /\ t[b] = Entry(d.variables[j])
  <2>1. CASE i = n + 1
    BY <1>1, <2>1 DEF e
  <2>2. CASE i \in 1..n
    <3>1. PICK a \in 1..Len(s) :
                 /\ s[a] = Entry(d.variables[i])
                 /\ \A b \in a + 1..Len(s) :
                       \E j \in i + 1..n : Accepted(d.variables[j]) /\ s[b] = Entry(d.variables[j])
      BY <1>4, <2>2 DEF ListAfter
    <3>2. ASSUME NEW b \in a + 1..Len(t)
          PROVE  \E j \in i + 1..n + 1 : Accepted(d.variables[j]) /\ t[b] = Entry(d.variables[j])
      <4>1. CASE b = Len(s) + 1
        BY <1>1, <2>2, <4>1 DEF e
      <4>2. CASE b \in a + 1..Len(s)
        <5>1. PICK j \in i + 1..n : Accepted(d.variables[j]) /\ s[b] = Entry(d.variables[j])
          BY <3>1, <4>2
        <5>2. t[b] = s[b] /\ j \in i + 1..n + 1
          BY <1>1, <4>2
        <5> QED
          BY <5>1, <5>2
      <4>3. b = Len(s) + 1 \/ b \in a + 1..Len(s)
        BY <1>a
      <4> QED
        BY <4>1, <4>2, <4>3
    <3>3. a \in 1..Len(t) /\ t[a] = Entry(d.variables[i])
      BY <1>1, <3>1
    <3> QED
      BY <3>2, <3>3
  <2>3. i = n + 1 \/ i \in 1..n
    BY <1>a
  <2> QED
    BY <2>1, <2>2, <2>3
<1> QED
  BY <1>2, <1>3, <1>4 DEF ListAfter, t, e

\* One more variable, accepted or not.
NextList(d, n, s) ==
    IF Accepted(d.variables[n]) THEN Append(s, Entry(d.variables[n])) ELSE s

LEMMA ListGoesOn ==
    ASSUME NEW d, NEW Doc, NEW s \in Seq(Doc), NEW n \in Nat, Len(d.documents) \in Nat,
           ListAfter(d, n, s), Accepted(d.variables[n + 1]) => Entry(d.variables[n + 1]) \in Doc
    PROVE  NextList(d, n + 1, s) \in Seq(Doc) /\ ListAfter(d, n + 1, NextList(d, n + 1, s))
<1>1. CASE Accepted(d.variables[n + 1])
  <2> DEFINE e == Entry(d.variables[n + 1])
  <2>1. e \in Doc
    BY <1>1
  <2>2. ListAfter(d, n + 1, Append(s, e))
    BY <1>1, <2>1, ListGrows
  <2>3. NextList(d, n + 1, s) = Append(s, e)
    BY <1>1 DEF NextList
  <2> HIDE DEF e
  <2>4. Append(s, e) \in Seq(Doc)
    BY <2>1
  <2> QED
    BY <2>2, <2>3, <2>4
<1>2. CASE ~Accepted(d.variables[n + 1])
  <2>1. ListAfter(d, n + 1, s)
    <3>1. \A i \in 1..n + 1 : Accepted(d.variables[i]) => i \in 1..n
      BY <1>2
    <3> QED
      BY <3>1 DEF ListAfter
  <2> QED
    BY <1>2, <2>1 DEF NextList
<1> QED
  BY <1>1, <1>2

\* What the loop does in its n-th round.
Round(d, f, n) == IF n = 0 THEN d.documents ELSE NextList(d, n, f[n - 1])
Rounds(d, f, n) == f = [i \in 0..n |-> Round(d, f, i)]

LEMMA RoundsExist ==
    ASSUME NEW d, NEW n \in Nat
    PROVE  \E f : Rounds(d, f, n)
<1> DEFINE S == {m \in Nat : \E f : Rounds(d, f, m)}
<1>1. 0 \in S
  <2> DEFINE f == [i \in 0..0 |-> d.documents]
  <2>1. \A i \in 0..0 : Round(d, f, i) = d.documents
    BY DEF Round
  <2>2. Rounds(d, f, 0)
    BY <2>1 DEF Rounds
  <2> QED
    BY <2>2
<1>2. ASSUME NEW m \in Nat, m \in S PROVE m + 1 \in S
  <2>1. PICK f : Rounds(d, f, m)
    BY <1>2
  <2> DEFINE g == [i \in 0..m + 1 |-> IF i <= m THEN f[i] ELSE NextList(d, m + 1, f[m])]
  <2>2. ASSUME NEW i \in 0..m + 1 PROVE g[i] = Round(d, g, i)
    <3>1. CASE i = 0
      <4>1. f[0] = Round(d, f, 0)
        BY <2>1 DEF Rounds
      <4> QED
        BY <3>1, <4>1 DEF Round
    <3>2. CASE i \in 1..m
      <4>1. f[i] = Round(d, f, i)
        BY <2>1, <3>2 DEF Rounds
      <4>2. g[i] = f[i] /\ g[i - 1] = f[i - 1]
        BY <3>2
      <4> QED
        BY <3>2, <4>1, <4>2 DEF Round
    <3>3. CASE i = m + 1
      <4>1. g[i] = NextList(d, m + 1, f[m]) /\ g[i - 1] = f[m]
        BY <3>3
      <4> QED
        BY <3>3, <4>1 DEF Round
    <3> QED
      BY <3>1, <3>2, <3>3
  <2>3. g = [i \in 0..m + 1 |-> g[i]]
    OBVIOUS
  <2>4. Rounds(d, g, m + 1)
    <3> HIDE DEF g
    <3> QED
      BY <2>2, <2>3 DEF Rounds
  <2> QED
    BY <2>4
<1> HIDE DEF S
<1>3. Nat \subseteq S
  BY <1>1, <1>2, AllNumbers
<1> QED
  BY <1>3 DEF S

LEMMA DocumentsAre ==
    ASSUME NEW d, NEW Doc, d.documents \in Seq(Doc), Len(d.variables) \in Nat,
           \A i \in 1..Len(d.variables) :
              Accepted(d.variables[i]) => Entry(d.variables[i]) \in Doc
    PROVE  Documents(d) \in Seq(Doc) /\ ListAfter(d, Len(d.variables), Documents(d))
<1> DEFINE N == Len(d.variables)
           after == CHOOSE f : Rounds(d, f, N)
<1>1. Documents(d) = after[N]
  BY DEF Documents, Rounds, Round, NextList, Entry
<1>2. Rounds(d, after, N)
  BY RoundsExist
<1> HIDE DEF after
<1> DEFINE S == {n \in Nat : n <= N => after[n] \in Seq(Doc) /\ ListAfter(d, n, after[n])}
<1>3. 0 \in S
  <2>1. after[0] = d.documents
    BY <1>2 DEF Rounds, Round
  <2>2. Len(d.documents) \in Nat
    OBVIOUS
  <2>3. ListAfter(d, 0, d.documents)
    BY <2>2 DEF ListAfter
  <2> QED
    BY <2>1, <2>3
<1>4. ASSUME NEW n \in Nat, n \in S PROVE n + 1 \in S
  <2> SUFFICES ASSUME n + 1 <= N
               PROVE  after[n + 1] \in Seq(Doc) /\ ListAfter(d, n + 1, after[n + 1])
    OBVIOUS
  <2>1. after[n + 1] = NextList(d, n + 1, after[n])
    BY <1>2 DEF Rounds, Round
  <2>2. after[n] \in Seq(Doc) /\ ListAfter(d, n, after[n])
    BY <1>4
  <2>3. Accepted(d.variables[n + 1]) => Entry(d.variables[n + 1]) \in Doc
    OBVIOUS
  <2>4. Len(d.documents) \in Nat
    OBVIOUS
  <2> QED
    BY <2>1, <2>2, <2>3, <2>4, ListGoesOn
<1> HIDE DEF S
<1>5. N \in S
  BY <1>3, <1>4, AllNumbers
<1> QED
  BY <1>1, <1>5 DEF S

-----------------------------------------------------------------------------
(* The type invariant. *)

DocOf(d) == [key : Keys, path : DOMAIN d.content]
VariableOf(d) == [key : Keys, path : Seq(DOMAIN d.content)]

\* What a deployment stores is of documents that it describes.
LEMMA DocsOf ==
    ASSUME NEW d \in Deployments
    PROVE  /\ Documents(d) \in Seq(DocOf(d))
           /\ Len(Documents(d)) \in Nat
           /\ ListAfter(d, Len(d.variables), Documents(d))
<1>1. Described(d)
  BY BootConstants
<1>2. d.documents \in Seq(DocOf(d)) /\ d.variables \in Seq(VariableOf(d))
  BY <1>1 DEF Described, DocOf, VariableOf
<1>3. Len(d.variables) \in Nat
  BY <1>2, LenProperties
<1>4. ASSUME NEW i \in 1..Len(d.variables), Accepted(d.variables[i])
      PROVE  Entry(d.variables[i]) \in DocOf(d)
  <2>1. d.variables[i] \in VariableOf(d)
    BY <1>2, ElementOfSeq
  <2>2. d.variables[i].key \in Keys /\ d.variables[i].path \in Seq(DOMAIN d.content)
    BY <2>1 DEF VariableOf
  <2>3. Head(d.variables[i].path) \in DOMAIN d.content
    BY <1>4, <2>2 DEF Accepted
  <2> QED
    BY <2>2, <2>3 DEF Entry, DocOf
<1>5. Documents(d) \in Seq(DocOf(d)) /\ ListAfter(d, Len(d.variables), Documents(d))
  BY <1>2, <1>3, <1>4, DocumentsAre
<1> QED
  BY <1>5

LEMMA DocIs ==
    ASSUME NEW d \in Deployments, NEW i \in 1..Len(Documents(d))
    PROVE  Documents(d)[i].key \in Keys /\ d.content[Documents(d)[i].path] \in Contents
<1>1. Documents(d)[i] \in DocOf(d)
  <2> HIDE DEF Documents
  <2> QED
    BY DocsOf
<1> DEFINE doc == Documents(d)[i]
<1> HIDE DEF doc
<1>2. doc \in DocOf(d)
  BY <1>1 DEF doc
<1>3. doc.key \in Keys /\ doc.path \in DOMAIN d.content
  BY <1>2 DEF DocOf
<1>4. d.content[doc.path] \in Contents
  BY <1>3 DEF Contents
<1> QED
  BY <1>3, <1>4 DEF doc

LEMMA PlaceIs ==
    ASSUME asked \in Deployments
    PROVE  place \in Places /\ place[1] = type
BY DEF place, Places, PlaceOf, cfg, type

Empty == [p \in Places |-> [k \in Keys |-> None]]

LEMMA TypeInit == Init => TypeOK
<1> SUFFICES ASSUME Init PROVE TypeOK
  OBVIOUS
<1>1. deployment \in Deployments /\ asked \in Deployments /\ asked = deployment
  BY DEF Init
<1>2. loaded \in 0..Len(docs)
  <2>1. Len(docs) \in Nat
    BY <1>1, DocsOf DEF docs
  <2> QED
    BY <2>1 DEF Init
<1>3. rows = Empty /\ owed = Empty
  BY DEF Init, Empty
<1>4. rows \in [Places -> [Keys -> RowType \cup {None}]]
      /\ owed \in [Places -> [Keys -> Pastes \cup {None}]]
      /\ \A p \in Places, k \in Keys : rows[p][k] = None
  <2> HIDE DEF Init
  <2> QED
    BY <1>3 DEF Empty
<1>5. phase = "down" /\ ~Running
  BY DEF Init, Running
<1>6. made \subseteq Places /\ up \in BOOLEAN /\ strict \in BOOLEAN /\ settled \in BOOLEAN
      /\ posted \subseteq Keys /\ gone \subseteq Keys
  BY DEF Init
<1>7. changes \in 0..MaxChanges
  BY BootConstants DEF Init
<1> HIDE DEF Init
<1> QED
  BY <1>1, <1>2, <1>4, <1>5, <1>6, <1>7 DEF TypeOK

\* A row is written, its lifetime as its type gives it.
Immortal(p, r) == \A k \in Keys : r[p][k] # None /\ p[1] \notin Lossy => ~r[p][k].mortal

LEMMA PutIsTyped ==
    ASSUME TypeOK, NEW k \in Keys, NEW val \in Contents, Put(k, val, FALSE)
    PROVE  /\ rows' \in [Places -> [Keys -> RowType \cup {None}]]
           /\ \A p \in Places : Immortal(p, rows')
<1>1. place \in Places /\ place[1] = type
  BY PlaceIs DEF TypeOK
<1> DEFINE row == [val |-> val, mortal |-> ~FALSE /\ type \in Lossy]
<1>2. row \in RowType /\ (type \notin Lossy => ~row.mortal)
  BY DEF RowType
<1>3. rows' = [rows EXCEPT ![place][k] = row]
  BY DEF Put
<1> HIDE DEF row
<1>4. rows' \in [Places -> [Keys -> RowType \cup {None}]]
  BY <1>1, <1>2, <1>3 DEF TypeOK
<1>5. ASSUME NEW p \in Places PROVE Immortal(p, rows')
  <2>1. Immortal(p, rows)
    BY DEF TypeOK, Immortal
  <2>2. rows \in [Places -> [Keys -> RowType \cup {None}]]
    BY DEF TypeOK
  <2> HIDE DEF TypeOK
  <2> SUFFICES ASSUME NEW l \in Keys, rows'[p][l] # None, p[1] \notin Lossy
               PROVE  ~rows'[p][l].mortal
    BY DEF Immortal
  <2>3. CASE p = place /\ l = k
    BY <1>1, <1>2, <1>3, <2>2, <2>3
  <2>4. CASE p # place \/ l # k
    <3>1. rows'[p][l] = rows[p][l]
      BY <1>1, <1>3, <2>2, <2>4
    <3> QED
      BY <3>1, <2>1 DEF Immortal
  <2> QED
    BY <2>3, <2>4
<1> QED
  BY <1>4, <1>5

\* What TypeOK says besides the rows.
RestOK ==
    /\ deployment \in Deployments /\ asked \in Deployments
    /\ phase \in {"down", "fatal", "constructing", "indexing", "loading", "serving"}
    /\ loaded \in 0..Len(docs)
    /\ made \subseteq Places
    /\ up \in BOOLEAN /\ strict \in BOOLEAN /\ settled \in BOOLEAN
    /\ posted \subseteq Keys /\ gone \subseteq Keys
    /\ owed \in [Places -> [Keys -> Pastes \cup {None}]]
    /\ changes \in 0..MaxChanges
    /\ Running => ~Rejected(asked)
RowsOK ==
    /\ rows \in [Places -> [Keys -> RowType \cup {None}]]
    /\ \A p \in Places : Immortal(p, rows)

LEMMA TypeParts == TypeOK <=> RestOK /\ RowsOK
BY DEF TypeOK, RestOK, RowsOK, Immortal

LEMMA TypeStart == TypeOK /\ Start => TypeOK'
<1> SUFFICES ASSUME TypeOK, Start PROVE TypeOK'
  OBVIOUS
<1>1. asked' = deployment /\ deployment \in Deployments /\ asked' \in Deployments
  BY DEF Start, TypeOK
<1>2. (loaded \in 0..Len(docs))'
  <2>1. Len(Documents(asked')) \in Nat
    BY <1>1, DocsOf
  <2> QED
    BY <2>1 DEF Start, docs
<1>3. (Running => ~Rejected(asked))'
  BY <1>1 DEF Start, Running
<1>4. phase' \in {"fatal", "constructing"} /\ posted' = {} /\ gone' = {}
      /\ UNCHANGED <<rows, made, owed, deployment, up, strict, changes, settled>>
  BY DEF Start, world, operator
<1>5. RestOK /\ RowsOK
  BY TypeParts
<1>6. RowsOK'
  BY <1>4, <1>5 DEF RowsOK, Immortal
<1>7. RestOK'
  BY <1>1, <1>2, <1>3, <1>4, <1>5 DEF RestOK
<1> QED
  BY <1>6, <1>7, TypeParts DEF TypeOK, RestOK, RowsOK, Immortal

LEMMA LoadedDoc ==
    ASSUME TypeOK, loaded < Len(docs)
    PROVE  /\ docs[loaded + 1].key \in Keys /\ Content(docs[loaded + 1]) \in Contents
           /\ loaded + 1 \in 1..Len(docs)
<1>1. asked \in Deployments /\ loaded \in 0..Len(docs)
  BY DEF TypeOK
<1>2. Len(docs) \in Nat
  BY <1>1, DocsOf DEF docs
<1>3. loaded + 1 \in 1..Len(docs)
  BY <1>1, <1>2
<1> QED
  BY <1>1, <1>3, DocIs DEF docs, Content

\* What a configuration asks for changes only when a life begins.
LEMMA SameLife ==
    UNCHANGED asked => UNCHANGED <<docs, place, type, cfg>>
BY DEF docs, place, type, cfg

LEMMA TypeHandleConfig == TypeOK /\ HandleConfig => TypeOK'
<1> SUFFICES ASSUME TypeOK, HandleConfig PROVE TypeOK'
  OBVIOUS
<1>1. RestOK /\ RowsOK
  BY TypeParts
<1>2. asked' = asked /\ UNCHANGED <<docs, place, type>>
  <2>1. asked' = asked
    BY DEF HandleConfig, Construct, CreateIndexes, LoadDocument, Loads, Serve, Fatal
  <2> QED
    BY <2>1, SameLife
<1>3. place \in Places /\ place[1] = type
  BY <1>1, PlaceIs DEF RestOK
<1>4. CASE Construct \/ CreateIndexes \/ Serve \/ Fatal
  <2>1. /\ UNCHANGED <<loaded, rows, owed, posted, gone, deployment, up, strict, changes, settled>>
        /\ made' \subseteq made \cup {place}
    BY <1>4 DEF Construct, Ensured, CreateIndexes, Serve, Fatal, world, operator
  <2>2. RowsOK'
    BY <1>1, <2>1 DEF RowsOK, Immortal
  <2>3. phase' \in {"fatal", "indexing", "loading", "serving"} /\ Running
    BY <1>4 DEF Construct, CreateIndexes, Serve, Fatal, Running
  <2>4. RestOK'
    BY <1>1, <1>2, <1>3, <2>1, <2>3 DEF RestOK, Running
  <2> QED
    BY <2>2, <2>4 DEF TypeOK, RestOK, RowsOK, Immortal
<1>5. CASE LoadDocument
  <2> DEFINE doc == docs[loaded + 1]
  <2>1. /\ phase = "loading" /\ loaded < Len(docs)
        /\ Put(doc.key, Content(doc), FALSE)
        /\ loaded' = loaded + 1
        /\ owed' = [owed EXCEPT ![place][doc.key] = None]
        /\ gone' = gone \ {doc.key}
        /\ UNCHANGED <<phase, made, posted, deployment, up, strict, changes, settled>>
    BY <1>5 DEF LoadDocument, Loads, operator
  <2>2. doc.key \in Keys /\ Content(doc) \in Contents /\ loaded + 1 \in 1..Len(docs)
    BY <2>1, LoadedDoc
  <2> HIDE DEF doc
  <2>3. RowsOK'
    BY <2>1, <2>2, PutIsTyped DEF RowsOK
  <2>4. owed' \in [Places -> [Keys -> Pastes \cup {None}]]
    BY <1>1, <1>3, <2>1, <2>2 DEF RestOK
  <2>5. loaded' \in 0..Len(docs')
    BY <1>1, <1>2, <2>1, <2>2 DEF RestOK
  <2>6. RestOK'
    BY <1>1, <1>2, <2>1, <2>4, <2>5 DEF RestOK, Running
  <2> QED
    BY <2>3, <2>6 DEF TypeOK, RestOK, RowsOK, Immortal
<1> QED
  BY <1>4, <1>5 DEF HandleConfig

LEMMA TypePost ==
    ASSUME TypeOK, NEW k \in Keys, NEW val \in Pastes, Post(k, val)
    PROVE  TypeOK'
<1>1. RestOK /\ RowsOK
  BY TypeParts
<1>2. /\ phase = "serving" /\ Put(k, val, FALSE) /\ posted' = posted \cup {k}
      /\ owed' = [owed EXCEPT ![place][k] = val]
      /\ UNCHANGED <<asked, phase, loaded, made, gone, deployment, up, strict, changes, settled>>
  BY DEF Post, operator
<1>3. UNCHANGED <<docs, place, type>> /\ place \in Places
  BY <1>1, <1>2, SameLife, PlaceIs DEF RestOK
<1>4. val \in Contents
  BY DEF Contents
<1>5. RowsOK'
  BY <1>2, <1>4, PutIsTyped DEF RowsOK
<1>6. owed' \in [Places -> [Keys -> Pastes \cup {None}]]
  BY <1>1, <1>2, <1>3 DEF RestOK
<1>7. RestOK'
  BY <1>1, <1>2, <1>3, <1>6 DEF RestOK, Running
<1> QED
  BY <1>5, <1>7 DEF TypeOK, RestOK, RowsOK, Immortal

LEMMA TypeLose ==
    ASSUME TypeOK, NEW p \in Places, NEW k \in Keys, Lose(p, k)
    PROVE  TypeOK'
<1>1. RestOK /\ RowsOK
  BY TypeParts
<1>2. /\ rows' = [rows EXCEPT ![p][k] = None] /\ owed' = [owed EXCEPT ![p][k] = None]
      /\ gone' \subseteq gone \cup {k}
      /\ UNCHANGED <<asked, phase, loaded, made, posted, deployment, up, strict, changes, settled>>
  BY DEF Lose, operator
<1>3. UNCHANGED <<docs, place, type>>
  BY <1>2, SameLife
<1>4. rows' \in [Places -> [Keys -> RowType \cup {None}]]
  BY <1>1, <1>2 DEF RowsOK
<1>5. ASSUME NEW q \in Places, NEW l \in Keys, rows'[q][l] # None, q[1] \notin Lossy
      PROVE  ~rows'[q][l].mortal
  <2>1. rows'[q][l] = rows[q][l]
    BY <1>1, <1>2, <1>5 DEF RowsOK
  <2> QED
    BY <1>1, <1>5, <2>1 DEF RowsOK, Immortal
<1>6. RowsOK'
  BY <1>4, <1>5 DEF RowsOK, Immortal
<1>7. owed' \in [Places -> [Keys -> Pastes \cup {None}]]
  BY <1>1, <1>2 DEF RestOK
<1>8. RestOK'
  BY <1>1, <1>2, <1>3, <1>7 DEF RestOK, Running
<1> QED
  BY <1>6, <1>8 DEF TypeOK, RestOK, RowsOK, Immortal

\* What the operator does, and a process that ends, leave the storage alone.
Outside == Stop \/ (\E d \in Deployments : Change(d)) \/ ComeOrGo \/ Settle

LEMMA OutsideDoes ==
    ASSUME Outside
    PROVE  UNCHANGED <<asked, loaded, rows, made, owed, posted, gone, docs, place, type, cfg>>
<1>1. UNCHANGED <<asked, loaded, rows, made, owed, posted, gone>>
  BY DEF Outside, Stop, Change, ComeOrGo, Settle, world
<1> QED
  BY <1>1, SameLife

LEMMA TypeOutside == TypeOK /\ Outside => TypeOK'
<1> SUFFICES ASSUME TypeOK, Outside PROVE TypeOK'
  OBVIOUS
<1>1. RestOK /\ RowsOK
  BY TypeParts
<1>2. UNCHANGED <<asked, loaded, rows, made, owed, posted, gone, docs, place, type>>
  BY OutsideDoes
<1>3. RowsOK'
  BY <1>1, <1>2 DEF RowsOK, Immortal
<1>4. /\ deployment' \in Deployments /\ up' \in BOOLEAN /\ strict' \in BOOLEAN
      /\ settled' \in BOOLEAN /\ changes' \in 0..MaxChanges
      /\ phase' = phase \/ phase' = "down"
  <2>1. CASE Stop \/ ComeOrGo \/ Settle
    BY <1>1, <2>1 DEF Stop, ComeOrGo, Settle, operator, RestOK
  <2>2. CASE \E d \in Deployments : Change(d)
    <3>1. PICK d \in Deployments : Change(d)
      BY <2>2
    <3>2. deployment' = d /\ changes' = changes + 1 /\ changes < MaxChanges
          /\ UNCHANGED <<phase, up, strict, settled>>
      BY <3>1 DEF Change
    <3>3. changes' \in 0..MaxChanges
      BY <1>1, <3>2, BootConstants DEF RestOK
    <3> QED
      BY <1>1, <3>2, <3>3 DEF RestOK
  <2> QED
    BY <2>1, <2>2 DEF Outside
<1>5. RestOK'
  BY <1>1, <1>2, <1>4 DEF RestOK, Running
<1> QED
  BY <1>3, <1>5 DEF TypeOK, RestOK, RowsOK, Immortal

LEMMA TypeSame == TypeOK /\ UNCHANGED vars => TypeOK'
<1> SUFFICES ASSUME TypeOK, UNCHANGED vars PROVE TypeOK'
  OBVIOUS
<1>1. RestOK /\ RowsOK
  BY TypeParts
<1>2. UNCHANGED <<deployment, asked, phase, loaded, rows, made, up, strict, posted,
                  gone, owed, changes, settled, docs, place, type>>
  BY SameLife DEF vars
<1> QED
  BY <1>1, <1>2 DEF TypeOK, RestOK, RowsOK, Immortal, Running

LEMMA StepIs ==
    ASSUME [Next]_vars
    PROVE  \/ Start \/ HandleConfig \/ Outside \/ UNCHANGED vars
           \/ \E k \in Keys, val \in Pastes : Post(k, val)
           \/ \E p \in Places, k \in Keys : Lose(p, k)
BY DEF Next, Outside

\* Boot's variables keep their types, a life that has begun has a configuration,
\* and only the storage types that lose rows hold mortal ones: of any number of
\* lives, under any configurations that Described allows.
THEOREM BootTyping == Spec => []TypeOK
<1>1. TypeOK /\ [Next]_vars => TypeOK'
  BY StepIs, TypeStart, TypeHandleConfig, TypeOutside, TypeSame, TypePost, TypeLose
<1> QED
  BY TypeInit, <1>1, PTL DEF Spec

-----------------------------------------------------------------------------
(* Pastes outlive the process. *)

Kept(p, k) == owed[p][k] # None => rows[p][k] # None /\ rows[p][k].val = owed[p][k]

LEMMA KeptPost ==
    ASSUME TypeOK, PastesOutliveRestarts,
           NEW k \in Keys, NEW val \in Pastes, Post(k, val)
    PROVE  PastesOutliveRestarts'
<1> DEFINE row == [val |-> val, mortal |-> ~FALSE /\ type \in Lossy]
<1>1. place \in Places
  BY PlaceIs DEF TypeOK
<1>2. row \in RowType /\ row.val = val
  BY DEF RowType, Contents
<1>3. row # None /\ val # None
  BY <1>2, BootConstants
<1>4. /\ rows' = [rows EXCEPT ![place][k] = row]
      /\ owed' = [owed EXCEPT ![place][k] = val]
  BY DEF Post, Put
<1>5. /\ rows \in [Places -> [Keys -> RowType \cup {None}]]
      /\ owed \in [Places -> [Keys -> Pastes \cup {None}]]
  BY DEF TypeOK
<1> HIDE DEF row
<1> SUFFICES ASSUME NEW p \in Places, NEW l \in Keys PROVE Kept(p, l)'
  BY DEF PastesOutliveRestarts, Kept
<1>6. CASE p = place /\ l = k
  BY <1>1, <1>2, <1>3, <1>4, <1>5, <1>6 DEF Kept
<1>7. CASE p # place \/ l # k
  <2>1. rows'[p][l] = rows[p][l] /\ owed'[p][l] = owed[p][l]
    BY <1>1, <1>4, <1>5, <1>7
  <2> QED
    BY <2>1 DEF Kept, PastesOutliveRestarts
<1> QED
  BY <1>6, <1>7

\* A document or a loss takes what is owed with it.
LEMMA KeptOtherwise ==
    ASSUME TypeOK, PastesOutliveRestarts, NEW q \in Places, NEW k \in Keys, NEW row,
           rows' = [rows EXCEPT ![q][k] = row], owed' = [owed EXCEPT ![q][k] = None]
    PROVE  PastesOutliveRestarts'
<1>1. /\ rows \in [Places -> [Keys -> RowType \cup {None}]]
      /\ owed \in [Places -> [Keys -> Pastes \cup {None}]]
  BY DEF TypeOK
<1> SUFFICES ASSUME NEW p \in Places, NEW l \in Keys PROVE Kept(p, l)'
  BY DEF PastesOutliveRestarts, Kept
<1>2. CASE p = q /\ l = k
  BY <1>1, <1>2 DEF Kept
<1>3. CASE p # q \/ l # k
  <2>1. rows'[p][l] = rows[p][l] /\ owed'[p][l] = owed[p][l]
    BY <1>1, <1>3
  <2> QED
    BY <2>1 DEF Kept, PastesOutliveRestarts
<1> QED
  BY <1>2, <1>3

LEMMA KeptUnchanged ==
    PastesOutliveRestarts /\ UNCHANGED <<rows, owed>> => PastesOutliveRestarts'
BY DEF PastesOutliveRestarts

\* A paste that has been stored outlives the process: whatever the following
\* lives create, fail at or load, it is there until it expires, or another paste
\* or a document is stored under its key.
THEOREM PastesOutlive == Spec => []PastesOutliveRestarts
<1>1. Init => PastesOutliveRestarts
  BY DEF Init, PastesOutliveRestarts
<1>2. TypeOK /\ PastesOutliveRestarts /\ [Next]_vars => PastesOutliveRestarts'
  <2> SUFFICES ASSUME TypeOK, PastesOutliveRestarts, [Next]_vars
               PROVE  PastesOutliveRestarts'
    OBVIOUS
  <2>1. CASE Start \/ Construct \/ CreateIndexes \/ Serve \/ Fatal \/ Outside \/ UNCHANGED vars
    <3>1. UNCHANGED <<rows, owed>>
      BY <2>1, OutsideDoes DEF Start, Construct, CreateIndexes, Serve, Fatal, world, vars
    <3> QED
      BY <3>1, KeptUnchanged
  <2>2. CASE LoadDocument
    <3>1. place \in Places /\ loaded < Len(docs)
      BY <2>2, PlaceIs DEF LoadDocument, Loads, TypeOK
    <3>2. docs[loaded + 1].key \in Keys
      BY <3>1, LoadedDoc
    <3>3. /\ \E row : rows' = [rows EXCEPT ![place][docs[loaded + 1].key] = row]
          /\ owed' = [owed EXCEPT ![place][docs[loaded + 1].key] = None]
      BY <2>2 DEF LoadDocument, Loads, Put
    <3> QED
      BY <3>1, <3>2, <3>3, KeptOtherwise
  <2>3. CASE \E k \in Keys, val \in Pastes : Post(k, val)
    BY <2>3, KeptPost
  <2>4. CASE \E p \in Places, k \in Keys : Lose(p, k)
    <3>1. PICK p \in Places, k \in Keys : Lose(p, k)
      BY <2>4
    <3>2. /\ rows' = [rows EXCEPT ![p][k] = None]
          /\ owed' = [owed EXCEPT ![p][k] = None]
      BY <3>1 DEF Lose
    <3> QED
      BY <3>2, KeptOtherwise
  <2> QED
    BY <2>1, <2>2, <2>3, <2>4, StepIs DEF HandleConfig
<1> QED
  BY <1>1, <1>2, BootTyping, PTL DEF Spec

-----------------------------------------------------------------------------
(* Nobody is given the empty key. *)

LEMMA AskedLengthIs ==
    ASSUME asked \in Deployments, ~Rejected(asked)
    PROVE  /\ Read(asked).key_length \in Int
           /\ cfg.key_length \in Int
           /\ cfg.key_length <= 0 => Read(asked).key_length < 0
<1>1. "key_length" \in Numbers /\ "key_length" \in Settings
  BY DEF Numbers, Settings, EnvSettings
<1>2. Described(asked)
  BY BootConstants
<1>3. /\ "key_length" \in DOMAIN asked.env => asked.env["key_length"] \in Int \cup {Bad}
      /\ "key_length" \in DOMAIN asked.file => asked.file["key_length"] \in Int
  BY <1>1, <1>2 DEF Described
<1>4. "key_length" \in DOMAIN asked.env => asked.env["key_length"] # Bad
  BY <1>1 DEF Rejected
<1>5. Zero("key_length") = 0
  <2>1. "key_length" \notin Flags /\ "key_length" \notin Texts
    BY DEF Flags, Texts
  <2> QED
    BY <1>1, <2>1 DEF Zero
<1>6. Read(asked)["key_length"] \in Int
  BY <1>1, <1>3, <1>4, <1>5 DEF Read
<1>7. "key_length" \in DOMAIN Default /\ Default["key_length"] = DefaultKeyLength
  BY DEF Default
<1>8. cfg["key_length"] = IF Read(asked)["key_length"] = 0 THEN DefaultKeyLength
                          ELSE Read(asked)["key_length"]
  BY <1>1, <1>5, <1>7 DEF cfg, NewConfig, WithDefaults
<1>9. Read(asked).key_length = Read(asked)["key_length"]
      /\ cfg.key_length = cfg["key_length"]
  OBVIOUS
<1> QED
  BY <1>6, <1>8, <1>9, ConfigConstants

LEMMA EmptyKeyIs ==
    ASSUME NEW generator, NEW space, NEW n \in Int,
           <<>> \in GeneratedKeys(generator, space, n)
    PROVE  n <= 0
<1>1. \E S : <<>> \in [1..n -> S]
  BY DEF GeneratedKeys, RandomKeys, PhoneticKeys, Positions
<1>2. 1..n = {}
  BY <1>1
<1> QED
  BY <1>2

\* Nobody is given the empty key, under which all pastes would be one, unless
\* the length asked for is negative: an explicit 0, in the file or in the
\* environment, is replaced by the default (config.go:305).
THEOREM NoEmptyKeys == Spec => []KeysAreNotEmpty
<1>1. Init => KeysAreNotEmpty
  BY DEF Init, KeysAreNotEmpty
<1>2. TypeOK /\ KeysAreNotEmpty /\ [Next]_vars => KeysAreNotEmpty'
  <2> SUFFICES ASSUME TypeOK, KeysAreNotEmpty, [Next]_vars
               PROVE  KeysAreNotEmpty'
    OBVIOUS
  <2>1. CASE Start
    BY <2>1 DEF Start, KeysAreNotEmpty
  <2>2. CASE HandleConfig \/ Outside \/ UNCHANGED vars \/ \E p \in Places, k \in Keys : Lose(p, k)
    <3>1. UNCHANGED <<asked, posted>>
      BY <2>2, OutsideDoes DEF HandleConfig, Construct, CreateIndexes, LoadDocument, Loads, Serve,
                               Fatal, Lose, vars
    <3> QED
      BY <3>1 DEF KeysAreNotEmpty
  <2>3. CASE \E k \in Keys, val \in Pastes : Post(k, val)
    <3>1. PICK k \in Keys, val \in Pastes : Post(k, val)
      BY <2>3
    <3>2. /\ phase = "serving" /\ asked' = asked /\ posted' = posted \cup {k}
          /\ k \in GeneratedKeys(cfg.key_generator, cfg.key_space, cfg.key_length)
      BY <3>1 DEF Post
    <3>3. k = <<>> => Read(asked).key_length < 0
      <4>1. asked \in Deployments /\ ~Rejected(asked)
        BY <3>2 DEF TypeOK, Running
      <4> QED
        BY <3>2, <4>1, AskedLengthIs, EmptyKeyIs
    <3> QED
      BY <3>2, <3>3 DEF KeysAreNotEmpty
  <2> QED
    BY <2>1, <2>2, <2>3, StepIs
<1> QED
  BY <1>1, <1>2, BootTyping, PTL DEF Spec

-----------------------------------------------------------------------------
(* The documents are there. *)

\* What the operator wrote down, part by part.
LEMMA One == ASSUME NEW S, NEW x \in S PROVE <<x>> \in Seq(S) /\ Len(<<x>>) = 1 /\ <<x>>[1] = x
OBVIOUS

LEMMA FirstIs ==
    ASSUME NEW S, NEW s \in Seq(S), Len(s) = 1
    PROVE  Head(s) = s[1]
OBVIOUS

LEMMA WantedIs ==
    ASSUME NEW d \in Deployments
    PROVE  /\ Len(d.documents) \in Nat /\ Len(d.variables) \in Nat
           /\ Len(Wanted(d)) = Len(d.documents) + Len(d.variables)
           /\ \A i \in 1..Len(d.documents) :
                 Wanted(d)[i] = [key |-> d.documents[i].key, path |-> <<d.documents[i].path>>]
           /\ \A i \in 1..Len(d.variables) :
                 Wanted(d)[Len(d.documents) + i] = d.variables[i]
<1> DEFINE M == Len(d.documents)
           F == [i \in 1..M |-> [key |-> d.documents[i].key, path |-> <<d.documents[i].path>>]]
<1>1. Described(d)
  BY BootConstants
<1>2. d.documents \in Seq(DocOf(d)) /\ d.variables \in Seq(VariableOf(d))
  BY <1>1 DEF Described, DocOf, VariableOf
<1>3. M \in Nat /\ Len(d.variables) \in Nat
  BY <1>2, LenProperties
<1> HIDE DEF M
<1>4. ASSUME NEW i \in 1..M PROVE F[i] \in VariableOf(d)
  <2>1. d.documents[i] \in DocOf(d)
    BY <1>2, ElementOfSeq DEF M
  <2>2. d.documents[i].key \in Keys /\ d.documents[i].path \in DOMAIN d.content
    BY <2>1 DEF DocOf
  <2>3. <<d.documents[i].path>> \in Seq(DOMAIN d.content)
    BY <2>2, One
  <2>4. F[i] = [key |-> d.documents[i].key, path |-> <<d.documents[i].path>>]
    OBVIOUS
  <2> HIDE DEF F
  <2> QED
    BY <2>2, <2>3, <2>4 DEF VariableOf
<1>5. F \in [1..M -> VariableOf(d)]
  BY <1>4
<1>6. \A i \in 1..M : F[i] = [key |-> d.documents[i].key, path |-> <<d.documents[i].path>>]
  OBVIOUS
<1>7. Wanted(d) = F \o d.variables
  BY DEF Wanted, M
<1> HIDE DEF F
<1>8. F \in Seq(VariableOf(d)) /\ Len(F) = M
  BY <1>3, <1>5, IsASeq, LenProperties
<1>9. /\ Len(Wanted(d)) = M + Len(d.variables)
      /\ \A i \in 1..M + Len(d.variables) :
            Wanted(d)[i] = IF i <= M THEN F[i] ELSE d.variables[i - M]
  <2> DEFINE V == d.variables
             S == VariableOf(d)
  <2>1. F \in Seq(S) /\ V \in Seq(S) /\ Wanted(d) = F \o V /\ Len(F) = M
    BY <1>2, <1>7, <1>8
  <2> HIDE DEF V, S
  <2>2. /\ Len(F \o V) = Len(F) + Len(V)
        /\ \A i \in 1..Len(F) + Len(V) : (F \o V)[i] = IF i <= Len(F) THEN F[i] ELSE V[i - Len(F)]
    BY <2>1, ConcatProperties
  <2> QED
    BY <2>1, <2>2 DEF V
<1>10. ASSUME NEW i \in 1..M PROVE Wanted(d)[i] = F[i]
  BY <1>3, <1>9
<1>11. ASSUME NEW i \in 1..Len(d.variables) PROVE Wanted(d)[M + i] = d.variables[i]
  BY <1>3, <1>9
<1> QED
  BY <1>3, <1>6, <1>9, <1>10, <1>11 DEF M

LEMMA VariableIs ==
    ASSUME NEW d \in Deployments, NEW i \in 1..Len(d.variables)
    PROVE  d.variables[i] \in VariableOf(d)
<1>1. d.variables \in Seq(VariableOf(d))
  BY BootConstants DEF Described, VariableOf
<1> QED
  BY <1>1, ElementOfSeq

\* What is wanted last under a key is the last document of that key.
LEMMA WantedIsDocument ==
    ASSUME NEW d \in Deployments, NEW i \in 1..Len(Wanted(d)),
           Len(Wanted(d)[i].path) = 1,
           \A j \in i + 1..Len(Wanted(d)) :
              Wanted(d)[j].key = Wanted(d)[i].key => Len(Wanted(d)[j].path) > 1
    PROVE  \E a \in 1..Len(Documents(d)) :
              /\ Documents(d)[a].key = Wanted(d)[i].key
              /\ Documents(d)[a].path = Wanted(d)[i].path[1]
              /\ \A b \in a + 1..Len(Documents(d)) : Documents(d)[b].key # Wanted(d)[i].key
<1> DEFINE M == Len(d.documents)
           N == Len(d.variables)
           W == Wanted(d)
           D == Documents(d)
           K == Wanted(d)[i].key
<1>1. M \in Nat /\ N \in Nat /\ Len(W) = M + N
  BY WantedIs
<1>2. \A j \in 1..M : W[j] = [key |-> d.documents[j].key, path |-> <<d.documents[j].path>>]
  BY WantedIs
<1>3. \A j \in 1..N : W[M + j] = d.variables[j]
  BY WantedIs
<1>4. Len(D) \in Nat /\ ListAfter(d, N, D)
  BY DocsOf
<1>5. i \in 1..Len(W) /\ Len(W[i].path) = 1 /\ K = W[i].key
      /\ \A j \in i + 1..Len(W) : W[j].key = K => Len(W[j].path) > 1
  OBVIOUS
<1> HIDE DEF M, N, W, D, K
<1>6. \A j \in 1..N : M + j > i /\ Accepted(d.variables[j]) => Entry(d.variables[j]).key # K
  <2> SUFFICES ASSUME NEW j \in 1..N, M + j > i, Accepted(d.variables[j])
               PROVE  d.variables[j].key # K
    BY DEF Entry
  <2>1. M + j \in i + 1..Len(W)
    BY <1>1, <1>5
  <2>2. Len(W[M + j].path) = 1
    BY <1>3 DEF Accepted
  <2>3. W[M + j].key # K
    <3> SUFFICES ASSUME W[M + j].key = K PROVE FALSE
      OBVIOUS
    <3>1. Len(W[M + j].path) > 1
      BY <1>5, <2>1
    <3> QED
      BY <2>2, <3>1
  <2> QED
    BY <1>3, <2>3
<1>7. CASE i \in 1..M
  <2>1. i \in 1..Len(D) /\ D[i] = d.documents[i]
    BY <1>1, <1>4, <1>7 DEF ListAfter, M
  <2>2. D[i].key = K /\ D[i].path = W[i].path[1]
    <3>1. W[i] = [key |-> D[i].key, path |-> <<D[i].path>>]
      BY <1>2, <1>7, <2>1
    <3>2. W[i].key = D[i].key /\ W[i].path = <<D[i].path>>
      BY <3>1
    <3>3. <<D[i].path>>[1] = D[i].path
      OBVIOUS
    <3> QED
      BY <1>5, <3>2, <3>3
  <2>3. ASSUME NEW b \in i + 1..Len(D) PROVE D[b].key # K
    <3>1. CASE b \in 1..M
      <4>1. D[b] = d.documents[b] /\ W[b] = [key |-> d.documents[b].key, path |-> <<d.documents[b].path>>]
        BY <1>2, <1>4, <3>1 DEF ListAfter, M
      <4>2. Len(W[b].path) = 1 /\ W[b].key = D[b].key
        BY <4>1
      <4>3. b \in i + 1..Len(W)
        BY <1>1, <3>1, <2>3, <1>7
      <4> SUFFICES ASSUME D[b].key = K PROVE FALSE
        OBVIOUS
      <4>4. Len(W[b].path) > 1
        BY <1>5, <4>2, <4>3
      <4> QED
        BY <4>2, <4>4
    <3>2. CASE b \in M + 1..Len(D)
      <4>1. PICK j \in 1..N : Accepted(d.variables[j]) /\ D[b] = Entry(d.variables[j])
        BY <1>4, <3>2 DEF ListAfter, M
      <4>2. M + j > i
        BY <1>1, <1>7
      <4> QED
        BY <1>6, <4>1, <4>2
    <3>3. b \in 1..M \/ b \in M + 1..Len(D)
      BY <1>1, <1>4, <2>3, <1>7
    <3> QED
      BY <3>1, <3>2, <3>3
  <2> QED
    BY <2>1, <2>2, <2>3 DEF D, K, W
<1>8. CASE i \in M + 1..M + N
  <2> DEFINE v == i - M
  <2>1. v \in 1..N /\ i = M + v
    BY <1>1, <1>8
  <2> HIDE DEF v
  <2>2. W[i] = d.variables[v]
    BY <1>3, <2>1
  <2>3. Accepted(d.variables[v])
    BY <1>5, <2>2 DEF Accepted
  <2>4. PICK a \in 1..Len(D) :
           /\ D[a] = Entry(d.variables[v])
           /\ \A b \in a + 1..Len(D) :
                 \E j \in v + 1..N : Accepted(d.variables[j]) /\ D[b] = Entry(d.variables[j])
    BY <1>4, <2>1, <2>3 DEF ListAfter
  <2>5. D[a].key = K /\ D[a].path = W[i].path[1]
    <3>1. W[i].path[1] = Head(d.variables[v].path)
      <4>1. d.variables[v] \in VariableOf(d)
        BY <1>1, <2>1, VariableIs DEF N
      <4>2. d.variables[v].path \in Seq(DOMAIN d.content) /\ Len(d.variables[v].path) = 1
        BY <2>3, <4>1 DEF VariableOf, Accepted
      <4> QED
        BY <2>2, <4>2, FirstIs
    <3> QED
      BY <1>5, <2>2, <2>4, <3>1 DEF Entry
  <2>6. ASSUME NEW b \in a + 1..Len(D) PROVE D[b].key # K
    <3>1. PICK j \in v + 1..N : Accepted(d.variables[j]) /\ D[b] = Entry(d.variables[j])
      BY <2>4
    <3>2. j \in 1..N /\ M + j > i
      BY <1>1, <2>1
    <3> QED
      BY <1>6, <3>1, <3>2
  <2> QED
    BY <2>4, <2>5, <2>6 DEF D, K, W
<1>9. i \in 1..M \/ i \in M + 1..M + N
  BY <1>1, <1>5
<1> QED
  BY <1>7, <1>8, <1>9

\* The i-th document is there, or somebody else's business.
Present(i) ==
    \/ docs[i].key \in posted \cup gone
    \/ rows[place][docs[i].key] # None /\ rows[place][docs[i].key].val = Content(docs[i])

\* Of the documents loaded so far, the last of each key is there.
LoadedAreThere ==
    \A i \in 1..loaded :
        (\A j \in i + 1..loaded : docs[j].key # docs[i].key) => Present(i)

\* The inductive invariant behind DocumentsAreThere: where the loop of
\* handleConfig is, and what it has left behind it.
LoadingInv ==
    /\ phase \in {"constructing", "indexing"} => loaded = 0
    /\ phase \in {"loading", "serving"} => LoadedAreThere
    /\ phase = "serving" => loaded = Len(docs)

LEMMA LoadingLoad ==
    ASSUME TypeOK, LoadingInv, LoadDocument
    PROVE  LoadingInv'
<1> DEFINE n == loaded + 1
           k == docs[n].key
           row == [val |-> Content(docs[n]), mortal |-> ~FALSE /\ type \in Lossy]
<1>1. /\ phase = "loading" /\ phase' = "loading" /\ loaded < Len(docs) /\ loaded' = n
      /\ rows' = [rows EXCEPT ![place][k] = row]
      /\ gone' = gone \ {k}
      /\ asked' = asked /\ posted' = posted
  BY DEF LoadDocument, Loads, Put
<1>2. UNCHANGED <<docs, place>> /\ \A i : Content(docs[i])' = Content(docs[i])
  BY <1>1, SameLife DEF Content
<1>3. k \in Keys /\ Content(docs[n]) \in Contents
  BY <1>1, LoadedDoc
<1>4. row # None /\ row.val = Content(docs[n])
  <2>1. row \in RowType
    BY <1>3 DEF RowType
  <2> QED
    BY <2>1, BootConstants
<1>5. place \in Places /\ rows \in [Places -> [Keys -> RowType \cup {None}]]
  BY PlaceIs DEF TypeOK
<1>6. rows'[place][k] = row
      /\ \A l \in Keys : l # k => rows'[place][l] = rows[place][l]
  <2> HIDE DEF row, k
  <2> QED
    BY <1>1, <1>3, <1>5
<1>7. loaded \in Nat /\ n = loaded + 1 /\ Len(docs) \in Nat
  <2>1. asked \in Deployments
    BY DEF TypeOK
  <2>2. Len(docs) \in Nat
    BY <2>1, DocsOf DEF docs
  <2> QED
    BY <2>2 DEF TypeOK
<1>8. k = docs[n].key
  OBVIOUS
<1> HIDE DEF row, k, n
<1>9. ASSUME NEW i \in 1..loaded', \A j \in i + 1..loaded' : docs[j].key # docs[i].key
      PROVE  Present(i)'
  <2>1. CASE i = n
    <3>1. rows'[place'][docs'[i].key] # None
          /\ rows'[place'][docs'[i].key].val = Content(docs[i])'
      BY <1>2, <1>4, <1>6, <1>8, <2>1
    <3> QED
      BY <3>1 DEF Present
  <2>2. CASE i \in 1..loaded
    <3>1. docs[i].key # k
      <4>1. n \in i + 1..loaded'
        BY <1>1, <1>7, <2>2
      <4> QED
        BY <1>8, <1>9, <4>1
    <3>2. \A j \in i + 1..loaded : docs[j].key # docs[i].key
      <4>1. \A j \in i + 1..loaded : j \in i + 1..loaded'
        BY <1>1, <1>7, <2>2
      <4> QED
        BY <1>9, <4>1
    <3>3. Present(i)
      BY <1>1, <2>2, <3>2 DEF LoadingInv, LoadedAreThere
    <3>4. docs[i].key \in Keys
      <4>1. asked \in Deployments /\ i \in 1..Len(docs)
        BY <1>1, <1>7, <2>2 DEF TypeOK
      <4> QED
        BY <4>1, DocIs DEF docs
    <3>5. docs[i].key \in posted \cup gone => docs[i].key \in posted' \cup gone'
      BY <1>1, <3>1
    <3>6. rows'[place][docs[i].key] = rows[place][docs[i].key]
      BY <1>6, <3>1, <3>4
    <3> QED
      BY <1>2, <3>3, <3>5, <3>6 DEF Present
  <2>3. i = n \/ i \in 1..loaded
    BY <1>1, <1>7
  <2> QED
    BY <2>1, <2>2, <2>3
<1>10. LoadedAreThere'
  BY <1>2, <1>9 DEF LoadedAreThere
<1> QED
  BY <1>1, <1>10 DEF LoadingInv

\* A document stays present while other rows change, and while what was lost or
\* posted is remembered.
LEMMA LoadingStays ==
    ASSUME TypeOK, LoadingInv, UNCHANGED <<asked, loaded>>,
           phase' \in {phase, "down", "fatal"},
           posted \subseteq posted', gone \subseteq gone',
           \A k \in Keys : k \in posted' \cup gone' \/ rows'[place][k] = rows[place][k]
    PROVE  LoadingInv'
<1>1. UNCHANGED <<docs, place>> /\ \A i : Content(docs[i])' = Content(docs[i])
  BY SameLife DEF Content
<1>2. loaded \in 0..Len(docs) /\ Len(docs) \in Nat
  <2>1. asked \in Deployments /\ loaded \in 0..Len(docs)
    BY DEF TypeOK
  <2> QED
    BY <2>1, DocsOf DEF docs
<1>3. ASSUME NEW i \in 1..loaded, Present(i) PROVE Present(i)'
  <2>1. docs[i].key \in Keys
    <3>1. asked \in Deployments /\ i \in 1..Len(docs)
      BY <1>2 DEF TypeOK
    <3> QED
      BY <3>1, DocIs DEF docs
  <2> QED
    BY <1>1, <1>3, <2>1 DEF Present
<1>4. LoadedAreThere => LoadedAreThere'
  BY <1>1, <1>3 DEF LoadedAreThere
<1> QED
  BY <1>1, <1>4 DEF LoadingInv

LEMMA LoadingOtherwise ==
    ASSUME TypeOK, LoadingInv, Start \/ Construct \/ CreateIndexes \/ Serve
    PROVE  LoadingInv'
<1>1. CASE Start
  BY <1>1 DEF Start, LoadingInv
<1>2. CASE Construct \/ CreateIndexes
  <2>1. loaded' = loaded /\ loaded = 0 /\ phase' \in {"indexing", "loading"}
    BY <1>2 DEF Construct, CreateIndexes, LoadingInv
  <2>2. LoadedAreThere'
    BY <2>1 DEF LoadedAreThere
  <2> QED
    BY <2>1, <2>2 DEF LoadingInv
<1>3. CASE Serve
  <2>1. /\ phase = "loading" /\ phase' = "serving" /\ loaded = Len(docs)
        /\ UNCHANGED <<asked, loaded, rows, posted, gone>>
    BY <1>3 DEF Serve, world
  <2>2. UNCHANGED <<docs, place>> /\ \A i : Content(docs[i])' = Content(docs[i])
    BY <2>1, SameLife DEF Content
  <2>3. LoadedAreThere => LoadedAreThere'
    BY <2>1, <2>2 DEF LoadedAreThere, Present
  <2> QED
    BY <2>1, <2>2, <2>3 DEF LoadingInv
<1> QED
  BY <1>1, <1>2, <1>3

LEMMA LoadingNext == TypeOK /\ LoadingInv /\ [Next]_vars => LoadingInv'
<1> SUFFICES ASSUME TypeOK, LoadingInv, [Next]_vars PROVE LoadingInv'
  OBVIOUS
<1>1. CASE Start \/ Construct \/ CreateIndexes \/ Serve
  BY <1>1, LoadingOtherwise
<1>2. CASE LoadDocument
  BY <1>2, LoadingLoad
<1>3. CASE Fatal \/ Outside \/ UNCHANGED vars
  <2>1. UNCHANGED <<asked, loaded, rows, posted, gone>>
    BY <1>3, OutsideDoes DEF Fatal, world, vars
  <2>2. phase' \in {phase, "down", "fatal"}
    BY <1>3 DEF Fatal, Outside, Stop, Change, ComeOrGo, Settle, operator, vars
  <2> QED
    BY <2>1, <2>2, LoadingStays
<1>4. CASE \E k \in Keys, val \in Pastes : Post(k, val)
  <2>1. PICK k \in Keys, val \in Pastes : Post(k, val)
    BY <1>4
  <2> DEFINE row == [val |-> val, mortal |-> ~FALSE /\ type \in Lossy]
  <2>2. /\ rows' = [rows EXCEPT ![place][k] = row]
        /\ posted' = posted \cup {k} /\ UNCHANGED <<asked, loaded, phase, gone>>
    BY <2>1 DEF Post, Put
  <2> HIDE DEF row
  <2>3. place \in Places /\ rows \in [Places -> [Keys -> RowType \cup {None}]]
    BY PlaceIs DEF TypeOK
  <2>4. \A l \in Keys : l \in posted' \cup gone' \/ rows'[place][l] = rows[place][l]
    BY <2>2, <2>3
  <2> QED
    BY <2>2, <2>4, LoadingStays
<1>5. CASE \E p \in Places, k \in Keys : Lose(p, k)
  <2>1. PICK p \in Places, k \in Keys : Lose(p, k)
    BY <1>5
  <2>2. /\ rows' = [rows EXCEPT ![p][k] = None]
        /\ gone' = IF p = place THEN gone \cup {k} ELSE gone
        /\ UNCHANGED <<asked, loaded, phase, posted>>
    BY <2>1 DEF Lose
  <2>3. place \in Places /\ rows \in [Places -> [Keys -> RowType \cup {None}]]
    BY PlaceIs DEF TypeOK
  <2>4. \A l \in Keys : l \in posted' \cup gone' \/ rows'[place][l] = rows[place][l]
    BY <2>2, <2>3
  <2> QED
    BY <2>2, <2>4, LoadingStays
<1> QED
  BY <1>1, <1>2, <1>3, <1>4, <1>5, StepIs DEF HandleConfig

LEMMA LoadingMeans == TypeOK /\ LoadingInv => DocumentsAreThere
<1> SUFFICES ASSUME TypeOK, LoadingInv, phase = "serving",
                    NEW i \in 1..Len(Wanted(asked)),
                    Len(Wanted(asked)[i].path) = 1,
                    \A j \in i + 1..Len(Wanted(asked)) :
                       Wanted(asked)[j].key = Wanted(asked)[i].key
                          => Len(Wanted(asked)[j].path) > 1
             PROVE  \/ Wanted(asked)[i].key \in posted \cup gone
                    \/ /\ rows[place][Wanted(asked)[i].key] # None
                       /\ rows[place][Wanted(asked)[i].key].val
                             = asked.content[Wanted(asked)[i].path[1]]
  BY DEF DocumentsAreThere
<1>1. asked \in Deployments
  BY DEF TypeOK
<1>2. PICK a \in 1..Len(docs) :
         /\ docs[a].key = Wanted(asked)[i].key
         /\ docs[a].path = Wanted(asked)[i].path[1]
         /\ \A b \in a + 1..Len(docs) : docs[b].key # Wanted(asked)[i].key
  BY <1>1, WantedIsDocument DEF docs
<1>3. loaded = Len(docs) /\ LoadedAreThere
  BY DEF LoadingInv
<1>4. Present(a)
  BY <1>2, <1>3 DEF LoadedAreThere
<1> QED
  BY <1>2, <1>4 DEF Present, Content

\* While the server is in service, the last document that the operator wrote
\* down for a key is what the storage holds under it, unless its path has an "="
\* in it (config.go:287), a paste has been stored under its key, or the row has
\* expired.
THEOREM DocumentsThere == Spec => []DocumentsAreThere
<1>1. Init => LoadingInv
  BY DEF Init, LoadingInv
<1> QED
  BY <1>1, LoadingNext, LoadingMeans, BootTyping, PTL DEF Spec

-----------------------------------------------------------------------------
(* What stops a start. *)

\* A start is of the configuration that is there: nobody changes it meanwhile.
AskedInv == phase \in {"constructing", "indexing", "loading"} => asked = deployment

LEMMA AskedNext == AskedInv /\ [Next]_vars => AskedInv'
<1> SUFFICES ASSUME AskedInv, [Next]_vars PROVE AskedInv'
  OBVIOUS
<1>1. CASE Start
  BY <1>1 DEF Start, operator, AskedInv
<1>2. CASE HandleConfig
  BY <1>2 DEF HandleConfig, Construct, CreateIndexes, LoadDocument, Loads, Serve, Fatal, operator, AskedInv
<1>3. CASE Outside
  <2>1. CASE Stop \/ ComeOrGo \/ Settle
    BY <2>1 DEF Stop, ComeOrGo, Settle, operator, AskedInv
  <2>2. CASE \E d \in Deployments : Change(d)
    BY <2>2 DEF Change, AskedInv
  <2> QED
    BY <1>3, <2>1, <2>2 DEF Outside
<1>4. CASE \E k \in Keys, val \in Pastes : Post(k, val)
  BY <1>4 DEF Post, operator, AskedInv
<1>5. CASE \E p \in Places, k \in Keys : Lose(p, k)
  BY <1>5 DEF Lose, operator, AskedInv
<1>6. CASE UNCHANGED vars
  BY <1>6 DEF vars, AskedInv
<1> QED
  BY <1>1, <1>2, <1>3, <1>4, <1>5, <1>6, StepIs

StopsAStart == phase' = "fatal" /\ phase # "fatal" /\ up /\ Sound(deployment)
Leftover ==
    \/ Refused
    \/ type = "mongodb" /\ rows[place][docs[loaded + 1].key] # None
    \/ type = "file" /\ place \notin made

LEMMA FatalIsOfLeftovers ==
    ASSUME TypeOK, AskedInv, StopsAStart, Fatal
    PROVE  Leftover
<1>1. phase \in {"constructing", "indexing", "loading"} /\ asked = deployment
  BY DEF Fatal, AskedInv
<1>2. /\ type \in StorageTypes
      /\ cfg.key_generator \in Generators /\ cfg.logging_level \in Levels
      /\ \A i \in 1..Len(docs) : Content(docs[i]) # None
  BY <1>1 DEF StopsAStart, Sound, type, cfg, docs, Content
<1>3. up
  BY DEF StopsAStart
<1>4. CASE phase = "constructing"
  BY <1>2, <1>3, <1>4 DEF Fatal, Reached, Leftover
<1>5. CASE phase = "indexing"
  BY <1>3, <1>5 DEF Fatal
<1>6. CASE phase = "loading" /\ loaded < Len(docs)
  <2>1. loaded + 1 \in 1..Len(docs)
    BY <1>6, LoadedDoc
  <2>2. Content(docs[loaded + 1]) # None
    BY <1>2, <2>1
  <2>3. ~Works(docs[loaded + 1].key)
    BY <1>6, <2>2 DEF Fatal
  <2> QED
    BY <1>3, <2>3 DEF Works, Inserts, Leftover
<1>7. CASE phase = "loading" /\ ~(loaded < Len(docs))
  BY <1>2, <1>7 DEF Fatal
<1> QED
  BY <1>1, <1>4, <1>5, <1>6, <1>7

\* With a sound configuration and a storage that answers, a start fails only
\* because of what an earlier life, or this one, has left: a collection or
\* bucket that the server refuses to create a second time (mongodb.go:59,
\* s3.go:55), on MongoDB a document under the key of one to be stored, or the
\* directory that could not be made when it was tried (file.go:26).
THEOREM LeftoversStopAStart == Spec => OnlyLeftoversStopAStart
<1>1. Init => AskedInv
  BY DEF Init, AskedInv
<1>2. TypeOK /\ AskedInv /\ [Next]_vars => [StopsAStart => Leftover]_vars
  <2> SUFFICES ASSUME TypeOK, AskedInv, Next, StopsAStart PROVE Leftover
    OBVIOUS
  <2>1. CASE Fatal
    BY <2>1, FatalIsOfLeftovers
  <2>2. CASE ~Fatal
    <3>1. phase' # "fatal" \/ phase = "fatal" \/ Start
      BY <2>2 DEF Next, HandleConfig, Construct, CreateIndexes, LoadDocument, Loads, Serve,
                  Post, Stop, Lose, Change, ComeOrGo, Settle, operator
    <3>2. Start => phase' # "fatal"
      BY DEF Start, StopsAStart, Sound
    <3> QED
      BY <3>1, <3>2 DEF StopsAStart
  <2> QED
    BY <2>1, <2>2
<1>3. [][StopsAStart => Leftover]_vars => OnlyLeftoversStopAStart
  BY DEF OnlyLeftoversStopAStart, StopsAStart, Leftover
<1> QED
  BY <1>1, <1>2, <1>3, AskedNext, BootTyping, PTL DEF Spec
=============================================================================
