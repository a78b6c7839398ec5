------------------------ MODULE HasteContents_proofs -----------------------
(* What HasteServer stores and shows: any number of requests, any keys,      *)
(* bodies and static documents, any storage type, failing or not.            *)
EXTENDS HasteServer_proofs

-----------------------------------------------------------------------------
(* The inductive invariants of the contents. *)

\* v is text, or what a torn write has left of it.
PieceOf(v, text) ==
    /\ \E n \in 1..Len(text) : v = SubSeq(text, 1, n)
    /\ ~StorageFails => v = text

\* v is nothing, or a writer of key k has written it.
Written(k, v) ==
    v # <<>> => \E w \in Writers(k) :
                   /\ w \in Requests => ~TooLong(ContentOf(w))
                   /\ PieceOf(v, ContentOf(w))

\* Whatever is stored, on its way to a client, or shown, was written.
WrittenInv ==
    /\ \A k \in Keys : Written(k, docs[k])
    /\ \A r \in Requests :
          calls[r].st = "done" /\ calls[r].op = "get" => Written(calls[r].key, calls[r].val)
    /\ \A r \in Requests :
          Served(r) => req[r].data # <<>> /\ Written(Lookup(req[r].id), req[r].data)

\* What can be seen of key k: in the storage, by a Get that has read it, and by
\* the clients.
Seen(k) ==
    ({docs[k]}
        \cup {calls[r].val : r \in {r \in Requests : calls[r].st = "done" /\ calls[r].op = "get"
                                                         /\ calls[r].key = k}}
        \cup {req[r].data : r \in {r \in Requests : Served(r) /\ Lookup(req[r].id) = k}})
    \ {<<>>}

\* Of a key with one writer only one text is ever seen.  While its Set is in
\* progress, none is, unless the client of the storage sends it again.
Agreed(k, w) ==
    /\ \A u, v \in Seen(k) : u = v
    /\ \A p \in Callers :
          calls[p].st = "pending" /\ calls[p].op = "set" /\ calls[p].key = k =>
              IF Resends THEN Seen(k) \subseteq {calls[p].val} ELSE Seen(k) = {}
    /\ /\ Alive /\ phase = "loading" /\ calls[Main].st = "idle"
       /\ w \notin Requests /\ w = loaded + 1
       => Seen(k) = {}

AgreeInv ==
    \A k \in Keys, w \in Requests \cup 1..Len(StaticDocs) : Writers(k) = {w} => Agreed(k, w)

\* A Set that has returned, whether or not its caller has taken notice, has
\* stored its text.
Stored(w) ==
    IF w \in Requests THEN req[w].code = 200 \/ calls[w].st = "done"
    ELSE w <= loaded \/ calls[Main].st = "done"

KeptInv ==
    ~StorageFails /\ storeOpen =>
        /\ late = {}
        /\ calls[Main].st = "done" => ~calls[Main].err
        /\ \A k \in Keys, w \in Requests \cup 1..Len(StaticDocs) :
              Writers(k) = {w} /\ Stored(w) => docs[k] = ContentOf(w)
-----------------------------------------------------------------------------
(* What a step may do to a request, a call, a key and the documents. *)

RequestGoes(r) ==
    /\ req[r].key # None =>
          /\ req'[r].key = req[r].key /\ req'[r].kind = req[r].kind
          /\ req'[r].body = req[r].body /\ req'[r].id = req[r].id
    /\ Posted(r)' /\ ~Posted(r) =>
          calls[r].st = "idle" /\ calls'[r].st = "pending" /\ req'[r].code = 0
    /\ Posted(r)' /\ req'[r].code = 200 => req[r].code = 200 \/ calls[r].st = "done"
    /\ Served(r)' =>
          \/ Served(r) /\ req'[r].id = req[r].id /\ req'[r].data = req[r].data
          \/ /\ calls[r].st = "done" /\ calls[r].op = "get" /\ calls[r].key = Lookup(req'[r].id)
             /\ req'[r].data = calls[r].val /\ calls[r].val # <<>>

CallGoes(p) ==
    \/ calls'[p] = calls[p]
    \/ calls'[p].st = "idle"
    \/ /\ calls[p].st = "idle" /\ calls'[p].st = "pending" /\ UNCHANGED loaded
       /\ p \in Requests /\ calls'[p].op = "set" => ~Posted(p) /\ Posted(p)'
    \/ /\ calls[p].st # "idle" /\ calls'[p].st = "done"
       /\ calls'[p].op = calls[p].op /\ calls'[p].key = calls[p].key
       /\ calls'[p].op = "get" => calls'[p].val \in {<<>>, docs[calls[p].key]}

Overwrites(p, k) ==
    /\ calls[p].st = "pending" /\ calls[p].op = "set" /\ calls[p].key = k
    /\ UNCHANGED <<loaded, req>>
    /\ \A x \in Callers \ {p} : calls'[x] = calls[x]
    /\ \/ docs'[k] = calls[p].val /\ (calls'[p].st = "done" \/ (Resends /\ UNCHANGED calls))
       \/ /\ Tears /\ calls'[p].st = "done"
          /\ \E n \in 1..Len(calls[p].val) : docs'[k] = SubSeq(calls[p].val, 1, n)

KeyGoes(k) ==
    \/ docs'[k] = docs[k]
    \/ docs'[k] = <<>> /\ StorageFails
    \/ \E p \in Callers : Overwrites(p, k)

MainGoes ==
    /\ UNCHANGED backend
    /\ \/ UNCHANGED loaded /\ (calls'[Main].st = "idle" => calls[Main].st = "idle" \/ ~Alive')
       \/ loaded' = loaded + 1 /\ calls[Main].st = "done" /\ calls'[Main].st = "idle"
    /\ Alive' /\ phase' = "loading" => Alive /\ phase = "loading"

Goes ==
    /\ \A r \in Requests : RequestGoes(r)
    /\ \A p \in Callers : CallGoes(p)
    /\ \A k \in Keys : KeyGoes(k)
    /\ MainGoes

LEMMA SameGoes ==
    ASSUME UNCHANGED <<docs, calls, backend, loaded, req>>,
           Alive' /\ phase' = "loading" => Alive /\ phase = "loading"
    PROVE  Goes
BY DEF Goes, RequestGoes, CallGoes, KeyGoes, MainGoes, Posted, Served

LEMMA AcceptGoes ==
    ASSUME TypeInv, Alive, NEW r \in Requests, Accept(r)
    PROVE  Goes
<1>1. /\ UNCHANGED <<docs, calls, backend, loaded, phase>>
      /\ RequestOK(req[r]) /\ req[r].st = "new"
      /\ req \in [Requests -> RequestType]
  BY DEF Accept, storeVars, closing, mainVars, TypeInv, RequestsTyped
<1>2. req[r].key = None /\ req[r].code = 0
  BY <1>1 DEF RequestOK
<1>3. req'[r].key = None /\ req'[r].code = 0 /\ \A x \in Requests \ {r} : req'[x] = req[x]
  <2>1. CASE \E kind \in Kinds \cap {"get", "head"}, id \in Ids :
               req' = [req EXCEPT ![r].st = "accepted", ![r].kind = kind, ![r].id = id]
    BY <1>1, <1>2, <2>1 DEF RequestType
  <2>2. CASE \E kind \in Kinds \cap {"post", "log"}, body \in Bodies :
               req' = [req EXCEPT ![r].st = "accepted", ![r].kind = kind, ![r].body = body]
    BY <1>1, <1>2, <2>2 DEF RequestType
  <2>3. CASE req' = [req EXCEPT ![r].st = "accepted", ![r].kind = "page"]
    BY <1>1, <1>2, <2>3 DEF RequestType
  <2> QED
    BY <2>1, <2>2, <2>3 DEF Accept
<1>4. RequestGoes(r)
  BY <1>2, <1>3 DEF RequestGoes, Posted, Served
<1>5. \A x \in Requests : RequestGoes(x)
  BY <1>3, <1>4 DEF RequestGoes, Posted, Served
<1> QED
  BY <1>1, <1>5 DEF Goes, CallGoes, KeyGoes, MainGoes, Alive

LEMMA TurningGoes ==
    ASSUME TypeInv, Alive, NEW r \in Requests, Turning(r)
    PROVE  Goes
<1>1. /\ UNCHANGED <<docs, calls, backend, loaded, phase>>
      /\ RequestOK(req[r]) /\ req[r].st = "accepted"
      /\ req \in [Requests -> RequestType]
  BY DEF Turning, Limit, ServePage, RejectBody, storeVars, closing, mainVars, TypeInv, RequestsTyped
<1>2. req[r].key = None
  BY <1>1 DEF RequestOK
<1>3. PICK code \in {200, 400, 429, 500} :
          Reply(r, code, <<>>) /\ (code = 200 => req[r].kind = "page")
  BY DEF Turning, Limit, ServePage, RejectBody
<1>4. /\ req'[r].key = None /\ req'[r].kind = req[r].kind /\ req'[r].code = code
      /\ \A x \in Requests \ {r} : req'[x] = req[x]
  BY <1>1, <1>2, <1>3 DEF Reply, RequestType
<1>5. RequestGoes(r)
  BY <1>2, <1>3, <1>4 DEF RequestGoes, Posted, Served
<1>6. \A x \in Requests : RequestGoes(x)
  BY <1>4, <1>5 DEF RequestGoes, Posted, Served
<1> QED
  BY <1>1, <1>6 DEF Goes, CallGoes, KeyGoes, MainGoes, Alive

LEMMA StartGetGoes ==
    ASSUME TypeInv, Alive, NEW r \in Requests, StartGet(r)
    PROVE  Goes
<1> DEFINE k == Lookup(req[r].id)
<1>1. /\ UNCHANGED <<docs, backend, loaded, phase>>
      /\ RequestOK(req[r]) /\ req[r].st = "accepted"
      /\ req \in [Requests -> RequestType] /\ req[r].kind \in {"get", "head"}
      /\ req' = [req EXCEPT ![r].st = "loading", ![r].key = k]
  BY DEF StartGet, Begin, Store!Call, closing, mainVars, TypeInv, RequestsTyped
<1>2. k \in Keys /\ r \in Callers /\ <<>> \in Seq(Chunks) /\ Begin(r, "get", k, <<>>)
  BY <1>1, ServerConstants DEF RequestOK, Callers, StartGet
<1>3. req[r].key = None /\ req[r].code = 0
  BY <1>1 DEF RequestOK
<1>4. /\ req'[r].kind = req[r].kind /\ req'[r].code = 0
      /\ \A x \in Requests \ {r} : req'[x] = req[x]
  BY <1>1, <1>3 DEF RequestType
<1>5. /\ calls[r].st = "idle" /\ calls'[r].st = "pending" /\ calls'[r].op = "get"
      /\ \A x \in Callers \ {r} : calls'[x] = calls[x]
  BY <1>2, CallsBegin
<1>6. RequestGoes(r)
  BY <1>1, <1>3, <1>4 DEF RequestGoes, Posted, Served
<1>7. \A x \in Requests : RequestGoes(x)
  BY <1>4, <1>6 DEF RequestGoes, Posted, Served
<1>8. CallGoes(r) /\ MainGoes
  BY <1>1, <1>5, Constants DEF CallGoes, MainGoes, Alive, Callers
<1>9. \A p \in Callers : CallGoes(p)
  BY <1>5, <1>8 DEF CallGoes
<1> QED
  BY <1>1, <1>7, <1>8, <1>9 DEF Goes, KeyGoes

LEMMA StartSetGoes ==
    ASSUME TypeInv, Alive, NEW r \in Requests, StartSet(r)
    PROVE  Goes
<1>1. PICK v \in ReadableAs(r), k \in GeneratedKeys :
          /\ Begin(r, "set", k, v)
          /\ req' = [req EXCEPT ![r].st = "storing", ![r].key = k, ![r].body = v]
  BY DEF StartSet
<1>2. /\ UNCHANGED <<docs, backend, loaded, phase>>
      /\ RequestOK(req[r]) /\ req[r].st = "accepted" /\ req[r] \in RequestType
      /\ req \in [Requests -> RequestType] /\ req[r].kind \in {"post", "log"}
  BY <1>1 DEF StartSet, Begin, Store!Call, closing, mainVars, TypeInv, RequestsTyped
<1>3. k \in Keys /\ k # None /\ r \in Callers /\ v \in Seq(Chunks)
  <2>1. v \in Bodies \cup {<<>>}
    BY <1>2 DEF ReadableAs, RequestType
  <2> QED
    BY <2>1, ServerConstants, Constants DEF Callers
<1>4. req[r].key = None /\ req[r].code = 0
  BY <1>2 DEF RequestOK
<1>5. /\ req'[r].kind = req[r].kind /\ req'[r].code = 0 /\ req'[r].key = k
      /\ \A x \in Requests \ {r} : req'[x] = req[x]
  BY <1>1, <1>2, <1>4 DEF RequestType
<1>6. /\ calls[r].st = "idle" /\ calls'[r].st = "pending"
      /\ \A x \in Callers \ {r} : calls'[x] = calls[x]
  BY <1>1, <1>3, CallsBegin
<1>7. RequestGoes(r)
  BY <1>2, <1>4, <1>5, <1>6 DEF RequestGoes, Posted, Served
<1>8. \A x \in Requests : RequestGoes(x)
  BY <1>5, <1>7 DEF RequestGoes, Posted, Served
<1>9. CallGoes(r) /\ MainGoes
  BY <1>2, <1>3, <1>4, <1>5, <1>6, Constants DEF CallGoes, MainGoes, Alive, Callers, Posted
<1>10. \A p \in Callers : CallGoes(p)
  BY <1>6, <1>9 DEF CallGoes
<1> QED
  BY <1>2, <1>8, <1>9, <1>10 DEF Goes, KeyGoes

LEMMA FinishGoes ==
    ASSUME TypeInv, Alive, NEW r \in Requests, Store!Return(r),
           req[r].st \in {"loading", "storing"}, UNCHANGED <<backend, phase, loaded>>,
           NEW code \in {200, 404}, NEW data \in Seq(Chunks), Reply(r, code, data),
           code = 200 /\ req[r].kind = "get" => data = calls[r].val /\ data # <<>>
    PROVE  Goes
<1>1. /\ RequestOK(req[r]) /\ req[r] \in RequestType /\ r \in Callers
      /\ req \in [Requests -> RequestType]
  BY DEF TypeInv, RequestsTyped, Callers
<1>2. code \in CodeType
  BY DEF CodeType
<1>3. PICK q \in RequestType :
          /\ Becomes(r, q) /\ q.st = "answered" /\ q.code = code /\ q.data = data
          /\ q.kind = req[r].kind /\ q.id = req[r].id /\ q.key = req[r].key
          /\ q.body = req[r].body
  BY <1>1, <1>2, Answers
<1>4. req'[r] = q /\ \A x \in Requests \ {r} : req'[x] = req[x]
  BY <1>1, <1>3 DEF Becomes
<1>5. /\ calls[r].st = "done" /\ calls'[r].st = "idle" /\ UNCHANGED docs
      /\ \A x \in Callers \ {r} : calls'[x] = calls[x]
  BY <1>1, CallsReturn
<1>6. /\ calls[r].key = req[r].key
      /\ req[r].kind = "get" => req[r].st = "loading" /\ req[r].key = Lookup(req[r].id)
      /\ req[r].st = "loading" => calls[r].op = "get"
  BY <1>1, <1>5 DEF TypeInv, HandlersCall, RequestOK
<1>7. RequestGoes(r)
  BY <1>3, <1>4, <1>5, <1>6 DEF RequestGoes, Posted, Served
<1>8. \A x \in Requests : RequestGoes(x)
  BY <1>4, <1>7 DEF RequestGoes, Posted, Served
<1>9. \A p \in Callers : CallGoes(p)
  BY <1>5 DEF CallGoes
<1>10. MainGoes
  BY <1>5, Constants DEF MainGoes, Alive, Callers
<1> QED
  BY <1>5, <1>8, <1>9, <1>10 DEF Goes, KeyGoes

LEMMA FinishGetGoes ==
    ASSUME TypeInv, Alive, NEW r \in Requests, FinishGet(r)
    PROVE  Goes
<1> DEFINE nothing == <<>>
<1>1. nothing \in Seq(Chunks) /\ calls[r].val \in Seq(Chunks)
  BY FinishGetIs
<1>2. \/ Reply(r, 404, nothing)
      \/ Reply(r, 200, nothing) /\ req[r].kind = "head"
      \/ Reply(r, 200, calls[r].val) /\ calls[r].val # <<>>
  BY FinishGetIs
<1> HIDE DEF nothing
<1>3. Store!Return(r) /\ req[r].st \in {"loading", "storing"} /\ UNCHANGED <<backend, phase, loaded>>
  BY FinishGetIs
<1>4. CASE Reply(r, 404, nothing)
  BY <1>1, <1>3, <1>4, FinishGoes
<1>5. CASE Reply(r, 200, nothing) /\ req[r].kind = "head"
  BY <1>1, <1>3, <1>5, FinishGoes
<1>6. CASE Reply(r, 200, calls[r].val) /\ calls[r].val # <<>>
  BY <1>1, <1>3, <1>6, FinishGoes
<1> QED
  BY <1>2, <1>4, <1>5, <1>6

LEMMA FinishSetGoes ==
    ASSUME TypeInv, Alive, NEW r \in Requests, FinishSet(r)
    PROVE  Goes
<1> DEFINE nothing == <<>>
<1>1. nothing \in Seq(Chunks) /\ Reply(r, 200, nothing)
  BY FinishSetIs
<1> HIDE DEF nothing
<1>2. /\ Store!Return(r) /\ req[r].st \in {"loading", "storing"} /\ UNCHANGED <<backend, phase, loaded>>
      /\ req[r].kind # "get"
  BY FinishSetIs
<1> QED
  BY <1>1, <1>2, FinishGoes

LEMMA LoadDocumentGoes ==
    ASSUME TypeInv, Alive, LoadDocument
    PROVE  Goes
<1> DEFINE k == StaticDocs[loaded + 1].key
           v == StaticDocs[loaded + 1].content
<1>1. /\ UNCHANGED <<docs, backend, phase, loaded, req>>
      /\ loaded < Len(StaticDocs) /\ Begin(Main, "set", k, v)
  BY DEF LoadDocument, closing, mainVars, Begin, Store!Call
<1>2. k \in Keys /\ v \in Seq(Chunks) /\ Main \in Callers
  <2>1. loaded + 1 \in 1..Len(StaticDocs)
    BY <1>1, Constants DEF TypeInv, MainTyped
  <2> QED
    BY <2>1, Constants DEF Callers
<1> HIDE DEF k, v
<1>3. /\ calls[Main].st = "idle" /\ calls'[Main].st = "pending"
      /\ \A x \in Callers \ {Main} : calls'[x] = calls[x]
  BY <1>1, <1>2, CallsBegin
<1>4. \A p \in Callers : CallGoes(p)
  BY <1>1, <1>3, Constants DEF CallGoes
<1>5. \A r \in Requests : RequestGoes(r)
  BY <1>1 DEF RequestGoes, Posted, Served
<1> QED
  BY <1>1, <1>3, <1>4, <1>5 DEF Goes, KeyGoes, MainGoes, Alive

LEMMA DocumentLoadedGoes ==
    ASSUME TypeInv, Alive, DocumentLoaded
    PROVE  Goes
<1>1. UNCHANGED <<backend, phase, req>> /\ Store!Return(Main) /\ loaded' = loaded + 1
  BY DEF DocumentLoaded, closing
<1>2. /\ UNCHANGED docs /\ calls[Main].st = "done" /\ calls'[Main].st = "idle"
      /\ \A x \in Callers \ {Main} : calls'[x] = calls[x]
  BY <1>1, CallsReturn DEF Callers
<1>3. \A p \in Callers : CallGoes(p)
  BY <1>2 DEF CallGoes
<1>4. \A r \in Requests : RequestGoes(r)
  BY <1>1 DEF RequestGoes, Posted, Served
<1> QED
  BY <1>1, <1>2, <1>3, <1>4 DEF Goes, KeyGoes, MainGoes, Alive

LEMMA EndingGoes ==
    ASSUME TypeInv, Ending
    PROVE  Goes
<1>1. UNCHANGED <<docs, backend, loaded, req>> /\ \A p \in Callers : calls'[p] = Store!Idle
  BY EndingKeepsTypes DEF Ending, closing
<1>2. ~Alive'
  BY DEF Ending, End, Alive
<1>3. Store!Idle.st = "idle"
  BY DEF Store!Idle
<1>4. \A p \in Callers : CallGoes(p)
  BY <1>1, <1>3 DEF CallGoes
<1>5. \A r \in Requests : RequestGoes(r)
  BY <1>1 DEF RequestGoes, Posted, Served
<1> QED
  BY <1>1, <1>2, <1>4, <1>5 DEF Goes, KeyGoes, MainGoes

LEMMA LoseGoes ==
    ASSUME TypeInv, NEW k \in Keys, Lose(k)
    PROVE  Goes
<1>1. /\ UNCHANGED <<calls, backend, phase, loaded, req>> /\ StorageFails
      /\ docs' = [docs EXCEPT ![k] = <<>>]
  BY DEF Lose, Loses, closing, mainVars, Store!Vanish, Store!Nothing
<1>2. \A x \in Keys : KeyGoes(x)
  BY <1>1 DEF KeyGoes, TypeInv, StoreTyped
<1>3. \A p \in Callers : CallGoes(p)
  BY <1>1 DEF CallGoes
<1>4. \A r \in Requests : RequestGoes(r)
  BY <1>1 DEF RequestGoes, Posted, Served
<1> QED
  BY <1>1, <1>2, <1>3, <1>4 DEF Goes, MainGoes, Alive

LEMMA StoreStepGoes ==
    ASSUME TypeInv, Alive, NEW p \in Callers, StoreStep(p)
    PROVE  Goes
<1>1. UNCHANGED <<backend, loaded, phase, req>>
  BY DEF StoreStep, closing, mainVars
<1>2. PICK c \in CallType : StoreEffect(p, c)
  BY StoreSteps
<1>3. /\ calls'[p] = c /\ \A x \in Callers \ {p} : calls'[x] = calls[x]
      /\ calls[p].st # "idle" /\ c.st \in {"pending", "done"}
      /\ c.op = calls[p].op /\ c.key = calls[p].key /\ c.key \in Keys
      /\ c.st = "pending" => c = calls[p] /\ Resends
      /\ c.st = "done" /\ c.op = "get" => c.val \in {<<>>, docs[c.key]}
  BY <1>2 DEF StoreEffect, TypeInv, StoreTyped, CallType
<1>4. c.st = "pending" => UNCHANGED calls
  BY <1>2, <1>3 DEF StoreEffect, TypeInv, StoreTyped
<1>5. \A x \in Callers : CallGoes(x)
  BY <1>3 DEF CallGoes
<1>6. \A r \in Requests : RequestGoes(r)
  BY <1>1 DEF RequestGoes, Posted, Served
<1>7. MainGoes
  BY <1>1, <1>3 DEF MainGoes, Alive, Callers
<1>8. ASSUME NEW k \in Keys PROVE KeyGoes(k)
  <2>1. CASE k # c.key
    BY <1>2, <1>3, <2>1 DEF StoreEffect, KeyGoes, TypeInv, StoreTyped
  <2>2. CASE k = c.key
    <3>1. CASE UNCHANGED docs \/ (docs' = [docs EXCEPT ![c.key] = <<>>] /\ StorageFails)
      BY <2>2, <3>1 DEF KeyGoes, TypeInv, StoreTyped
    <3>2. CASE /\ calls[p].st = "pending" /\ c.op = "set"
               /\ docs' = [docs EXCEPT ![c.key] = calls[p].val]
      <4>1. docs'[k] = calls[p].val
        BY <2>2, <3>2 DEF TypeInv, StoreTyped
      <4>2. Overwrites(p, k)
        <5>1. calls'[p].st = "done" \/ (Resends /\ UNCHANGED calls)
          BY <1>3, <1>4
        <5>2. calls[p].op = "set" /\ calls[p].key = k
          BY <1>3, <2>2, <3>2
        <5> QED
          BY <1>1, <1>3, <3>2, <4>1, <5>1, <5>2 DEF Overwrites
      <4> QED
        BY <4>2 DEF KeyGoes
    <3>3. CASE /\ calls[p].st = "pending" /\ c.op = "set" /\ c.st = "done" /\ Tears
               /\ \E n \in 1..Len(calls[p].val) :
                     docs' = [docs EXCEPT ![c.key] = SubSeq(calls[p].val, 1, n)]
      <4>1. \E n \in 1..Len(calls[p].val) : docs'[k] = SubSeq(calls[p].val, 1, n)
        BY <2>2, <3>3 DEF TypeInv, StoreTyped
      <4>2. Overwrites(p, k)
        BY <1>1, <1>3, <2>2, <3>3, <4>1 DEF Overwrites
      <4> QED
        BY <4>2 DEF KeyGoes
    <3> QED
      BY <1>2, <3>1, <3>2, <3>3 DEF StoreEffect
  <2> QED
    BY <2>1, <2>2
<1> QED
  BY <1>5, <1>6, <1>7, <1>8 DEF Goes

LEMMA StepGoes == TypeInv /\ [Next]_vars => Goes
<1> SUFFICES ASSUME TypeInv, [Next]_vars PROVE Goes
  OBVIOUS
<1>1. CASE UNCHANGED vars
  BY <1>1, SameGoes DEF vars, Alive
<1>2. CASE Next
  <2>1. ASSUME Alive, Passing PROVE Goes
    BY <2>1, SameGoes DEF Passing
  <2>2. Alive \/ \E k \in Keys : Lose(k)
    BY <1>2 DEF Next
  <2>3. CASE Alive
    BY <1>2, <2>1, <2>3, StepKinds, AcceptGoes, TurningGoes, StartGetGoes, FinishGetGoes,
       StartSetGoes, FinishSetGoes, StoreStepGoes, LoadDocumentGoes, DocumentLoadedGoes,
       EndingGoes, LoseGoes
  <2> QED
    BY <2>2, <2>3, LoseGoes
<1> QED
  BY <1>1, <1>2

-----------------------------------------------------------------------------
(* The writers of a key. *)

AllWriters == Requests \cup 1..Len(StaticDocs)

LEMMA WriterIs ==
    ASSUME TypeInv, NEW k, NEW w
    PROVE  w \in Writers(k) <=>
             \/ w \in Requests /\ Posted(w) /\ req[w].key = k
             \/ w \notin Requests /\ w \in 1..Len(StaticDocs) /\ w <= loaded + 1 /\ StaticDocs[w].key = k
<1>1. Requests \cap 1..Len(StaticDocs) = {} /\ Len(StaticDocs) \in Nat
  BY ServerConstants, Constants
<1>2. loaded \in 0..Len(StaticDocs)
  BY DEF TypeInv, MainTyped
<1> QED
  BY <1>1, <1>2 DEF Writers

\* The same of the next state.
LEMMA WriterIsNext ==
    ASSUME TypeInv', NEW k, NEW w
    PROVE  w \in Writers(k)' <=>
             \/ w \in Requests /\ Posted(w)' /\ req'[w].key = k
             \/ w \notin Requests /\ w \in 1..Len(StaticDocs) /\ w <= loaded' + 1 /\ StaticDocs[w].key = k
<1>1. Requests \cap 1..Len(StaticDocs) = {} /\ Len(StaticDocs) \in Nat
  BY ServerConstants, Constants
<1>2. loaded' \in 0..Len(StaticDocs)
  BY DEF TypeInv, MainTyped
<1> QED
  BY <1>1, <1>2 DEF Writers

\* Writers stay, and what they wrote does not change.
LEMMA WritersStay ==
    ASSUME TypeInv, TypeInv', Goes, NEW k, NEW w \in Writers(k)
    PROVE  w \in Writers(k)' /\ ContentOf(w)' = ContentOf(w)
<1>1. loaded \in Nat /\ (loaded' = loaded \/ loaded' = loaded + 1)
  BY Constants DEF Goes, MainGoes, TypeInv, MainTyped
<1>2. CASE w \in Requests /\ Posted(w) /\ req[w].key = k
  <2>1. RequestGoes(w)
    BY <1>2 DEF Goes
  <2>2. /\ req'[w].key = req[w].key /\ req'[w].kind = req[w].kind /\ req'[w].body = req[w].body
    BY <1>2, <2>1 DEF RequestGoes, Posted
  <2> QED
    BY <1>2, <2>2, WriterIsNext DEF Posted, ContentOf
<1>3. CASE w \notin Requests /\ w \in 1..Len(StaticDocs) /\ w <= loaded + 1 /\ StaticDocs[w].key = k
  BY <1>1, <1>3, WriterIsNext DEF ContentOf
<1> QED
  BY <1>2, <1>3, WriterIs

\* The caller of a Set in progress is one of the writers of its key.
WriterOf(p) == IF p = Main THEN loaded + 1 ELSE p

LEMMA SetHasWriter ==
    ASSUME TypeInv, NEW p \in Callers, calls[p].st # "idle", calls[p].op = "set"
    PROVE  /\ WriterOf(p) \in Writers(calls[p].key)
           /\ p = Main => WriterOf(p) \notin Requests
           /\ ContentOf(WriterOf(p)) \in Seq(Chunks)
           /\ calls[p].st = "pending" => calls[p].val = ContentOf(WriterOf(p))
           /\ WriterOf(p) \in Requests => ~TooLong(ContentOf(WriterOf(p)))
<1>1. Alive
  BY DEF TypeInv, NobodyCalls, Store!Idle
<1>2. CASE p = Main
  <2>1. /\ loaded < Len(StaticDocs) /\ calls[p].key = StaticDocs[loaded + 1].key
        /\ calls[p].st = "pending" => calls[p].val = StaticDocs[loaded + 1].content
    BY <1>1, <1>2 DEF TypeInv, MainCalls
  <2>2. loaded + 1 \in 1..Len(StaticDocs) /\ loaded + 1 \notin Requests
    BY <2>1, Constants, ServerConstants DEF TypeInv, MainTyped
  <2>3. loaded + 1 \in Writers(calls[p].key)
    BY <2>1, <2>2, WriterIs
  <2> QED
    BY <1>2, <2>1, <2>2, <2>3, Constants DEF WriterOf, ContentOf
<1>3. CASE p # Main
  <2>1. p \in Requests
    BY <1>3 DEF Callers
  <2>2. /\ req[p].st = "storing" /\ calls[p].key = req[p].key
        /\ calls[p].st = "pending" => calls[p].val = req[p].body
    BY <1>1, <2>1 DEF TypeInv, HandlersCall
  <2>3. RequestOK(req[p])
    BY <2>1 DEF TypeInv, RequestsTyped
  <2>4. Posted(p) /\ ~TooLong(req[p].body) /\ req[p].body \in Bodies \cup {<<>>}
    BY <2>2, <2>3 DEF RequestOK, Posted, RequestType
  <2>5. p \in Writers(calls[p].key)
    BY <2>1, <2>2, <2>4, WriterIs
  <2> QED
    BY <1>3, <2>1, <2>2, <2>4, <2>5, Constants DEF WriterOf, ContentOf
<1> QED
  BY <1>2, <1>3

LEMMA ContentTyped ==
    ASSUME TypeInv, NEW k, NEW w \in Writers(k)
    PROVE  ContentOf(w) \in Seq(Chunks)
<1>1. CASE w \in Requests
  <2>1. req[w].body \in Bodies \cup {<<>>}
    BY <1>1 DEF TypeInv, RequestsTyped, RequestOK, RequestType
  <2> QED
    BY <1>1, <2>1, Constants DEF ContentOf
<1>2. CASE w \notin Requests
  BY <1>2, WriterIs, Constants DEF ContentOf
<1> QED
  BY <1>1, <1>2

LEMMA WritersAreFinite ==
    ASSUME TypeInv, NEW k
    PROVE  IsFiniteSet(Writers(k))
<1>1. Writers(k) \subseteq Requests \cup 1..Len(StaticDocs)
  BY WriterIs
<1>2. IsFiniteSet(Requests) /\ IsFiniteSet(1..Len(StaticDocs))
  BY Constants, FS_Interval
<1> QED
  BY <1>1, <1>2, FS_Union, FS_Subset

-----------------------------------------------------------------------------
(* What is stored and shown has been written. *)

LEMMA Pieces ==
    ASSUME NEW s \in Seq(Chunks)
    PROVE  /\ s # <<>> => PieceOf(s, s)
           /\ StorageFails => \A n \in 1..Len(s) : PieceOf(SubSeq(s, 1, n), s)
<1>1. SubSeq(s, 1, Len(s)) = s /\ Len(s) \in Nat /\ (s # <<>> => Len(s) # 0)
  BY SubSeqFull
<1>2. s # <<>> => Len(s) \in 1..Len(s)
  BY <1>1
<1> QED
  BY <1>1, <1>2 DEF PieceOf

LEMMA WrittenStays ==
    ASSUME TypeInv, TypeInv', Goes, NEW k, NEW v, Written(k, v), v # <<>>
    PROVE  \E w \in Writers(k)' : /\ w \in Requests => ~TooLong(ContentOf(w)')
                                  /\ PieceOf(v, ContentOf(w)')
<1>1. PICK w \in Writers(k) : (w \in Requests => ~TooLong(ContentOf(w))) /\ PieceOf(v, ContentOf(w))
  BY DEF Written
<1>2. w \in Writers(k)' /\ ContentOf(w)' = ContentOf(w)
  BY <1>1, WritersStay
<1> QED
  BY <1>1, <1>2

LEMMA OverwritesWrites ==
    ASSUME TypeInv, NEW k, NEW p \in Callers, Overwrites(p, k)
    PROVE  Written(k, docs'[k])
<1> SUFFICES ASSUME docs'[k] # <<>> PROVE Written(k, docs'[k])
  BY DEF Written
<1>1. calls[p].st = "pending" /\ calls[p].op = "set" /\ calls[p].key = k
  BY DEF Overwrites
<1> DEFINE w == WriterOf(p)
           s == ContentOf(w)
<1>2. /\ w \in Writers(k) /\ s \in Seq(Chunks) /\ calls[p].val = s
      /\ w \in Requests => ~TooLong(s)
  BY <1>1, SetHasWriter
<1>3. CASE docs'[k] = calls[p].val
  BY <1>2, <1>3, Pieces DEF Written
<1>4. CASE Tears /\ \E n \in 1..Len(calls[p].val) : docs'[k] = SubSeq(calls[p].val, 1, n)
  BY <1>2, <1>4, Pieces DEF Written, Tears
<1> QED
  BY <1>3, <1>4 DEF Overwrites

LEMMA GoesKeepsWritten ==
    ASSUME TypeInv, TypeInv', Goes, WrittenInv
    PROVE  WrittenInv'
<1>1. ASSUME NEW k \in Keys PROVE Written(k, docs[k])'
  <2> SUFFICES ASSUME docs'[k] # <<>> PROVE Written(k, docs[k])'
    BY DEF Written
  <2>1. Written(k, docs'[k])
    <3>1. CASE docs'[k] = docs[k]
      BY <3>1 DEF WrittenInv
    <3>2. CASE \E p \in Callers : Overwrites(p, k)
      BY <3>2, OverwritesWrites
    <3> QED
      BY <3>1, <3>2 DEF Goes, KeyGoes
  <2> QED
    BY <2>1, WrittenStays DEF Written
<1>2. ASSUME NEW r \in Requests, calls'[r].st = "done", calls'[r].op = "get"
      PROVE  Written(calls[r].key, calls[r].val)'
  <2> SUFFICES ASSUME calls'[r].val # <<>> PROVE Written(calls[r].key, calls[r].val)'
    BY DEF Written
  <2>1. Written(calls'[r].key, calls'[r].val)
    <3>1. CallGoes(r)
      BY DEF Goes, Callers
    <3>2. CASE calls'[r] = calls[r]
      BY <1>2, <3>2 DEF WrittenInv
    <3>3. CASE calls[r].st # "idle" /\ calls'[r].key = calls[r].key /\ calls'[r].val = docs[calls[r].key]
      <4>1. calls[r].key \in Keys
        BY <3>3 DEF TypeInv, StoreTyped, Callers
      <4> QED
        BY <3>3, <4>1 DEF WrittenInv
    <3> QED
      BY <1>2, <3>1, <3>2, <3>3 DEF CallGoes
  <2> QED
    BY <2>1, WrittenStays DEF Written
<1>3. ASSUME NEW r \in Requests, Served(r)'
      PROVE  req'[r].data # <<>> /\ Written(Lookup(req[r].id), req[r].data)'
  <2>1. req'[r].data # <<>> /\ Written(Lookup(req'[r].id), req'[r].data)
    <3>1. RequestGoes(r)
      BY DEF Goes
    <3>2. CASE Served(r) /\ req'[r].id = req[r].id /\ req'[r].data = req[r].data
      BY <3>2 DEF WrittenInv
    <3>3. CASE /\ calls[r].st = "done" /\ calls[r].op = "get" /\ calls[r].key = Lookup(req'[r].id)
               /\ req'[r].data = calls[r].val /\ calls[r].val # <<>>
      BY <3>3 DEF WrittenInv
    <3> QED
      BY <1>3, <3>1, <3>2, <3>3 DEF RequestGoes
  <2> QED
    BY <2>1, WrittenStays DEF Written
<1> QED
  BY <1>1, <1>2, <1>3 DEF WrittenInv

LEMMA InitWritten == Init => WrittenInv
<1> SUFFICES ASSUME Init PROVE WrittenInv
  OBVIOUS
<1>1. /\ docs = [k \in Keys |-> <<>>] /\ calls = [p \in Callers |-> Store!Idle]
      /\ req = [r \in Requests |-> NewRequest]
  BY DEF Init, Store!Init, Store!Nothing
<1>2. \A r \in Requests : calls[r].st = "idle" /\ ~Served(r)
  BY <1>1 DEF Callers, Store!Idle, NewRequest, Served
<1> QED
  BY <1>1, <1>2 DEF WrittenInv, Written

\* Whatever the storage does, a client is shown a paste within the limit that
\* was posted under the key of its id, or that key's document, or a torn piece
\* of it; and the whole of it if the storage is healthy.
THEOREM ShownWasPosted == Spec => []ReadsComeFromPosts
<1>1. WrittenInv => ReadsComeFromPosts
  BY DEF WrittenInv, ReadsComeFromPosts, Written, PieceOf
<1>2. TypeInv /\ WrittenInv /\ [Next]_vars => TypeInv' /\ WrittenInv'
  BY NextKeepsTypes, StepGoes, GoesKeepsWritten
<1> QED
  BY <1>1, <1>2, InitTypes, InitWritten, PTL DEF Spec

-----------------------------------------------------------------------------
(* Of a key with one writer one text is seen. *)

SeenAs(v, k) ==
    /\ v # <<>>
    /\ \/ v = docs[k]
       \/ \E r \in Requests : /\ calls[r].st = "done" /\ calls[r].op = "get" /\ calls[r].key = k
                              /\ calls[r].val = v
       \/ \E r \in Requests : Served(r) /\ Lookup(req[r].id) = k /\ req[r].data = v

LEMMA SeenIs ==
    ASSUME NEW k, NEW v
    PROVE  /\ v \in Seen(k) <=> SeenAs(v, k)
           /\ v \in Seen(k)' <=> SeenAs(v, k)'
BY DEF Seen, SeenAs

LEMMA SeenGoes ==
    ASSUME TypeInv, Goes, NEW k \in Keys
    PROVE  \/ Seen(k)' \subseteq Seen(k)
           \/ \E p \in Callers : Overwrites(p, k) /\ Seen(k)' \subseteq Seen(k) \cup {docs'[k]}
<1>1. ASSUME NEW v \in Seen(k)', v # docs'[k] PROVE v \in Seen(k)
  <2>1. SeenAs(v, k)'
    BY SeenIs
  <2>2. CASE \E r \in Requests : /\ calls'[r].st = "done" /\ calls'[r].op = "get" /\ calls'[r].key = k
                                 /\ calls'[r].val = v
    <3>1. PICK r \in Requests : /\ calls'[r].st = "done" /\ calls'[r].op = "get" /\ calls'[r].key = k
                                /\ calls'[r].val = v
      BY <2>2
    <3>2. CallGoes(r)
      BY DEF Goes, Callers
    <3>3. calls'[r] = calls[r] \/ docs[k] = v
      BY <2>1, <3>1, <3>2 DEF CallGoes, SeenAs
    <3>4. SeenAs(v, k)
      BY <2>1, <3>1, <3>3 DEF SeenAs
    <3> QED
      BY <3>4, SeenIs
  <2>3. CASE \E r \in Requests : Served(r)' /\ Lookup(req'[r].id) = k /\ req'[r].data = v
    <3>1. PICK r \in Requests : Served(r)' /\ Lookup(req'[r].id) = k /\ req'[r].data = v
      BY <2>3
    <3>2. RequestGoes(r)
      BY DEF Goes
    <3>3. SeenAs(v, k)
      BY <2>1, <3>1, <3>2 DEF RequestGoes, SeenAs
    <3> QED
      BY <3>3, SeenIs
  <2> QED
    BY <1>1, <2>1, <2>2, <2>3 DEF SeenAs
<1>2. CASE docs'[k] = docs[k]
  <2>1. ASSUME NEW v \in Seen(k)', v = docs'[k] PROVE v \in Seen(k)
    BY <1>2, <2>1, SeenIs DEF SeenAs
  <2> QED
    BY <1>1, <2>1
<1>3. CASE docs'[k] = <<>>
  <2>1. docs'[k] \notin Seen(k)'
    BY <1>3, SeenIs DEF SeenAs
  <2> QED
    BY <1>1, <2>1
<1>4. CASE \E p \in Callers : Overwrites(p, k)
  BY <1>1, <1>4
<1> QED
  BY <1>2, <1>3, <1>4 DEF Goes, KeyGoes

LEMMA NothingSeen ==
    ASSUME WrittenInv, NEW k \in Keys, Writers(k) = {}
    PROVE  Seen(k) = {}
<1>1. \A v : Written(k, v) => v = <<>>
  BY DEF Written
<1>2. ASSUME NEW v, SeenAs(v, k) PROVE FALSE
  BY <1>1, <1>2 DEF SeenAs, WrittenInv
<1> QED
  BY <1>2, SeenIs

LEMMA OneSetter ==
    ASSUME TypeInv, NEW k, NEW w, Writers(k) = {w}, NEW p \in Callers,
           calls[p].st # "idle", calls[p].op = "set", calls[p].key = k
    PROVE  /\ WriterOf(p) = w
           /\ \A q \in Callers : calls[q].st # "idle" /\ calls[q].op = "set" /\ calls[q].key = k => q = p
<1>1. WriterOf(p) = w /\ (p = Main => w \notin Requests)
  BY SetHasWriter
<1>2. ASSUME NEW q \in Callers, calls[q].st # "idle", calls[q].op = "set", calls[q].key = k
      PROVE  q = p
  <2>1. WriterOf(q) = w /\ (q = Main => w \notin Requests)
    BY <1>2, SetHasWriter
  <2> QED
    BY <1>1, <2>1 DEF WriterOf, Callers
<1> QED
  BY <1>1, <1>2

LEMMA NewWriterAgrees ==
    ASSUME TypeInv, Goes, WrittenInv, NEW k \in Keys, NEW w, Writers(k) = {}
    PROVE  Agreed(k, w)'
<1>1. Seen(k) = {}
  BY NothingSeen
<1>2. ~\E p \in Callers : Overwrites(p, k)
  BY SetHasWriter DEF Overwrites
<1>3. Seen(k)' = {}
  BY <1>1, <1>2, SeenGoes
<1> QED
  BY <1>3 DEF Agreed

\* A Set in progress on the key of one writer has either been so before, or has
\* just begun, by the main goroutine.
LEMMA OldSet ==
    ASSUME TypeInv, TypeInv', Goes, NEW k \in Keys, NEW w, Writers(k) = {w}, Writers(k)' = {w},
           NEW p \in Callers,
           calls'[p].st = "pending", calls'[p].op = "set", calls'[p].key = k
    PROVE  \/ calls'[p] = calls[p]
           \/ /\ p = Main /\ Alive /\ phase = "loading" /\ calls[Main].st = "idle"
              /\ w \notin Requests /\ w = loaded + 1
<1>1. CallGoes(p)
  BY DEF Goes
<1>2. CASE calls[p].st = "idle" /\ p \in Requests
  <2>1. ~Posted(p) /\ Posted(p)'
    BY <1>1, <1>2 DEF CallGoes
  <2>2. req'[p].key = k
    BY <1>2 DEF TypeInv, HandlersCall, NobodyCalls, Store!Idle
  <2>3. p \in Writers(k)' /\ p \notin Writers(k)
    BY <1>2, <2>1, <2>2, WriterIs, WriterIsNext
  <2> QED
    BY <2>3
<1>3. CASE calls[p].st = "idle" /\ p = Main
  <2>1. UNCHANGED loaded
    BY <1>1, <1>3 DEF CallGoes
  <2>2. Alive' /\ phase' = "loading" /\ loaded < Len(StaticDocs) /\ StaticDocs[loaded + 1].key = k
    BY <1>3, <2>1 DEF TypeInv, MainCalls, NobodyCalls, Store!Idle, Callers
  <2>3. Alive /\ phase = "loading"
    BY <2>2 DEF Goes, MainGoes
  <2>4. loaded + 1 \in 1..Len(StaticDocs) /\ loaded + 1 \notin Requests
    BY <2>2, Constants, ServerConstants DEF TypeInv, MainTyped
  <2>5. loaded + 1 \in Writers(k)
    BY <2>2, <2>4, WriterIs
  <2> QED
    BY <1>3, <2>3, <2>4, <2>5
<1> QED
  BY <1>1, <1>2, <1>3 DEF CallGoes, Callers

LEMMA OldWriterAgrees ==
    ASSUME TypeInv, TypeInv', Goes, NEW k \in Keys, NEW w, Writers(k) = {w}, Writers(k)' = {w},
           Agreed(k, w)
    PROVE  Agreed(k, w)'
<1>0. Tears => ~Resends
  BY DEF Tears, Resends
<1>a. Resends' = Resends
  BY DEF Resends, Goes, MainGoes
<1>1. ASSUME Alive', phase' = "loading", w \notin Requests, w = loaded' + 1, calls'[Main].st = "idle"
      PROVE  Alive /\ phase = "loading" /\ w = loaded + 1 /\ calls[Main].st = "idle"
  <2>1. loaded' # loaded + 1
    <3>1. SUFFICES ASSUME loaded' = loaded + 1 PROVE FALSE
      OBVIOUS
    <3>2. w \in Writers(k) /\ w = loaded + 2 /\ loaded \in Nat
      BY <1>1, <3>1, Constants DEF TypeInv, MainTyped
    <3> QED
      BY <1>1, <3>2, WriterIs
  <2> QED
    BY <1>1, <2>1 DEF Goes, MainGoes
<1>2. CASE Seen(k)' \subseteq Seen(k)
  <2>1. \A u, v \in Seen(k)' : u = v
    BY <1>2 DEF Agreed
  <2>2. ASSUME NEW p \in Callers, calls'[p].st = "pending", calls'[p].op = "set", calls'[p].key = k
        PROVE  IF Resends THEN Seen(k)' \subseteq {calls'[p].val} ELSE Seen(k)' = {}
    BY <1>2, <2>2, OldSet DEF Agreed
  <2>3. Alive' /\ phase' = "loading" /\ w \notin Requests /\ w = loaded' + 1 /\ calls'[Main].st = "idle" => Seen(k)' = {}
    BY <1>1, <1>2 DEF Agreed
  <2> QED
    BY <1>a, <2>1, <2>2, <2>3 DEF Agreed
<1>3. ASSUME NEW p \in Callers, Overwrites(p, k), Seen(k)' \subseteq Seen(k) \cup {docs'[k]}
      PROVE  Agreed(k, w)'
  <2>1. calls[p].st = "pending" /\ calls[p].op = "set" /\ calls[p].key = k
    BY <1>3 DEF Overwrites
  <2>2. Seen(k)' \subseteq {docs'[k]} /\ (Resends => docs'[k] = calls[p].val)
    BY <1>0, <1>3, <2>1 DEF Agreed, Overwrites
  <2>3. ASSUME NEW q \in Callers, calls'[q].st = "pending", calls'[q].op = "set", calls'[q].key = k
        PROVE  IF Resends THEN Seen(k)' \subseteq {calls'[q].val} ELSE Seen(k)' = {}
    <3>1. CASE calls'[q] = calls[q]
      <4>1. q = p
        BY <2>1, <2>3, <3>1, OneSetter
      <4>2. Resends /\ calls'[q].val = calls[p].val
        BY <1>3, <2>3, <3>1, <4>1 DEF Overwrites
      <4> QED
        BY <2>2, <4>2
    <3>2. CASE q = Main /\ calls[Main].st = "idle"
      <4>1. q # p
        BY <2>1, <3>2
      <4>2. calls'[q] = calls[q]
        BY <1>3, <4>1 DEF Overwrites
      <4> QED
        BY <2>3, <3>2, <4>2
    <3> QED
      BY <2>3, <3>1, <3>2, OldSet
  <2>4. ~(Alive' /\ phase' = "loading" /\ w \notin Requests /\ w = loaded' + 1 /\ calls'[Main].st = "idle")
    <3>1. SUFFICES ASSUME Alive', phase' = "loading", w \notin Requests, w = loaded' + 1, calls'[Main].st = "idle"
                   PROVE  FALSE
      OBVIOUS
    <3>2. w = loaded + 1 /\ calls[Main].st = "idle"
      BY <1>1, <3>1
    <3>3. WriterOf(p) = w /\ p # Main
      BY <2>1, <3>2, OneSetter
    <3> QED
      BY <3>1, <3>3 DEF WriterOf, Callers
  <2> QED
    BY <1>a, <2>2, <2>3, <2>4 DEF Agreed
<1> QED
  BY <1>2, <1>3, SeenGoes

LEMMA GoesKeepsAgree ==
    ASSUME TypeInv, TypeInv', Goes, WrittenInv, AgreeInv
    PROVE  AgreeInv'
<1> SUFFICES ASSUME NEW k \in Keys, NEW w \in Requests \cup 1..Len(StaticDocs), Writers(k)' = {w}
             PROVE  Agreed(k, w)'
  BY DEF AgreeInv
<1>1. Writers(k) \subseteq {w}
  BY WritersStay
<1>2. CASE Writers(k) = {}
  BY <1>2, NewWriterAgrees
<1>3. CASE Writers(k) = {w}
  BY <1>3, OldWriterAgrees DEF AgreeInv
<1> QED
  BY <1>1, <1>2, <1>3

LEMMA InitAgrees == Init => AgreeInv
<1> SUFFICES ASSUME Init, NEW k \in Keys, NEW w PROVE Agreed(k, w)
  BY DEF AgreeInv
<1>1. /\ docs = [x \in Keys |-> <<>>] /\ calls = [p \in Callers |-> Store!Idle]
      /\ req = [r \in Requests |-> NewRequest]
  BY DEF Init, Store!Init, Store!Nothing
<1>2. \A r \in Requests : calls[r].st = "idle" /\ ~Served(r)
  BY <1>1 DEF Callers, Store!Idle, NewRequest, Served
<1>3. Seen(k) = {}
  BY <1>1, <1>2, SeenIs DEF SeenAs
<1> QED
  BY <1>3 DEF Agreed

LEMMA ServedIsSeen ==
    ASSUME WrittenInv, NEW r \in Requests, Served(r)
    PROVE  req[r].data \in Seen(Lookup(req[r].id))
<1>1. req[r].data # <<>>
  BY DEF WrittenInv
<1>2. SeenAs(req[r].data, Lookup(req[r].id))
  BY <1>1 DEF SeenAs
<1> QED
  BY <1>2, SeenIs

\* Two clients that ask for a key with one writer are shown the same text,
\* whatever the storage does to it in between.
THEOREM PastesDoNotChange == Spec => []ReadsAgree
<1>1. TypeInv /\ WrittenInv /\ AgreeInv => ReadsAgree
  <2> SUFFICES ASSUME TypeInv, WrittenInv, AgreeInv, NEW r1 \in Requests, NEW r2 \in Requests,
                      Served(r1), Served(r2), Lookup(req[r1].id) = Lookup(req[r2].id),
                      Cardinality(Writers(Lookup(req[r1].id))) = 1
               PROVE  req[r1].data = req[r2].data
    BY DEF ReadsAgree
  <2> DEFINE k == Lookup(req[r1].id)
  <2>1. k \in Keys
    <3>1. RequestOK(req[r1])
      BY DEF TypeInv, RequestsTyped
    <3>2. req[r1].id \in Ids
      BY <3>1 DEF RequestOK, Served
    <3> QED
      BY <3>2, ServerConstants
  <2>2. PICK w : Writers(k) = {w}
    <3>1. IsFiniteSet(Writers(k))
      BY WritersAreFinite
    <3> QED
      BY <3>1, FS_Singleton
  <2>3. w \in Requests \cup 1..Len(StaticDocs)
    BY <2>2, WriterIs
  <2>4. Agreed(k, w)
    BY <2>1, <2>2, <2>3 DEF AgreeInv
  <2>5. req[r1].data \in Seen(k) /\ req[r2].data \in Seen(k)
    BY ServedIsSeen
  <2> QED
    BY <2>4, <2>5 DEF Agreed
<1>2. TypeInv /\ WrittenInv /\ AgreeInv /\ [Next]_vars => TypeInv' /\ WrittenInv' /\ AgreeInv'
  BY NextKeepsTypes, StepGoes, GoesKeepsWritten, GoesKeepsAgree
<1> QED
  BY <1>1, <1>2, InitTypes, InitWritten, InitAgrees, PTL DEF Spec

-----------------------------------------------------------------------------
(* A healthy storage that is open keeps what it has taken. *)

\* A call that comes to its end has read, or has stored its text.
WentWell(p) ==
    calls'[p].st = "done" =>
        \/ calls'[p] = calls[p]
        \/ /\ calls[p].st = "pending"
           /\ calls[p].op = "set" => ~calls'[p].err /\ docs'[calls[p].key] = calls[p].val

AllWell == storeOpen /\ late' = {} /\ \A p \in Callers : WentWell(p)

LEMMA OthersWell ==
    ASSUME storeOpen, late' = {},
           \A p \in Callers : calls'[p] = calls[p] \/ calls'[p].st # "done"
    PROVE  AllWell
BY DEF AllWell, WentWell

LEMMA StoreStepWell ==
    ASSUME TypeInv, NEW p \in Callers, StoreStep(p), ~StorageFails, storeOpen', late = {}
    PROVE  AllWell
<1>1. storeOpen /\ late' = {}
  BY DEF StoreStep, closing
<1>2. Reachable(p) /\ ~MayFail /\ ~Tears /\ ~Loses /\ ~Resends
  BY <1>1 DEF Reachable, MayFail, Tears, Loses, Resends
<1>3. ~StoreFails(p)
  BY <1>2 DEF StoreFails
<1>4. StoreWorks(p)
  BY <1>3 DEF StoreStep
<1>5. /\ calls[p] \in CallType /\ calls \in [Callers -> CallType] /\ docs \in [Keys -> Seq(Chunks)]
      /\ calls[p].st # "idle" => calls[p].key \in Keys
  BY DEF TypeInv, StoreTyped
<1>6. CASE Store!Read(p)
  <2>1. calls[p].st = "pending" /\ calls[p].op = "get"
    BY <1>6 DEF Store!Read, Store!Pending
  <2>2. \A x \in Callers \ {p} : calls'[x] = calls[x]
    BY <1>5, <1>6 DEF Store!Read, Store!Done
  <2> QED
    BY <1>1, <2>1, <2>2 DEF AllWell, WentWell
<1>7. CASE Store!Apply(p) /\ (calls'[p].err => MayFail) /\ (calls'[p].st = "pending" => Resends)
  <2>1. calls[p].st = "pending" /\ calls[p].op = "set" /\ calls[p].key \in Keys
    BY <1>5, <1>7 DEF Store!Apply, Store!Pending
  <2>2. docs'[calls[p].key] = calls[p].val
    BY <1>5, <1>7, <2>1 DEF Store!Apply, Store!Write
  <2>3. \A x \in Callers \ {p} : calls'[x] = calls[x]
    BY <1>5, <1>7 DEF Store!Apply, Store!Done
  <2>4. WentWell(p)
    BY <1>2, <1>7, <2>1, <2>2 DEF WentWell
  <2> QED
    BY <1>1, <2>3, <2>4 DEF AllWell, WentWell
<1> QED
  BY <1>4, <1>6, <1>7 DEF StoreWorks

LEMMA BeginWell ==
    ASSUME TypeInv, NEW p \in Callers, NEW op \in {"get", "set"}, NEW k \in Keys,
           NEW v \in Seq(Chunks), Begin(p, op, k, v), UNCHANGED storeOpen, storeOpen', late = {}
    PROVE  AllWell
<1>1. late' = {} /\ storeOpen
  BY DEF Begin
<1>2. calls'[p].st = "pending" /\ \A x \in Callers \ {p} : calls'[x] = calls[x]
  BY CallsBegin
<1> QED
  BY <1>1, <1>2, OthersWell

LEMMA ReturnWell ==
    ASSUME TypeInv, NEW p \in Callers, Store!Return(p), UNCHANGED <<storeOpen, late>>,
           storeOpen', late = {}
    PROVE  AllWell
<1>1. calls'[p].st = "idle" /\ \A x \in Callers \ {p} : calls'[x] = calls[x]
  BY CallsReturn
<1> QED
  BY <1>1, OthersWell

LEMMA SameCallsWell ==
    ASSUME UNCHANGED <<calls, late>>, storeOpen' \in {storeOpen, FALSE}, storeOpen', late = {}
    PROVE  AllWell
BY OthersWell

LEMMA StepWell ==
    ASSUME TypeInv, [Next]_vars, ~StorageFails, storeOpen', late = {}
    PROVE  AllWell
<1>1. CASE UNCHANGED vars
  BY <1>1, SameCallsWell DEF vars
<1>2. ASSUME NEW r \in Requests, Accept(r) \/ Turning(r) PROVE AllWell
  BY <1>2, SameCallsWell
     DEF Accept, Turning, Limit, ServePage, RejectBody, storeVars, closing
<1>3. ASSUME NEW r \in Requests, StartGet(r) PROVE AllWell
  <2> DEFINE k == Lookup(req[r].id)
             nothing == <<>>
  <2>1. RequestOK(req[r]) /\ req[r].st = "accepted" /\ req[r].kind \in {"get", "head"}
    BY <1>3 DEF StartGet, TypeInv, RequestsTyped
  <2>2. k \in Keys /\ r \in Callers /\ nothing \in Seq(Chunks)
    BY <2>1, ServerConstants DEF RequestOK, Callers
  <2>3. Begin(r, "get", k, nothing) /\ UNCHANGED storeOpen
    BY <1>3 DEF StartGet, closing
  <2> HIDE DEF k, nothing
  <2> QED
    BY <2>2, <2>3, BeginWell
<1>4. ASSUME NEW r \in Requests, StartSet(r) PROVE AllWell
  <2>1. PICK v \in ReadableAs(r), k \in GeneratedKeys : Begin(r, "set", k, v)
    BY <1>4 DEF StartSet
  <2>2. k \in Keys /\ r \in Callers /\ v \in Seq(Chunks) /\ UNCHANGED storeOpen
    <3>1. v \in Bodies \cup {<<>>}
      BY <2>1 DEF ReadableAs, TypeInv, RequestsTyped, RequestType
    <3> QED
      BY <1>4, <3>1, ServerConstants, Constants DEF Callers, StartSet, closing
  <2> QED
    BY <2>1, <2>2, BeginWell
<1>5. ASSUME NEW r \in Requests, FinishGet(r) \/ FinishSet(r) PROVE AllWell
  BY <1>5, FinishGetIs, FinishSetIs, ReturnWell DEF Callers
<1>6. ASSUME LoadDocument PROVE AllWell
  <2> DEFINE k == StaticDocs[loaded + 1].key
             v == StaticDocs[loaded + 1].content
  <2>1. loaded < Len(StaticDocs) /\ Begin(Main, "set", k, v) /\ UNCHANGED storeOpen
    BY <1>6 DEF LoadDocument, closing
  <2>2. loaded + 1 \in 1..Len(StaticDocs)
    BY <2>1, Constants DEF TypeInv, MainTyped
  <2>3. k \in Keys /\ v \in Seq(Chunks) /\ Main \in Callers
    BY <2>2, Constants DEF Callers
  <2> HIDE DEF k, v
  <2> QED
    BY <2>1, <2>3, BeginWell
<1>7. ASSUME DocumentLoaded PROVE AllWell
  BY <1>7, ReturnWell DEF DocumentLoaded, closing, Callers
<1>8. ASSUME Ending PROVE AllWell
  <2>1. \A p \in Callers : calls'[p].st = "idle"
    BY <1>8, EndingKeepsTypes DEF Store!Idle
  <2>2. late' = {} /\ storeOpen
    BY <1>8 DEF Ending, End, closing
  <2> QED
    BY <2>1, <2>2, OthersWell
<1>9. ASSUME Passing PROVE AllWell
  BY <1>9, SameCallsWell DEF Passing
<1>10. ASSUME NEW k \in Keys, Lose(k) PROVE AllWell
  BY <1>10 DEF Lose, Loses
<1> QED
  BY <1>1, <1>2, <1>3, <1>4, <1>5, <1>6, <1>7, <1>8, <1>9, <1>10, StoreStepWell, StepKinds

LEMMA OpenWasOpen ==
    ASSUME TypeInv, [Next]_vars, storeOpen'
    PROVE  storeOpen
<1>1. CASE UNCHANGED vars
  BY <1>1 DEF vars
<1>2. ASSUME NEW r \in Requests, Accept(r) \/ Turning(r) \/ StartGet(r) \/ StartSet(r)
                                     \/ FinishGet(r) \/ FinishSet(r)
      PROVE  storeOpen
  BY <1>2 DEF Accept, Turning, Limit, ServePage, RejectBody, StartGet, StartSet, FinishGet, FinishSet,
              closing
<1>3. CASE LoadDocument \/ DocumentLoaded \/ Ending \/ Passing
  BY <1>3 DEF LoadDocument, DocumentLoaded, Ending, Passing, closing
<1>4. CASE (\E p \in Callers : StoreStep(p)) \/ (\E k \in Keys : Lose(k))
  BY <1>4 DEF StoreStep, Lose, closing
<1> QED
  BY <1>1, <1>2, <1>3, <1>4, StepKinds

LEMMA NewWriterIsNotStored ==
    ASSUME TypeInv, TypeInv', Goes, NEW k, NEW w, Writers(k) = {}, w \in Writers(k)'
    PROVE  ~Stored(w)'
<1>1. CASE w \in Requests
  <2>1. Posted(w)' /\ req'[w].key = k
    BY <1>1, WriterIsNext
  <2>2. RequestGoes(w)
    BY <1>1 DEF Goes
  <2>3. ~Posted(w)
    <3>1. SUFFICES ASSUME Posted(w) PROVE FALSE
      OBVIOUS
    <3>2. req[w].key = k
      BY <2>1, <2>2, <3>1 DEF RequestGoes, Posted
    <3> QED
      BY <1>1, <3>1, <3>2, WriterIs
  <2>4. calls'[w].st = "pending" /\ req'[w].code = 0
    BY <2>1, <2>2, <2>3 DEF RequestGoes
  <2> QED
    BY <1>1, <2>4 DEF Stored
<1>2. CASE w \notin Requests
  <2>1. w \in 1..Len(StaticDocs) /\ w <= loaded' + 1 /\ StaticDocs[w].key = k
    BY <1>2, WriterIsNext
  <2>2. ~(w <= loaded + 1)
    BY <1>2, <2>1, WriterIs
  <2>3. loaded \in Nat /\ Len(StaticDocs) \in Nat
    BY Constants DEF TypeInv, MainTyped
  <2>4. loaded' = loaded + 1 /\ calls'[Main].st = "idle"
    BY <2>1, <2>2, <2>3 DEF Goes, MainGoes
  <2>5. ~(w <= loaded')
    BY <2>1, <2>2, <2>3, <2>4
  <2> QED
    BY <1>2, <2>4, <2>5 DEF Stored
<1> QED
  BY <1>1, <1>2

\* What is stored stays: whoever writes the key has its one writer's text.
LEMMA StoredStays ==
    ASSUME TypeInv, Goes, ~StorageFails, NEW k \in Keys, NEW w, Writers(k) = {w},
           docs[k] = ContentOf(w)
    PROVE  docs'[k] = ContentOf(w)
<1>1. CASE \E p \in Callers : Overwrites(p, k)
  <2>1. PICK p \in Callers : Overwrites(p, k)
    BY <1>1
  <2>2. calls[p].st = "pending" /\ calls[p].op = "set" /\ calls[p].key = k
        /\ docs'[k] = calls[p].val
    BY <2>1 DEF Overwrites, Tears
  <2>3. WriterOf(p) = w
    <3>1. calls[p].st # "idle"
      BY <2>2
    <3>2. WriterOf(p) \in Writers(k)
      BY <2>2, <3>1, SetHasWriter
    <3> QED
      BY <3>2
  <2> QED
    BY <2>2, <2>3, SetHasWriter
<1> QED
  BY <1>1 DEF Goes, KeyGoes

\* ... and what a Set has just stored is there.
LEMMA NowStored ==
    ASSUME TypeInv, Goes, AllWell, NEW k, NEW w, Writers(k) = {w}, ~Stored(w), Stored(w)'
    PROVE  docs'[k] = ContentOf(w)
<1>1. w \in Writers(k)
  OBVIOUS
<1>2. CASE w \in Requests
  <2>1. Posted(w) /\ req[w].key = k /\ RequestGoes(w) /\ w \in Callers
    BY <1>1, <1>2, WriterIs DEF Goes, Callers
  <2>2. req[w].code # 200 /\ calls[w].st # "done"
    BY <1>2 DEF Stored
  <2>3. Posted(w)'
    BY <2>1 DEF RequestGoes, Posted
  <2>4. calls'[w].st = "done"
    BY <1>2, <2>1, <2>2, <2>3 DEF RequestGoes, Stored
  <2>5. calls[w].st = "pending" /\ (calls[w].op = "set" => docs'[calls[w].key] = calls[w].val)
    BY <2>1, <2>2, <2>4 DEF AllWell, WentWell
  <2>6. Alive
    BY <2>1, <2>5 DEF TypeInv, NobodyCalls, Store!Idle
  <2>7. RequestOK(req[w])
    BY <1>2 DEF TypeInv, RequestsTyped
  <2>8. calls[w].op = "set" /\ calls[w].key = k /\ calls[w].val = req[w].body
    BY <1>2, <2>1, <2>5, <2>6, <2>7 DEF TypeInv, HandlersCall, RequestOK, Posted
  <2> QED
    BY <1>2, <2>5, <2>8 DEF ContentOf
<1>3. CASE w \notin Requests
  <2>1. w \in 1..Len(StaticDocs) /\ w <= loaded + 1 /\ StaticDocs[w].key = k
    BY <1>1, <1>3, WriterIs
  <2>2. ~(w <= loaded) /\ calls[Main].st # "done"
    BY <1>3 DEF Stored
  <2>3. loaded \in Nat /\ Len(StaticDocs) \in Nat
    BY Constants DEF TypeInv, MainTyped
  <2>4. loaded' = loaded /\ w = loaded + 1
    BY <2>1, <2>2, <2>3 DEF Goes, MainGoes
  <2>5. calls'[Main].st = "done"
    BY <1>3, <2>2, <2>4 DEF Stored
  <2>6. calls[Main].st = "pending" /\ (calls[Main].op = "set" => docs'[calls[Main].key] = calls[Main].val)
    BY <2>2, <2>5 DEF AllWell, WentWell, Callers
  <2>7. Alive
    BY <2>6 DEF TypeInv, NobodyCalls, Store!Idle, Callers
  <2>8. calls[Main].op = "set" /\ calls[Main].key = k /\ calls[Main].val = StaticDocs[w].content
    BY <2>1, <2>4, <2>6, <2>7 DEF TypeInv, MainCalls
  <2> QED
    BY <1>3, <2>6, <2>8 DEF ContentOf
<1> QED
  BY <1>2, <1>3

LEMMA GoesKeepsKept ==
    ASSUME TypeInv, TypeInv', Goes, ~StorageFails /\ storeOpen' /\ late = {} => AllWell,
           ~StorageFails /\ storeOpen' => storeOpen, KeptInv
    PROVE  KeptInv'
<1> SUFFICES ASSUME ~StorageFails, storeOpen'
             PROVE  /\ late' = {}
                    /\ calls'[Main].st = "done" => ~calls'[Main].err
                    /\ \A k \in Keys, w \in Requests \cup 1..Len(StaticDocs) :
                          Writers(k)' = {w} /\ Stored(w)' => docs'[k] = ContentOf(w)'
  BY DEF KeptInv
<1>1. AllWell /\ (calls[Main].st = "done" => ~calls[Main].err)
  BY DEF KeptInv
<1>2. late' = {}
  BY <1>1 DEF AllWell
<1>3. ASSUME calls'[Main].st = "done" PROVE ~calls'[Main].err
  <2>1. CASE calls'[Main] = calls[Main]
    BY <1>1, <1>3, <2>1
  <2>2. CASE calls[Main].st = "pending" /\ (calls[Main].op = "set" => ~calls'[Main].err)
    <3>1. Alive
      BY <2>2 DEF TypeInv, NobodyCalls, Store!Idle, Callers
    <3>2. calls[Main].op = "set"
      BY <2>2, <3>1 DEF TypeInv, MainCalls
    <3> QED
      BY <2>2, <3>2
  <2> QED
    BY <1>1, <1>3, <2>1, <2>2 DEF AllWell, WentWell, Callers
<1>4. ASSUME NEW k \in Keys, NEW w \in Requests \cup 1..Len(StaticDocs), Writers(k)' = {w}, Stored(w)'
      PROVE  docs'[k] = ContentOf(w)'
  <2>1. Writers(k) # {}
    BY <1>4, NewWriterIsNotStored
  <2>2. Writers(k) = {w} /\ ContentOf(w)' = ContentOf(w)
    <3>1. \A x \in Writers(k) : x = w /\ ContentOf(x)' = ContentOf(x)
      BY <1>4, WritersStay
    <3> QED
      BY <2>1, <3>1
  <2>3. CASE Stored(w)
    BY <2>2, <2>3, StoredStays DEF KeptInv
  <2>4. CASE ~Stored(w)
    BY <1>1, <1>4, <2>2, <2>4, NowStored
  <2> QED
    BY <2>2, <2>3, <2>4
<1> QED
  BY <1>2, <1>3, <1>4

LEMMA InitKept == Init => KeptInv
<1> SUFFICES ASSUME Init PROVE KeptInv
  OBVIOUS
<1>1. /\ late = {} /\ loaded = 0 /\ calls = [p \in Callers |-> Store!Idle]
      /\ req = [r \in Requests |-> NewRequest]
  BY DEF Init, Store!Init
<1>2. \A p \in Callers : calls[p].st = "idle"
  BY <1>1 DEF Store!Idle
<1>3. \A r \in Requests : req[r].code = 0
  BY <1>1 DEF NewRequest
<1>4. \A w \in Requests \cup 1..Len(StaticDocs) : ~Stored(w)
  BY <1>1, <1>2, <1>3, Constants DEF Stored, Callers
<1> QED
  BY <1>1, <1>2, <1>4 DEF KeptInv, Callers

\* What has been acknowledged is there in full, while the storage is healthy and
\* has not been closed by the shutdown.
THEOREM AcknowledgedIsKept == Spec => []AckedIsKept
<1>1. TypeInv /\ KeptInv => AckedIsKept
  <2> SUFFICES ASSUME TypeInv, KeptInv, ~StorageFails, storeOpen PROVE
                  /\ \A r \in Requests :
                        Posted(r) /\ req[r].code = 200 /\ Writers(req[r].key) = {r}
                            => docs[req[r].key] = req[r].body
                  /\ \A i \in 1..loaded :
                        Writers(StaticDocs[i].key) = {i}
                            => docs[StaticDocs[i].key] = StaticDocs[i].content
    BY DEF AckedIsKept
  <2>1. ASSUME NEW r \in Requests, Posted(r), req[r].code = 200, Writers(req[r].key) = {r}
        PROVE  docs[req[r].key] = req[r].body
    <3>1. req[r].key \in Keys
      BY <2>1 DEF TypeInv, RequestsTyped, RequestType, Posted
    <3> QED
      BY <2>1, <3>1 DEF KeptInv, Stored, ContentOf
  <2>2. ASSUME NEW i \in 1..loaded, Writers(StaticDocs[i].key) = {i}
        PROVE  docs[StaticDocs[i].key] = StaticDocs[i].content
    <3>1. i \in 1..Len(StaticDocs) /\ i <= loaded
      BY Constants DEF TypeInv, MainTyped
    <3>2. i \notin Requests /\ StaticDocs[i].key \in Keys
      BY <3>1, ServerConstants, Constants
    <3> QED
      BY <2>2, <3>1, <3>2 DEF KeptInv, Stored, ContentOf
  <2> QED
    BY <2>1, <2>2
<1>2. TypeInv /\ KeptInv /\ [Next]_vars => TypeInv' /\ KeptInv'
  <2> SUFFICES ASSUME TypeInv, KeptInv, [Next]_vars PROVE TypeInv' /\ KeptInv'
    OBVIOUS
  <2>1. TypeInv' /\ Goes
    BY NextKeepsTypes, StepGoes
  <2>2. ~StorageFails /\ storeOpen' /\ late = {} => AllWell
    BY StepWell
  <2>3. storeOpen' => storeOpen
    BY OpenWasOpen
  <2> QED
    BY <2>1, <2>2, <2>3, GoesKeepsKept
<1> QED
  BY <1>1, <1>2, InitTypes, InitKept, PTL DEF Spec
=============================================================================
