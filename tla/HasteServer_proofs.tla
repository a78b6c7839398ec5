------------------------- MODULE HasteServer_proofs ------------------------
(* Theorems about HasteServer: any number of requests, any keys, bodies and  *)
(* static documents, any storage type, with a storage that fails or not.     *)
EXTENDS HasteServer, TLAPS, FiniteSetTheorems, SequenceTheorems

-----------------------------------------------------------------------------
(* The inductive invariant of the types. *)

CallType == [st : {"idle", "pending", "done"}, op : {"get", "set"},
             key : Keys \cup {None}, val : Seq(Chunks), err : BOOLEAN]

StoreTyped ==
    /\ docs \in [Keys -> Seq(Chunks)]
    /\ calls \in [Callers -> CallType]
    /\ \A p \in Callers : calls[p].st # "idle" => calls[p].key \in Keys

MainTyped ==
    /\ backend \in Backends /\ storeOpen \in BOOLEAN /\ expired \in BOOLEAN
    /\ late \subseteq Callers
    /\ phase \in {"loading", "starting", "serving", "closing", "draining",
                  "killed", "exited"}
    /\ loaded \in 0..Len(StaticDocs)
    /\ listener \in {"off", "starting", "on", "closed"}

\* How far a request has come, and what it knows by then.
RequestOK(q) ==
    /\ q \in RequestType
    /\ q.st # "answered" <=> q.code = 0
    /\ q.st # "new" /\ q.kind \in {"get", "head"} => q.id \in Ids
    /\ q.st = "loading" => q.kind \in {"get", "head"} /\ q.key # None
    /\ q.st = "storing" => q.kind \in {"post", "log"} /\ q.key # None
    /\ q.key # None =>
          /\ q.st \in {"loading", "storing", "answered"}
          /\ q.kind \in {"get", "head"} => q.key = Lookup(q.id)
          /\ q.kind \in {"post", "log"} => ~TooLong(q.body)
    /\ q.code = 200 /\ q.kind # "page" => q.key # None

RequestsTyped ==
    /\ req \in [Requests -> RequestType]
    /\ \A r \in Requests : RequestOK(req[r])

\* The call of a goroutine is the one its handler waits for.
HandlersCall ==
    Alive => \A r \in Requests :
        /\ calls[r].st # "idle" <=> req[r].st \in {"storing", "loading"}
        /\ calls[r].st # "idle" =>
              /\ calls[r].key = req[r].key
              /\ calls[r].op = IF req[r].st = "storing" THEN "set" ELSE "get"
              /\ calls[r].st = "pending" /\ calls[r].op = "set" => calls[r].val = req[r].body

\* The main goroutine is inside the storage only to store the next document.
MainCalls ==
    Alive /\ calls[Main].st # "idle" =>
        /\ phase = "loading" /\ loaded < Len(StaticDocs)
        /\ calls[Main].op = "set" /\ calls[Main].key = StaticDocs[loaded + 1].key
        /\ calls[Main].st = "pending" => calls[Main].val = StaticDocs[loaded + 1].content

NobodyCalls == ~Alive => \A p \in Callers : calls[p] = Store!Idle

CreatedBy == {r \in Requests : req[r].kind = "post" /\ req[r].code = 200}
ReadBy == {r \in Requests : Served(r)}

CountersOK == created = Cardinality(CreatedBy) /\ read = Cardinality(ReadBy)

TypeInv ==
    /\ StoreTyped /\ MainTyped /\ RequestsTyped
    /\ HandlersCall /\ MainCalls /\ NobodyCalls
    /\ CountersOK


-----------------------------------------------------------------------------
(* The steps, by what they do. *)

\* A request gets a new record; what it was and what it becomes is known.
Becomes(r, q) == req' = [req EXCEPT ![r] = q]

\* The process ends.
Ending == (\E how \in {"killed", "exited"} : End(how)) /\ UNCHANGED <<closing, expired, req, counters>>

\* The main goroutine, the listener, a signal or the clock goes on.
Passing ==
    /\ UNCHANGED <<docs, calls, late, backend, loaded, req, counters>>
    /\ phase' \in {"loading", "starting", "serving", "closing", "draining"}
    /\ storeOpen' \in {storeOpen, FALSE} /\ expired' \in BOOLEAN
    /\ listener' \in {"off", "starting", "on", "closed"}
    /\ phase = "loading" => phase' = "loading" \/ calls[Main].st = "idle"
    /\ phase' = "loading" => phase = "loading"

\* A request is answered without the storage.
Turning(r) == Limit(r) \/ ServePage(r) \/ RejectBody(r)

LEMMA StepKinds ==
    ASSUME TypeInv, Next
    PROVE  \/ \E r \in Requests : \/ Accept(r) \/ Turning(r) \/ StartGet(r) \/ FinishGet(r)
                                  \/ StartSet(r) \/ FinishSet(r)
           \/ \E p \in Callers : StoreStep(p)
           \/ LoadDocument \/ DocumentLoaded
           \/ Alive /\ (Ending \/ Passing)
           \/ \E k \in Keys : Lose(k)
<1> USE DEF TypeInv, MainTyped, Alive
<1>1. CASE Alive /\ \E r \in Requests : Accept(r) \/ HandlerStep(r)
  BY <1>1 DEF HandlerStep, Turning
<1>2. CASE Alive /\ MainStep
  <2>1. ASSUME Alive, BootFails PROVE Ending
    BY <2>1 DEF BootFails, Ending
  <2>2. ASSUME Alive, Launch PROVE Passing
    BY <2>2 DEF Launch, Passing, storeVars, closing, counters
  <2>3. ASSUME Alive, Listen PROVE Ending \/ Passing
    BY <2>3 DEF Listen, Ending, Passing, storeVars, closing, counters, mainVars
  <2>4. ASSUME Alive, Notify PROVE Passing
    BY <2>4 DEF Notify, Passing, storeVars, closing, counters
  <2>5. ASSUME Alive, Signal PROVE Ending \/ Passing
    BY <2>5 DEF Signal, Ending, Passing, storeVars, closing, counters
  <2>6. ASSUME Alive, StorageClosed PROVE Passing
    BY <2>6 DEF StorageClosed, Passing, storeVars, closing, counters
  <2>7. ASSUME Alive, DeadlinePasses PROVE Passing
    BY <2>7 DEF DeadlinePasses, Passing, storeVars, closing, counters, mainVars
  <2>8. ASSUME Alive, Drained PROVE Ending
    BY <2>8 DEF Drained, Ending
  <2> QED
    BY <1>2, <2>1, <2>2, <2>3, <2>4, <2>5, <2>6, <2>7, <2>8 DEF MainStep
<1> QED
  BY <1>1, <1>2 DEF Next

\* What a step of the storage does to the call it takes on, and to the key of
\* the call.
StoreEffect(p, c) ==
    /\ calls' = [calls EXCEPT ![p] = c]
    /\ calls[p].st # "idle" /\ c.st # "idle"
    /\ c.op = calls[p].op /\ c.key = calls[p].key
    /\ c.st = "pending" => c = calls[p] /\ Resends
    /\ c.st = "done" /\ c.op = "get" => c.val \in {<<>>, docs[c.key]}
    /\ \/ UNCHANGED docs
       \/ docs' = [docs EXCEPT ![c.key] = <<>>] /\ StorageFails
       \/ /\ calls[p].st = "pending" /\ c.op = "set"
          /\ docs' = [docs EXCEPT ![c.key] = calls[p].val]
       \/ /\ calls[p].st = "pending" /\ c.op = "set" /\ c.st = "done" /\ Tears
          /\ \E n \in 1..Len(calls[p].val) :
                docs' = [docs EXCEPT ![c.key] = SubSeq(calls[p].val, 1, n)]

LEMMA StoreSteps ==
    ASSUME TypeInv, NEW p \in Callers, StoreStep(p)
    PROVE  \E c \in CallType : StoreEffect(p, c)
<1> DEFINE done(val, err) == [calls[p] EXCEPT !.st = "done", !.val = val, !.err = err]
<1>0. /\ calls[p] \in CallType /\ docs \in [Keys -> Seq(Chunks)]
      /\ calls[p].st # "idle" => calls[p].key \in Keys
      /\ calls \in [Callers -> CallType]
  BY DEF TypeInv, StoreTyped
<1>1. ASSUME NEW val \in Seq(Chunks), NEW err \in BOOLEAN
      PROVE  /\ done(val, err) \in CallType
             /\ done(val, err).st = "done" /\ done(val, err).val = val /\ done(val, err).err = err
             /\ done(val, err).op = calls[p].op /\ done(val, err).key = calls[p].key
  BY <1>0 DEF CallType
<1>2. <<>> \in Seq(Chunks)
  OBVIOUS
<1>3. ASSUME NEW val, NEW err, Store!Done(p, val, err)
      PROVE  calls' = [calls EXCEPT ![p] = done(val, err)]
  BY <1>0, <1>3 DEF Store!Done
<1> HIDE DEF done
<1>4. CASE Store!Read(p)
  <2>1. docs[calls[p].key] \in Seq(Chunks) /\ calls[p].st = "pending" /\ calls[p].op = "get"
    BY <1>0, <1>4 DEF Store!Read, Store!Pending
  <2>2. calls' = [calls EXCEPT ![p] = done(docs[calls[p].key], FALSE)] /\ UNCHANGED docs
    BY <1>3, <1>4 DEF Store!Read
  <2> DEFINE c == done(docs[calls[p].key], FALSE)
  <2>3. /\ c \in CallType /\ c.st = "done" /\ c.op = "get" /\ c.key = calls[p].key
        /\ c.val = docs[calls[p].key]
    BY <1>1, <2>1
  <2>4. calls' = [calls EXCEPT ![p] = c]
    BY <2>2
  <2> HIDE DEF c
  <2>5. StoreEffect(p, c)
    BY <2>1, <2>2, <2>3, <2>4 DEF StoreEffect
  <2> QED
    BY <2>3, <2>5
<1>5. CASE Store!Apply(p) /\ (calls'[p].st = "pending" => Resends)
  <2>1. /\ calls[p].st = "pending" /\ calls[p].op = "set"
        /\ docs' = [docs EXCEPT ![calls[p].key] = calls[p].val]
    BY <1>5 DEF Store!Apply, Store!Pending, Store!Write
  <2>2. CASE UNCHANGED calls
    <3>1. calls' = [calls EXCEPT ![p] = calls[p]]
      BY <1>0, <2>2
    <3> QED
      BY <1>0, <1>5, <2>1, <2>2, <3>1 DEF StoreEffect
  <2>3. CASE \E err \in BOOLEAN : Store!Done(p, <<>>, err)
    <3>1. PICK err \in BOOLEAN : calls' = [calls EXCEPT ![p] = done(<<>>, err)]
      BY <1>3, <2>3
    <3> DEFINE c == done(<<>>, err)
    <3>2. /\ c \in CallType /\ c.st = "done" /\ c.op = "set" /\ c.key = calls[p].key
          /\ calls' = [calls EXCEPT ![p] = c]
      BY <1>1, <1>2, <2>1, <3>1
    <3> HIDE DEF c
    <3>3. StoreEffect(p, c)
      BY <2>1, <3>2 DEF StoreEffect
    <3> QED
      BY <3>2, <3>3
  <2> QED
    BY <1>5, <2>2, <2>3 DEF Store!Apply, Store!Nothing
<1>6. CASE Store!Refuse(p)
  <2>1. calls' = [calls EXCEPT ![p] = done(<<>>, TRUE)] /\ UNCHANGED docs /\ calls[p].st = "pending"
    BY <1>3, <1>6 DEF Store!Refuse, Store!Nothing
  <2> QED
    BY <1>1, <1>2, <2>1 DEF StoreEffect
<1>7. CASE Tears /\ Store!Tear(p)
  <2>1. /\ calls[p].st = "pending" /\ calls[p].op = "set"
        /\ calls' = [calls EXCEPT ![p] = done(<<>>, TRUE)]
    BY <1>3, <1>7 DEF Store!Tear, Store!Pending, Store!Nothing
  <2>2. PICK n \in 0..Len(calls[p].val) :
            docs' = [docs EXCEPT ![calls[p].key] = SubSeq(calls[p].val, 1, n)]
    BY <1>7 DEF Store!Tear, Store!Write
  <2>3. CASE n = 0
    <3>1. SubSeq(calls[p].val, 1, n) = <<>>
      BY <2>3, SubSeqEmpty
    <3> QED
      BY <1>1, <1>2, <1>7, <2>1, <2>2, <3>1 DEF StoreEffect, Tears
  <2>4. CASE n # 0
    <3>1. n \in 1..Len(calls[p].val)
      BY <2>4
    <3> DEFINE c == done(<<>>, TRUE)
    <3>2. /\ c \in CallType /\ c.st = "done" /\ c.op = "set" /\ c.key = calls[p].key
          /\ calls' = [calls EXCEPT ![p] = c]
      BY <1>1, <1>2, <2>1
    <3> HIDE DEF c
    <3>3. StoreEffect(p, c)
      BY <1>7, <2>1, <2>2, <3>1, <3>2 DEF StoreEffect
    <3> QED
      BY <3>2, <3>3
  <2> QED
    BY <2>3, <2>4
<1>8. CASE Loses /\ Store!Miss(p)
  <2>1. calls[p].st = "pending" /\ calls[p].op = "get"
    BY <1>8 DEF Store!Miss, Store!Pending
  <2>2. PICK err \in BOOLEAN : calls' = [calls EXCEPT ![p] = done(<<>>, err)]
    BY <1>3, <1>8 DEF Store!Miss, Store!Nothing
  <2>3. UNCHANGED docs \/ docs' = [docs EXCEPT ![calls[p].key] = <<>>]
    BY <1>8 DEF Store!Miss, Store!Write, Store!Nothing
  <2> DEFINE c == done(<<>>, err)
  <2>4. /\ c \in CallType /\ c.st = "done" /\ c.val = <<>> /\ c.op = "get"
        /\ c.key = calls[p].key /\ calls' = [calls EXCEPT ![p] = c]
    BY <1>1, <1>2, <2>1, <2>2
  <2> HIDE DEF c
  <2>5. StoreEffect(p, c)
    BY <1>8, <2>1, <2>3, <2>4 DEF StoreEffect, Loses
  <2> QED
    BY <2>4, <2>5
<1>9. CASE Store!Spoil(p)
  <2>1. calls' = [calls EXCEPT ![p] = done(<<>>, TRUE)] /\ UNCHANGED docs /\ calls[p].st = "done"
    BY <1>3, <1>9 DEF Store!Spoil, Store!Nothing
  <2> QED
    BY <1>1, <1>2, <2>1 DEF StoreEffect
<1> QED
  BY <1>4, <1>5, <1>6, <1>7, <1>8, <1>9 DEF StoreStep, StoreWorks, StoreFails

-----------------------------------------------------------------------------
(* The types. *)

LEMMA Constants ==
    /\ IsFiniteSet(Requests) /\ Main \notin Requests
    /\ Len(StaticDocs) \in Nat
    /\ \A i \in 1..Len(StaticDocs) :
          StaticDocs[i].key \in Keys /\ StaticDocs[i].content \in Seq(Chunks)
    /\ \A body \in Bodies \cup {<<>>} : body \in Seq(Chunks)
<1> DEFINE Doc == [key : Keys, content : Seq(Chunks)]
<1>1. StaticDocs \in Seq(Doc)
  BY ServerConstants
<1>2. \A doc \in Doc : doc.key \in Keys /\ doc.content \in Seq(Chunks)
  OBVIOUS
<1> HIDE DEF Doc
<1>3. Len(StaticDocs) \in Nat /\ \A i \in 1..Len(StaticDocs) : StaticDocs[i] \in Doc
  BY <1>1
<1>4. IsFiniteSet(Requests) /\ Main \notin Requests
  BY ServerConstants
<1>5. Bodies \subseteq Seq(Chunks) /\ <<>> \in Seq(Chunks)
  BY ServerConstants
<1> QED
  BY <1>2, <1>3, <1>4, <1>5

StType == {"new", "accepted", "storing", "loading", "answered"}
KindType == {"get", "head", "post", "log", "page"}
BodyType == Bodies \cup {<<>>}
CodeType == {0, 200, 400, 404, 429, 500}

\* A request may change any of its fields.
LEMMA Fields ==
    ASSUME NEW q \in RequestType
    PROVE  /\ \A x \in StType :
                 [q EXCEPT !.st = x] \in RequestType
           /\ \A x \in KindType : [q EXCEPT !.kind = x] \in RequestType
           /\ \A x \in Ids \cup {None} : [q EXCEPT !.id = x] \in RequestType
           /\ \A x \in BodyType : [q EXCEPT !.body = x] \in RequestType
           /\ \A x \in Keys \cup {None} : [q EXCEPT !.key = x] \in RequestType
           /\ \A x \in CodeType : [q EXCEPT !.code = x] \in RequestType
           /\ \A x \in Seq(Chunks) : [q EXCEPT !.data = x] \in RequestType
<1>1. \A x \in StType :
         [q EXCEPT !.st = x] \in RequestType
  BY DEF RequestType, StType, KindType, BodyType, CodeType
<1>2. \A x \in KindType : [q EXCEPT !.kind = x] \in RequestType
  BY DEF RequestType, StType, KindType, BodyType, CodeType
<1>3. \A x \in Ids \cup {None} : [q EXCEPT !.id = x] \in RequestType
  BY DEF RequestType, StType, KindType, BodyType, CodeType
<1>4. \A x \in BodyType : [q EXCEPT !.body = x] \in RequestType
  BY DEF RequestType, StType, KindType, BodyType, CodeType
<1>5. \A x \in Keys \cup {None} : [q EXCEPT !.key = x] \in RequestType
  BY DEF RequestType, StType, KindType, BodyType, CodeType
<1>6. \A x \in CodeType : [q EXCEPT !.code = x] \in RequestType
  BY DEF RequestType, StType, KindType, BodyType, CodeType
<1>7. \A x \in Seq(Chunks) : [q EXCEPT !.data = x] \in RequestType
  BY DEF RequestType, StType, KindType, BodyType, CodeType
<1> QED
  BY <1>1, <1>2, <1>3, <1>4, <1>5, <1>6, <1>7

LEMMA NamesOfStates ==
    "accepted" \in StType /\ "loading" \in StType /\ "storing" \in StType /\ "answered" \in StType
BY DEF StType

LEMMA Changes ==
    ASSUME NEW q \in RequestType
    PROVE  /\ \A kind \in KindType :
                 [q EXCEPT !.st = "accepted", !.kind = kind] \in RequestType
           /\ \A kind \in KindType, id \in Ids :
                 [q EXCEPT !.st = "accepted", !.kind = kind, !.id = id] \in RequestType
           /\ \A kind \in KindType, body \in BodyType :
                 [q EXCEPT !.st = "accepted", !.kind = kind, !.body = body] \in RequestType
           /\ \A key \in Keys : [q EXCEPT !.st = "loading", !.key = key] \in RequestType
           /\ \A key \in Keys, body \in BodyType :
                 [q EXCEPT !.st = "storing", !.key = key, !.body = body] \in RequestType
           /\ \A code \in CodeType, data \in Seq(Chunks) :
                 [q EXCEPT !.st = "answered", !.code = code, !.data = data] \in RequestType
<1>1. ASSUME NEW kind \in KindType
      PROVE  [q EXCEPT !.st = "accepted", !.kind = kind] \in RequestType
  <2>1. [q EXCEPT !.st = "accepted"] \in RequestType
    BY Fields, NamesOfStates
  <2>2. [[q EXCEPT !.st = "accepted"] EXCEPT !.kind = kind] \in RequestType
    BY <2>1, Fields
  <2> QED
    BY <2>2
<1>2. ASSUME NEW kind \in KindType, NEW id \in Ids
      PROVE  [q EXCEPT !.st = "accepted", !.kind = kind, !.id = id] \in RequestType
  <2>1. [[q EXCEPT !.st = "accepted", !.kind = kind] EXCEPT !.id = id] \in RequestType
    BY <1>1, Fields
  <2> QED
    BY <2>1
<1>3. ASSUME NEW kind \in KindType, NEW body \in BodyType
      PROVE  [q EXCEPT !.st = "accepted", !.kind = kind, !.body = body] \in RequestType
  <2>1. [[q EXCEPT !.st = "accepted", !.kind = kind] EXCEPT !.body = body] \in RequestType
    BY <1>1, Fields
  <2> QED
    BY <2>1
<1>4. ASSUME NEW key \in Keys
      PROVE  [q EXCEPT !.st = "loading", !.key = key] \in RequestType
  <2>1. [q EXCEPT !.st = "loading"] \in RequestType
    BY Fields, NamesOfStates
  <2>2. [[q EXCEPT !.st = "loading"] EXCEPT !.key = key] \in RequestType
    BY <2>1, Fields
  <2> QED
    BY <2>2
<1>5. ASSUME NEW key \in Keys, NEW body \in BodyType
      PROVE  [q EXCEPT !.st = "storing", !.key = key, !.body = body] \in RequestType
  <2>1. [q EXCEPT !.st = "storing"] \in RequestType
    BY Fields, NamesOfStates
  <2>2. [[q EXCEPT !.st = "storing"] EXCEPT !.key = key] \in RequestType
    BY <2>1, Fields
  <2>3. [[q EXCEPT !.st = "storing", !.key = key] EXCEPT !.body = body] \in RequestType
    BY <2>2, Fields
  <2> QED
    BY <2>3
<1>6. ASSUME NEW code \in CodeType, NEW data \in Seq(Chunks)
      PROVE  [q EXCEPT !.st = "answered", !.code = code, !.data = data] \in RequestType
  <2>1. [q EXCEPT !.st = "answered"] \in RequestType
    BY Fields, NamesOfStates
  <2>2. [[q EXCEPT !.st = "answered"] EXCEPT !.code = code] \in RequestType
    BY <2>1, Fields
  <2>3. [[q EXCEPT !.st = "answered", !.code = code] EXCEPT !.data = data] \in RequestType
    BY <2>2, Fields
  <2> QED
    BY <2>3
<1> QED
  BY <1>1, <1>2, <1>3, <1>4, <1>5, <1>6

LEMMA Counted ==
    ASSUME TypeInv
    PROVE  /\ IsFiniteSet(CreatedBy) /\ IsFiniteSet(ReadBy)
           /\ Cardinality(CreatedBy) \in 0..Cardinality(Requests)
           /\ Cardinality(ReadBy) \in 0..Cardinality(Requests)
<1>1. CreatedBy \in SUBSET Requests /\ ReadBy \in SUBSET Requests
  BY DEF CreatedBy, ReadBy
<1>2. /\ IsFiniteSet(CreatedBy) /\ Cardinality(CreatedBy) <= Cardinality(Requests)
      /\ IsFiniteSet(ReadBy) /\ Cardinality(ReadBy) <= Cardinality(Requests)
  BY <1>1, Constants, FS_Subset
<1> QED
  BY <1>2, Constants, FS_CardinalityType

\* The counters follow the request that is answered.
LEMMA CountersKept ==
    ASSUME TypeInv, NEW r \in Requests, NEW q, Becomes(r, q),
           req[r].code = 0,
           created' = IF q.kind = "post" /\ q.code = 200 THEN created + 1 ELSE created,
           read' = IF q.kind = "get" /\ q.code = 200 THEN read + 1 ELSE read
    PROVE  CountersOK'
<1>1. /\ r \notin CreatedBy /\ r \notin ReadBy /\ \A x \in Requests \ {r} : req'[x] = req[x]
      /\ req'[r] = q
  BY DEF CreatedBy, ReadBy, Served, Becomes, TypeInv, RequestsTyped
<1>2. /\ CreatedBy' = IF q.kind = "post" /\ q.code = 200 THEN CreatedBy \cup {r} ELSE CreatedBy
      /\ ReadBy' = IF q.kind = "get" /\ q.code = 200 THEN ReadBy \cup {r} ELSE ReadBy
  BY <1>1 DEF CreatedBy, ReadBy, Served
<1>3. /\ Cardinality(CreatedBy \cup {r}) = Cardinality(CreatedBy) + 1
      /\ Cardinality(ReadBy \cup {r}) = Cardinality(ReadBy) + 1
  BY <1>1, Counted, FS_AddElement
<1> QED
  BY <1>2, <1>3 DEF CountersOK, TypeInv

LEMMA CountersSame ==
    ASSUME TypeInv, UNCHANGED <<req, created, read>>
    PROVE  CountersOK'
BY DEF TypeInv, CountersOK, CreatedBy, ReadBy, Served

LEMMA RequestsKept ==
    ASSUME TypeInv, NEW r \in Requests, NEW q, Becomes(r, q), RequestOK(q)
    PROVE  /\ RequestsTyped' /\ req'[r] = q
           /\ \A x \in Requests \ {r} : req'[x] = req[x]
BY DEF TypeInv, RequestsTyped, RequestOK, Becomes

\* Requests that are new or answered, and the storage as it was.
LEMMA AcceptKeepsTypes ==
    ASSUME TypeInv, Alive, NEW r \in Requests, Accept(r)
    PROVE  TypeInv'
<1>1. /\ UNCHANGED <<docs, calls, late, backend, storeOpen, phase, loaded, listener, expired,
                     created, read>>
      /\ req[r] \in RequestType /\ RequestOK(req[r]) /\ req[r].st = "new"
      /\ req \in [Requests -> RequestType]
  BY DEF Accept, storeVars, closing, mainVars, counters, TypeInv, RequestsTyped
<1>2. \E q : Becomes(r, q) /\ RequestOK(q) /\ q.st = "accepted" /\ q.code = 0
  <2>1. CASE \E kind \in Kinds \cap {"get", "head"}, id \in Ids :
               req' = [req EXCEPT ![r].st = "accepted", ![r].kind = kind, ![r].id = id]
    <3>1. PICK kind \in Kinds \cap {"get", "head"}, id \in Ids :
               req' = [req EXCEPT ![r].st = "accepted", ![r].kind = kind, ![r].id = id]
      BY <2>1
    <3> DEFINE q == [req[r] EXCEPT !.st = "accepted", !.kind = kind, !.id = id]
    <3>2. Becomes(r, q)
      BY <1>1, <3>1 DEF Becomes
    <3>0. kind \in KindType
      BY ServerConstants DEF KindType
    <3>3. q \in RequestType
      BY <1>1, <3>0, Changes
    <3>4. q.st = "accepted" /\ q.code = 0 /\ q.key = None /\ q.kind = kind /\ q.id = id
      BY <1>1 DEF RequestType, RequestOK
    <3> HIDE DEF q
    <3> QED
      BY <3>2, <3>3, <3>4 DEF RequestOK
  <2>2. CASE \E kind \in Kinds \cap {"post", "log"}, body \in Bodies :
               req' = [req EXCEPT ![r].st = "accepted", ![r].kind = kind, ![r].body = body]
    <3>1. PICK kind \in Kinds \cap {"post", "log"}, body \in Bodies :
               req' = [req EXCEPT ![r].st = "accepted", ![r].kind = kind, ![r].body = body]
      BY <2>2
    <3> DEFINE q == [req[r] EXCEPT !.st = "accepted", !.kind = kind, !.body = body]
    <3>2. Becomes(r, q)
      BY <1>1, <3>1 DEF Becomes
    <3>0. kind \in KindType /\ body \in BodyType
      BY ServerConstants DEF KindType, BodyType
    <3>3. q \in RequestType
      BY <1>1, <3>0, Changes
    <3>4. q.st = "accepted" /\ q.code = 0 /\ q.key = None /\ q.kind = kind
      BY <1>1 DEF RequestType, RequestOK
    <3> HIDE DEF q
    <3> QED
      BY <3>2, <3>3, <3>4 DEF RequestOK
  <2>3. CASE req' = [req EXCEPT ![r].st = "accepted", ![r].kind = "page"]
    <3> DEFINE q == [req[r] EXCEPT !.st = "accepted", !.kind = "page"]
    <3>2. Becomes(r, q)
      BY <1>1, <2>3 DEF Becomes
    <3>0. "page" \in KindType
      BY DEF KindType
    <3>3. q \in RequestType
      BY <1>1, <3>0, Changes
    <3>4. q.st = "accepted" /\ q.code = 0 /\ q.key = None /\ q.kind = "page"
      BY <1>1 DEF RequestType, RequestOK
    <3> HIDE DEF q
    <3> QED
      BY <3>2, <3>3, <3>4 DEF RequestOK
  <2> QED
    BY <2>1, <2>2, <2>3 DEF Accept
<1>3. PICK q : Becomes(r, q) /\ RequestOK(q) /\ q.st = "accepted" /\ q.code = 0
  BY <1>2
<1>4. RequestsTyped' /\ req'[r] = q /\ \A x \in Requests \ {r} : req'[x] = req[x]
  BY <1>3, RequestsKept
<1>5. CountersOK'
  BY <1>1, <1>3, CountersKept DEF RequestOK
<1>6. HandlersCall'
  BY <1>1, <1>3, <1>4 DEF TypeInv, HandlersCall, Alive
<1>7. StoreTyped' /\ MainTyped' /\ MainCalls' /\ NobodyCalls'
  BY <1>1 DEF TypeInv, StoreTyped, MainTyped, MainCalls, NobodyCalls, Alive
<1> QED
  BY <1>4, <1>5, <1>6, <1>7 DEF TypeInv

\* An answer changes three fields of the request.
LEMMA Answers ==
    ASSUME req \in [Requests -> RequestType], NEW r \in Requests,
           NEW code \in CodeType, NEW data \in Seq(Chunks), Reply(r, code, data)
    PROVE  \E q \in RequestType :
              /\ Becomes(r, q) /\ q.st = "answered" /\ q.code = code /\ q.data = data
              /\ q.kind = req[r].kind /\ q.id = req[r].id /\ q.key = req[r].key
              /\ q.body = req[r].body
<1> DEFINE q == [req[r] EXCEPT !.st = "answered", !.code = code, !.data = data]
<1>1. Becomes(r, q)
  BY DEF Reply, Becomes
<1>2. req[r] \in RequestType
  OBVIOUS
<1>3. q \in RequestType
  BY <1>2, Changes
<1>4. /\ q.st = "answered" /\ q.code = code /\ q.data = data /\ q.key = req[r].key
      /\ q.kind = req[r].kind /\ q.id = req[r].id /\ q.body = req[r].body
  BY <1>2 DEF RequestType
<1> QED
  BY <1>1, <1>3, <1>4

LEMMA TurningKeepsTypes ==
    ASSUME TypeInv, Alive, NEW r \in Requests, Turning(r)
    PROVE  TypeInv'
<1>1. /\ UNCHANGED <<docs, calls, late, backend, storeOpen, phase, loaded, listener, expired,
                     created, read>>
      /\ req[r] \in RequestType /\ RequestOK(req[r]) /\ req[r].st = "accepted"
      /\ req \in [Requests -> RequestType]
  BY DEF Turning, Limit, ServePage, RejectBody, storeVars, closing, mainVars, counters, TypeInv,
         RequestsTyped
<1>2. PICK code \in {200, 400, 429, 500} :
          Reply(r, code, <<>>) /\ (code = 200 => req[r].kind = "page")
  BY DEF Turning, Limit, ServePage, RejectBody
<1>3. code \in CodeType
  BY DEF CodeType
<1>4. PICK q \in RequestType :
          /\ Becomes(r, q) /\ q.st = "answered" /\ q.code = code
          /\ q.kind = req[r].kind /\ q.id = req[r].id /\ q.key = req[r].key
  <2> DEFINE nothing == <<>>
  <2>1. nothing \in Seq(Chunks) /\ Reply(r, code, nothing)
    BY <1>2
  <2> HIDE DEF nothing
  <2> QED
    BY <1>1, <1>3, <2>1, Answers
<1>5. RequestOK(q) /\ req[r].key = None
  BY <1>1, <1>2, <1>4 DEF RequestOK
<1>6. RequestsTyped' /\ req'[r] = q /\ \A x \in Requests \ {r} : req'[x] = req[x]
  BY <1>4, <1>5, RequestsKept
<1>7. CountersOK'
  <2>1. ~(q.kind = "post" /\ q.code = 200) /\ ~(q.kind = "get" /\ q.code = 200)
    BY <1>2, <1>4
  <2> QED
    BY <1>1, <1>4, <2>1, CountersKept DEF RequestOK
<1>8. HandlersCall'
  BY <1>1, <1>4, <1>6 DEF TypeInv, HandlersCall, Alive
<1>9. StoreTyped' /\ MainTyped' /\ MainCalls' /\ NobodyCalls'
  BY <1>1 DEF TypeInv, StoreTyped, MainTyped, MainCalls, NobodyCalls, Alive
<1> QED
  BY <1>6, <1>7, <1>8, <1>9 DEF TypeInv

\* A call begins.
LEMMA CallsBegin ==
    ASSUME TypeInv, NEW p \in Callers, NEW op \in {"get", "set"}, NEW k \in Keys,
           NEW v \in Seq(Chunks), Begin(p, op, k, v)
    PROVE  /\ StoreTyped' /\ late' \subseteq Callers
           /\ calls[p].st = "idle" /\ UNCHANGED docs
           /\ calls'[p].st = "pending" /\ calls'[p].op = op /\ calls'[p].key = k
           /\ calls'[p].val = v
           /\ \A x \in Callers \ {p} : calls'[x] = calls[x]
<1> DEFINE c == [st |-> "pending", op |-> op, key |-> k, val |-> v, err |-> FALSE]
<1>1. c \in CallType
  BY DEF CallType
<1>2. calls' = [calls EXCEPT ![p] = c] /\ calls[p].st = "idle" /\ UNCHANGED docs
  BY DEF Begin, Store!Call
<1>3. c.st = "pending" /\ c.op = op /\ c.key = k /\ c.val = v
  OBVIOUS
<1> HIDE DEF c
<1>4. late' \subseteq Callers
  BY DEF Begin, TypeInv, MainTyped
<1>5. StoreTyped'
  BY <1>1, <1>2, <1>3 DEF TypeInv, StoreTyped
<1> QED
  BY <1>2, <1>3, <1>4, <1>5 DEF TypeInv, StoreTyped

\* A call returns to its caller.
LEMMA CallsReturn ==
    ASSUME TypeInv, NEW p \in Callers, Store!Return(p)
    PROVE  /\ StoreTyped' /\ calls[p].st = "done" /\ UNCHANGED docs
           /\ calls'[p] = Store!Idle /\ calls'[p].st = "idle"
           /\ \A x \in Callers \ {p} : calls'[x] = calls[x]
<1>1. Store!Idle \in CallType /\ Store!Idle.st = "idle"
  BY DEF Store!Idle, Store!Nothing, CallType
<1>2. /\ calls' = [calls EXCEPT ![p] = Store!Idle] /\ calls[p].st = "done" /\ UNCHANGED docs
  BY DEF Store!Return
<1> QED
  BY <1>1, <1>2 DEF TypeInv, StoreTyped

LEMMA StartGetKeepsTypes ==
    ASSUME TypeInv, Alive, NEW r \in Requests, StartGet(r)
    PROVE  TypeInv'
<1> DEFINE k == Lookup(req[r].id)
           q == [req[r] EXCEPT !.st = "loading", !.key = k]
<1>1. /\ UNCHANGED <<backend, storeOpen, phase, loaded, listener, expired, created, read>>
      /\ req[r] \in RequestType /\ RequestOK(req[r]) /\ req[r].st = "accepted"
      /\ req[r].kind \in {"get", "head"} /\ Begin(r, "get", k, <<>>) /\ Becomes(r, q)
  BY DEF StartGet, Becomes, closing, mainVars, counters, TypeInv, RequestsTyped
<1>2. k \in Keys /\ k # None /\ r \in Callers /\ <<>> \in Seq(Chunks)
  BY <1>1, ServerConstants DEF RequestOK, Callers
<1>3. q \in RequestType
  BY <1>1, <1>2, Changes
<1>4. q.st = "loading" /\ q.code = req[r].code /\ q.key = k /\ q.kind = req[r].kind /\ q.id = req[r].id
  BY <1>1 DEF RequestType
<1> HIDE DEF q, k
<1>5. RequestOK(q)
  BY <1>1, <1>2, <1>3, <1>4 DEF RequestOK, k
<1>6. RequestsTyped' /\ req'[r] = q /\ \A x \in Requests \ {r} : req'[x] = req[x]
  BY <1>1, <1>5, RequestsKept
<1>7. CountersOK'
  BY <1>1, <1>4, CountersKept DEF RequestOK
<1>8. /\ StoreTyped' /\ late' \subseteq Callers
      /\ calls'[r].st = "pending" /\ calls'[r].op = "get" /\ calls'[r].key = k
      /\ \A x \in Callers \ {r} : calls'[x] = calls[x]
  BY <1>1, <1>2, CallsBegin
<1>9. HandlersCall'
  BY <1>1, <1>4, <1>6, <1>8 DEF TypeInv, HandlersCall, Alive, Callers
<1>10. MainTyped' /\ MainCalls' /\ NobodyCalls'
  BY <1>1, <1>8, Constants DEF TypeInv, MainTyped, MainCalls, NobodyCalls, Alive, Callers
<1> QED
  BY <1>6, <1>7, <1>8, <1>9, <1>10 DEF TypeInv

LEMMA StartSetKeepsTypes ==
    ASSUME TypeInv, Alive, NEW r \in Requests, StartSet(r)
    PROVE  TypeInv'
<1>1. PICK v \in ReadableAs(r), k \in GeneratedKeys :
          /\ ~TooLong(v) /\ Begin(r, "set", k, v)
          /\ req' = [req EXCEPT ![r].st = "storing", ![r].key = k, ![r].body = v]
  BY DEF StartSet
<1> DEFINE q == [req[r] EXCEPT !.st = "storing", !.key = k, !.body = v]
<1>2. /\ UNCHANGED <<backend, storeOpen, phase, loaded, listener, expired, created, read>>
      /\ req[r] \in RequestType /\ RequestOK(req[r]) /\ req[r].st = "accepted"
      /\ req[r].kind \in {"post", "log"} /\ Becomes(r, q)
  BY <1>1 DEF StartSet, Becomes, closing, mainVars, counters, TypeInv, RequestsTyped
<1>3. k \in Keys /\ k # None /\ r \in Callers /\ v \in BodyType /\ v \in Seq(Chunks)
  <2>1. v \in BodyType
    BY <1>1, <1>2 DEF ReadableAs, BodyType, RequestType
  <2> QED
    BY <2>1, ServerConstants, Constants DEF Callers, BodyType
<1>4. q \in RequestType
  BY <1>2, <1>3, Changes
<1>5. q.st = "storing" /\ q.code = req[r].code /\ q.key = k /\ q.kind = req[r].kind /\ q.body = v
  BY <1>2 DEF RequestType
<1> HIDE DEF q
<1>6. RequestOK(q)
  BY <1>1, <1>2, <1>3, <1>4, <1>5 DEF RequestOK
<1>7. RequestsTyped' /\ req'[r] = q /\ \A x \in Requests \ {r} : req'[x] = req[x]
  BY <1>2, <1>6, RequestsKept
<1>8. CountersOK'
  BY <1>2, <1>5, CountersKept DEF RequestOK
<1>9. /\ StoreTyped' /\ late' \subseteq Callers
      /\ calls'[r].st = "pending" /\ calls'[r].op = "set" /\ calls'[r].key = k /\ calls'[r].val = v
      /\ \A x \in Callers \ {r} : calls'[x] = calls[x]
  BY <1>1, <1>3, CallsBegin
<1>10. HandlersCall'
  BY <1>2, <1>5, <1>7, <1>9 DEF TypeInv, HandlersCall, Alive, Callers
<1>11. MainTyped' /\ MainCalls' /\ NobodyCalls'
  BY <1>2, <1>9, Constants DEF TypeInv, MainTyped, MainCalls, NobodyCalls, Alive, Callers
<1> QED
  BY <1>7, <1>8, <1>9, <1>10, <1>11 DEF TypeInv

\* A Get or Set returns to its handler, which answers.
LEMMA FinishKeepsTypes ==
    ASSUME TypeInv, Alive, NEW r \in Requests, Store!Return(r),
           req[r].st \in {"loading", "storing"},
           NEW code \in {200, 404}, NEW data \in Seq(Chunks), Reply(r, code, data),
           UNCHANGED <<backend, storeOpen, late, phase, loaded, listener, expired>>,
           created' = IF req[r].kind = "post" /\ code = 200 THEN created + 1 ELSE created,
           read' = IF req[r].kind = "get" /\ code = 200 THEN read + 1 ELSE read
    PROVE  /\ TypeInv'
           /\ req'[r].st = "answered" /\ req'[r].code = code /\ req'[r].data = data
           /\ req'[r].kind = req[r].kind /\ req'[r].id = req[r].id /\ req'[r].key = req[r].key
           /\ req'[r].body = req[r].body
<1>1. /\ req[r] \in RequestType /\ RequestOK(req[r]) /\ r \in Callers
      /\ req \in [Requests -> RequestType]
  BY DEF TypeInv, RequestsTyped, Callers
<1>2. code \in CodeType
  BY DEF CodeType
<1>3. PICK q \in RequestType :
          /\ Becomes(r, q) /\ q.st = "answered" /\ q.code = code /\ q.data = data
          /\ q.kind = req[r].kind /\ q.id = req[r].id /\ q.key = req[r].key
          /\ q.body = req[r].body
  BY <1>1, <1>2, Answers
<1>4. RequestOK(q) /\ req[r].code = 0
  BY <1>1, <1>3 DEF RequestOK
<1>5. RequestsTyped' /\ req'[r] = q /\ \A x \in Requests \ {r} : req'[x] = req[x]
  BY <1>3, <1>4, RequestsKept
<1>6. CountersOK'
  BY <1>3, <1>4, CountersKept
<1>7. StoreTyped' /\ calls'[r].st = "idle" /\ \A x \in Callers \ {r} : calls'[x] = calls[x]
  BY <1>1, CallsReturn
<1>8. HandlersCall'
  BY <1>3, <1>5, <1>7 DEF TypeInv, HandlersCall, Alive, Callers
<1>9. MainTyped' /\ MainCalls' /\ NobodyCalls'
  BY <1>7, Constants DEF TypeInv, MainTyped, MainCalls, NobodyCalls, Alive, Callers
<1> QED
  BY <1>3, <1>5, <1>6, <1>7, <1>8, <1>9 DEF TypeInv

LEMMA FinishGetIs ==
    ASSUME TypeInv, NEW r \in Requests, FinishGet(r)
    PROVE  /\ Store!Return(r) /\ req[r].st = "loading" /\ UNCHANGED created
           /\ UNCHANGED <<backend, storeOpen, late, phase, loaded, listener, expired>>
           /\ req[r].kind \in {"get", "head"} /\ calls[r].val \in Seq(Chunks)
           /\ \/ Reply(r, 404, <<>>) /\ UNCHANGED read
              \/ Reply(r, 200, <<>>) /\ UNCHANGED read /\ req[r].kind = "head"
              \/ /\ Reply(r, 200, calls[r].val) /\ read' = read + 1
                 /\ req[r].kind = "get" /\ calls[r].val # <<>>
<1>1. Store!Return(r) /\ req[r].st = "loading" /\ UNCHANGED created
      /\ UNCHANGED <<backend, storeOpen, late, phase, loaded, listener, expired>>
  BY DEF FinishGet, closing, mainVars
<1>2. req[r].kind \in {"get", "head"} /\ calls[r].val \in Seq(Chunks)
  BY <1>1 DEF TypeInv, StoreTyped, RequestsTyped, RequestOK, Callers, CallType
<1> QED
  BY <1>1, <1>2 DEF FinishGet

LEMMA FinishSetIs ==
    ASSUME TypeInv, NEW r \in Requests, FinishSet(r)
    PROVE  /\ Store!Return(r) /\ req[r].st = "storing"
           /\ UNCHANGED <<backend, storeOpen, late, phase, loaded, listener, expired>>
           /\ Reply(r, 200, <<>>)
           /\ created' = IF req[r].kind = "post" THEN created + 1 ELSE created
           /\ UNCHANGED read /\ req[r].kind \in {"post", "log"}
BY DEF FinishSet, closing, mainVars, TypeInv, RequestsTyped, RequestOK

LEMMA FinishGetKeepsTypes ==
    ASSUME TypeInv, Alive, NEW r \in Requests, FinishGet(r)
    PROVE  TypeInv'
<1> DEFINE nothing == <<>>
<1>1. nothing \in Seq(Chunks) /\ calls[r].val \in Seq(Chunks)
  BY FinishGetIs
<1>2. \/ Reply(r, 404, nothing) /\ UNCHANGED read
      \/ Reply(r, 200, nothing) /\ UNCHANGED read /\ req[r].kind = "head"
      \/ Reply(r, 200, calls[r].val) /\ read' = read + 1 /\ req[r].kind = "get"
  BY FinishGetIs
<1> HIDE DEF nothing
<1>3. /\ Store!Return(r) /\ req[r].st \in {"loading", "storing"}
      /\ UNCHANGED <<backend, storeOpen, late, phase, loaded, listener, expired>>
      /\ UNCHANGED created /\ req[r].kind # "post"
  BY FinishGetIs
<1>4. CASE Reply(r, 404, nothing) /\ UNCHANGED read
  BY <1>1, <1>3, <1>4, FinishKeepsTypes
<1>5. CASE Reply(r, 200, nothing) /\ UNCHANGED read /\ req[r].kind = "head"
  BY <1>1, <1>3, <1>5, FinishKeepsTypes
<1>6. CASE Reply(r, 200, calls[r].val) /\ read' = read + 1 /\ req[r].kind = "get"
  BY <1>1, <1>3, <1>6, FinishKeepsTypes
<1> QED
  BY <1>2, <1>4, <1>5, <1>6

LEMMA FinishSetKeepsTypes ==
    ASSUME TypeInv, Alive, NEW r \in Requests, FinishSet(r)
    PROVE  TypeInv'
<1> DEFINE nothing == <<>>
<1>1. nothing \in Seq(Chunks) /\ Reply(r, 200, nothing)
  BY FinishSetIs
<1> HIDE DEF nothing
<1>2. req[r].kind # "get"
  BY FinishSetIs
<1> QED
  BY <1>1, <1>2, FinishSetIs, FinishKeepsTypes

LEMMA StoreStepKeepsTypes ==
    ASSUME TypeInv, Alive, NEW p \in Callers, StoreStep(p)
    PROVE  TypeInv'
<1>1. /\ UNCHANGED <<backend, storeOpen, late, phase, loaded, listener, expired, req, created, read>>
  BY DEF StoreStep, closing, mainVars, counters
<1>2. PICK c \in CallType : StoreEffect(p, c)
  BY StoreSteps
<1>3. /\ calls' = [calls EXCEPT ![p] = c] /\ calls[p].st # "idle" /\ c.st # "idle"
      /\ c.op = calls[p].op /\ c.key = calls[p].key /\ c.key \in Keys
      /\ c.st = "pending" => c = calls[p]
      /\ calls[p] \in CallType /\ calls[p].val \in Seq(Chunks)
  BY <1>2 DEF StoreEffect, TypeInv, StoreTyped, CallType
<1>4. docs' \in [Keys -> Seq(Chunks)]
  <2>1. \A v \in Seq(Chunks) : [docs EXCEPT ![c.key] = v] \in [Keys -> Seq(Chunks)]
    BY DEF TypeInv, StoreTyped
  <2>2. <<>> \in Seq(Chunks)
    OBVIOUS
  <2>3. \A n \in 1..Len(calls[p].val) : SubSeq(calls[p].val, 1, n) \in Seq(Chunks)
    BY <1>3
  <2> QED
    BY <1>2, <1>3, <2>1, <2>2, <2>3 DEF StoreEffect, TypeInv, StoreTyped
<1>5. /\ calls' \in [Callers -> CallType]
      /\ calls'[p] = c /\ \A x \in Callers \ {p} : calls'[x] = calls[x]
  BY <1>3 DEF TypeInv, StoreTyped
<1>6. StoreTyped'
  BY <1>3, <1>4, <1>5 DEF TypeInv, StoreTyped
<1>7. HandlersCall'
  BY <1>1, <1>3, <1>5 DEF TypeInv, HandlersCall, Alive, Callers
<1>8. MainCalls' /\ NobodyCalls'
  BY <1>1, <1>3, <1>5 DEF TypeInv, MainCalls, NobodyCalls, Alive, Callers
<1>9. MainTyped' /\ RequestsTyped' /\ CountersOK'
  BY <1>1, CountersSame DEF TypeInv, MainTyped, RequestsTyped, RequestOK
<1> QED
  BY <1>6, <1>7, <1>8, <1>9 DEF TypeInv

LEMMA LoadDocumentKeepsTypes ==
    ASSUME TypeInv, Alive, LoadDocument
    PROVE  TypeInv'
<1> DEFINE k == StaticDocs[loaded + 1].key
           v == StaticDocs[loaded + 1].content
<1>1. /\ UNCHANGED <<backend, storeOpen, phase, loaded, listener, expired, req, created, read>>
      /\ phase = "loading" /\ loaded < Len(StaticDocs) /\ Begin(Main, "set", k, v)
  BY DEF LoadDocument, closing, mainVars, counters
<1>2. k \in Keys /\ v \in Seq(Chunks) /\ Main \in Callers
  <2>1. loaded + 1 \in 1..Len(StaticDocs)
    BY <1>1, Constants DEF TypeInv, MainTyped
  <2> QED
    BY <2>1, Constants DEF Callers
<1> HIDE DEF k, v
<1>3. /\ StoreTyped' /\ late' \subseteq Callers
      /\ calls'[Main].st = "pending" /\ calls'[Main].op = "set" /\ calls'[Main].key = k
      /\ calls'[Main].val = v
      /\ \A x \in Callers \ {Main} : calls'[x] = calls[x]
  BY <1>1, <1>2, CallsBegin
<1>4. HandlersCall'
  BY <1>1, <1>3, Constants DEF TypeInv, HandlersCall, Alive, Callers
<1>5. MainCalls' /\ NobodyCalls'
  BY <1>1, <1>3 DEF MainCalls, NobodyCalls, Alive, k, v
<1>6. MainTyped' /\ RequestsTyped' /\ CountersOK'
  BY <1>1, <1>3, CountersSame DEF TypeInv, MainTyped, RequestsTyped, RequestOK
<1> QED
  BY <1>3, <1>4, <1>5, <1>6 DEF TypeInv

LEMMA DocumentLoadedKeepsTypes ==
    ASSUME TypeInv, Alive, DocumentLoaded
    PROVE  TypeInv' /\ loaded < Len(StaticDocs)
<1>1. /\ UNCHANGED <<backend, storeOpen, late, phase, listener, expired, req, created, read>>
      /\ phase = "loading" /\ Store!Return(Main) /\ loaded' = loaded + 1
  BY DEF DocumentLoaded, closing, counters
<1>2. /\ StoreTyped' /\ calls[Main].st = "done" /\ calls'[Main].st = "idle"
      /\ \A x \in Callers \ {Main} : calls'[x] = calls[x]
  BY <1>1, CallsReturn DEF Callers
<1>3. loaded < Len(StaticDocs)
  BY <1>2 DEF TypeInv, MainCalls
<1>4. HandlersCall'
  BY <1>1, <1>2, Constants DEF TypeInv, HandlersCall, Alive, Callers
<1>5. MainCalls' /\ NobodyCalls'
  BY <1>1, <1>2 DEF MainCalls, NobodyCalls, Alive
<1>6. MainTyped' /\ RequestsTyped' /\ CountersOK'
  BY <1>1, <1>3, Constants, CountersSame DEF TypeInv, MainTyped, RequestsTyped, RequestOK
<1> QED
  BY <1>2, <1>3, <1>4, <1>5, <1>6 DEF TypeInv

LEMMA EndingKeepsTypes ==
    ASSUME TypeInv, Ending
    PROVE  TypeInv' /\ UNCHANGED <<docs, loaded, req>> /\ \A p \in Callers : calls'[p] = Store!Idle
<1>1. PICK how \in {"killed", "exited"} : End(how)
  BY DEF Ending
<1>2. UNCHANGED <<backend, storeOpen, expired, req, created, read, docs, loaded>>
  BY <1>1 DEF Ending, End, closing, counters
<1>3. /\ phase' = how /\ listener' = "off" /\ late' = {}
      /\ calls' = [p \in Callers |-> Store!Idle]
  BY <1>1 DEF End
<1>4. Store!Idle \in CallType /\ Store!Idle.st = "idle"
  BY DEF Store!Idle, Store!Nothing, CallType
<1>5. StoreTyped' /\ \A p \in Callers : calls'[p] = Store!Idle
  BY <1>2, <1>3, <1>4 DEF TypeInv, StoreTyped
<1>6. HandlersCall' /\ MainCalls' /\ NobodyCalls'
  BY <1>3, <1>5 DEF HandlersCall, MainCalls, NobodyCalls, Alive
<1>7. MainTyped' /\ RequestsTyped' /\ CountersOK'
  BY <1>2, <1>3, CountersSame DEF TypeInv, MainTyped, RequestsTyped, RequestOK
<1> QED
  BY <1>2, <1>5, <1>6, <1>7 DEF TypeInv

LEMMA PassingKeepsTypes ==
    ASSUME TypeInv, Alive, Passing
    PROVE  TypeInv'
<1>1. UNCHANGED <<docs, calls, late, backend, loaded, req, created, read>>
  BY DEF Passing, counters
<1>2. StoreTyped' /\ RequestsTyped' /\ CountersOK'
  BY <1>1, CountersSame DEF TypeInv, StoreTyped, RequestsTyped, RequestOK
<1>3. MainTyped' /\ Alive'
  BY <1>1 DEF Passing, TypeInv, MainTyped, Alive
<1>4. HandlersCall' /\ NobodyCalls'
  BY <1>1, <1>3 DEF TypeInv, HandlersCall, NobodyCalls
<1>5. MainCalls'
  BY <1>1, <1>3 DEF Passing, TypeInv, MainCalls
<1> QED
  BY <1>2, <1>3, <1>4, <1>5 DEF TypeInv

LEMMA LoseKeepsTypes ==
    ASSUME TypeInv, NEW k \in Keys, Lose(k)
    PROVE  TypeInv'
<1>1. /\ UNCHANGED <<calls, late, backend, storeOpen, phase, loaded, listener, expired, req,
                     created, read>>
      /\ docs' = [docs EXCEPT ![k] = <<>>]
  BY DEF Lose, closing, mainVars, counters, Store!Vanish, Store!Nothing
<1>2. <<>> \in Seq(Chunks)
  OBVIOUS
<1>3. StoreTyped'
  BY <1>1, <1>2 DEF TypeInv, StoreTyped
<1>4. HandlersCall' /\ MainCalls' /\ NobodyCalls' /\ MainTyped'
  BY <1>1 DEF TypeInv, HandlersCall, MainCalls, NobodyCalls, MainTyped, Alive
<1>5. RequestsTyped' /\ CountersOK'
  BY <1>1, CountersSame DEF TypeInv, RequestsTyped, RequestOK
<1> QED
  BY <1>3, <1>4, <1>5 DEF TypeInv

LEMMA StutterKeepsTypes ==
    ASSUME TypeInv, UNCHANGED vars
    PROVE  TypeInv'
<1>1. UNCHANGED <<docs, calls, backend, storeOpen, late, phase, loaded, listener, expired,
                  req, created, read>>
  BY DEF vars
<1>2. StoreTyped' /\ MainTyped' /\ HandlersCall' /\ MainCalls' /\ NobodyCalls'
  BY <1>1 DEF TypeInv, StoreTyped, MainTyped, HandlersCall, MainCalls, NobodyCalls, Alive
<1>3. RequestsTyped' /\ CountersOK'
  BY <1>1, CountersSame DEF TypeInv, RequestsTyped, RequestOK
<1> QED
  BY <1>2, <1>3 DEF TypeInv

LEMMA InitTypes == Init => TypeInv
<1> SUFFICES ASSUME Init PROVE TypeInv
  OBVIOUS
<1>1. /\ docs = [k \in Keys |-> <<>>] /\ calls = [p \in Callers |-> Store!Idle]
      /\ backend \in Backends /\ storeOpen = TRUE /\ late = {} /\ phase = "loading" /\ loaded = 0
      /\ listener = "off" /\ expired = FALSE /\ req = [r \in Requests |-> NewRequest]
      /\ created = 0 /\ read = 0
  BY DEF Init, Store!Init, Store!Nothing
<1>2. Store!Idle \in CallType /\ Store!Idle.st = "idle" /\ <<>> \in Seq(Chunks)
  BY DEF Store!Idle, Store!Nothing, CallType
<1>3. NewRequest \in RequestType
  BY DEF NewRequest, RequestType
<1>4. RequestOK(NewRequest) /\ NewRequest.st = "new" /\ NewRequest.code = 0
  BY <1>3 DEF NewRequest, RequestOK
<1>5. StoreTyped
  BY <1>1, <1>2 DEF StoreTyped
<1>6. MainTyped
  <2>1. 0 \in 0..Len(StaticDocs) /\ {} \subseteq Callers
    BY Constants
  <2> QED
    BY <1>1, <2>1 DEF MainTyped
<1>7. RequestsTyped
  BY <1>1, <1>3, <1>4 DEF RequestsTyped
<1>8. HandlersCall /\ MainCalls /\ NobodyCalls
  BY <1>1, <1>2, <1>4 DEF HandlersCall, MainCalls, NobodyCalls, Alive, Callers
<1>9. CountersOK
  <2>1. CreatedBy = {} /\ ReadBy = {}
    BY <1>1, <1>4 DEF CreatedBy, ReadBy, Served
  <2> QED
    BY <1>1, <2>1, FS_EmptySet DEF CountersOK
<1> QED
  BY <1>5, <1>6, <1>7, <1>8, <1>9 DEF TypeInv

LEMMA NextKeepsTypes == TypeInv /\ [Next]_vars => TypeInv'
<1> SUFFICES ASSUME TypeInv, [Next]_vars PROVE TypeInv'
  OBVIOUS
<1>1. CASE UNCHANGED vars
  BY <1>1, StutterKeepsTypes
<1>2. CASE Next
  <2>1. Alive \/ \E k \in Keys : Lose(k)
    BY <1>2 DEF Next
  <2>2. CASE Alive
    BY <1>2, <2>2, StepKinds, AcceptKeepsTypes, TurningKeepsTypes, StartGetKeepsTypes,
       FinishGetKeepsTypes, StartSetKeepsTypes, FinishSetKeepsTypes, StoreStepKeepsTypes,
       LoadDocumentKeepsTypes, DocumentLoadedKeepsTypes, EndingKeepsTypes, PassingKeepsTypes,
       LoseKeepsTypes
  <2> QED
    BY <2>1, <2>2, LoseKeepsTypes
<1> QED
  BY <1>1, <1>2

\* In every life of the server the variables keep their types, each goroutine is
\* inside the storage exactly when its handler waits for it, and the counters
\* are those of the requests that were answered with a 200.
THEOREM ServerTyping == Spec => [](TypeInv /\ TypeOK)
<1>1. TypeInv => TypeOK
  BY Counted DEF TypeInv, TypeOK, MainTyped, RequestsTyped, HandlersCall, CountersOK
<1> QED
  BY <1>1, InitTypes, NextKeepsTypes, PTL DEF Spec
=============================================================================
