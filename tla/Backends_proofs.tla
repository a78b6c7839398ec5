-------------------------- MODULE Backends_proofs --------------------------
(* Theorems about Backends, for every value of its constants. *)
EXTENDS Backends, TLAPS, SequenceTheorems

\* A file that somebody has opened exists: nothing removes a file.
OpenedExists ==
    \A p \in Procs :
        config.type = "file" /\ call[p].pc = "opened" => rows[call[p].key] # None

TypeInv == TypeOK /\ OpenedExists

-----------------------------------------------------------------------------
(* The operators. *)

\* Writing one content over another yields a content.
LEMMA OverlayContents ==
    ASSUME NEW v \in Contents, NEW old \in Contents
    PROVE  Overlay(v, old) \in Contents
<1> DEFINE n == LongerOf(Len(v), Len(old))
<1>1. n \in Nat
  BY DEF LongerOf, Contents
<1>2. \A i \in 1..n : (IF i <= Len(v) THEN v[i] ELSE old[i]) \in Chunks
  BY DEF LongerOf, Contents
<1>3. Overlay(v, old) \in [1..n -> Chunks]
  BY <1>2 DEF Overlay
<1> QED
  BY <1>1, <1>3, SeqDef DEF Contents

LEMMA PrefixContents ==
    ASSUME NEW v \in Contents, NEW n \in 0..Len(v) - 1
    PROVE  SubSeq(v, 1, n) \in Contents
BY DEF Contents

\* The deadlines the adapters compute are numbers.
LEMMA DeadlinesAreInt ==
    ASSUME TypeOK
    PROVE  /\ Expiration \in Int
           /\ PxTicks(Expiration) \in Int
           /\ ExpireTicks(Expiration) \in Int
           /\ ItemExpiry(0) \in Int
           /\ ItemExpiry(Int32(Expiration)) \in Int
           /\ \A t \in Int : MongoDate(t) \in Int /\ Second(t) \in Int
<1>0. /\ now \in Nat /\ Expiration \in Int
      /\ TicksPerMilli \in Nat \ {0} /\ TicksPerSecond \in Nat \ {0}
  BY StorageConstants DEF TypeOK, Expiration
<1>1. \A t \in Int : /\ t \div TicksPerMilli \in Int
                     /\ t \div TicksPerSecond \in Int
  BY <1>0
<1>2. PxTicks(Expiration) \in Int /\ ExpireTicks(Expiration) \in Int
  BY <1>0, <1>1 DEF PxTicks, ExpireTicks, AtLeastOne
<1>3. \A t \in Int : MongoDate(t) \in Int /\ Second(t) \in Int
  BY <1>0, <1>1 DEF MongoDate, Second
<1>4. \A n \in Int : ItemExpiry(n) \in Int
  <2> SUFFICES ASSUME NEW n \in Int PROVE ItemExpiry(n) \in Int
    OBVIOUS
  <2>1. CASE n = 0
    BY <2>1, MemcachedConstants DEF ItemExpiry
  <2>2. CASE n < 0
    BY <2>2, <1>0 DEF ItemExpiry
  <2>3. CASE n \in 1..MaxRelative
    BY <2>3, <1>0, <1>3, MemcachedConstants DEF ItemExpiry
  <2>4. CASE n > MaxRelative
    BY <2>4, <1>0, MemcachedConstants DEF ItemExpiry
  <2> QED
    BY <2>1, <2>2, <2>3, <2>4, MemcachedConstants
<1>5. Int32(Expiration) \in Int
  BY <1>0, MemcachedConstants DEF Int32
<1> QED
  BY <1>0, <1>2, <1>3, <1>4, <1>5

-----------------------------------------------------------------------------
(* What an assignment of the adapters preserves. *)

\* The deadline a SET of Redis leaves is a number.
LEMMA SetExpiryIsInt ==
    ASSUME TypeOK, NEW k \in Keys, NEW skip \in BOOLEAN
    PROVE  SetExpiry(k, IF skip THEN 0 ELSE Expiration) \in Int
<1>1. /\ PxTicks(Expiration) \in Int /\ now \in Nat
  BY DeadlinesAreInt DEF TypeOK
<1>2. Live(k) => rows[k].exp \in Int
  BY DEF TypeOK, RowsOK, Live, RowType
<1>3. CASE skip
  BY <1>2, <1>3 DEF SetExpiry, KeepTTL
<1>4. CASE ~skip
  BY <1>1, <1>2, <1>4 DEF SetExpiry
<1> QED
  BY <1>3, <1>4

LEMMA EmptyContents == Empty \in Contents
BY DEF Empty, Contents

LEMMA IdleTyped == IdleCall \in CallType
BY EmptyContents DEF IdleCall, CallType

LEMMA ChangedCall ==
    ASSUME CallOK, NEW p \in Procs, NEW c \in CallType, c.key \in Keys,
           call' = [call EXCEPT ![p] = c]
    PROVE  CallOK'
BY DEF CallOK

LEMMA AnswerTyped ==
    ASSUME CallOK, NEW p \in Procs, call[p].pc # "idle",
           NEW val \in Contents, NEW err \in BOOLEAN, Answer(p, val, err)
    PROVE  CallOK'
<1> DEFINE c == [IdleCall EXCEPT !.pc = "returned", !.op = call[p].op,
                                 !.key = call[p].key, !.val = val, !.err = err]
<1>1. call[p].op \in {"set", "get"} /\ call[p].key \in Keys
  BY DEF CallOK, CallType
<1>2. c \in CallType /\ c.key \in Keys
  BY <1>1, IdleTyped DEF CallType
<1>3. call' = [call EXCEPT ![p] = c]
  BY DEF Answer
<1> QED
  BY <1>2, <1>3, ChangedCall

LEMMA GoOnTyped ==
    ASSUME CallOK, NEW p \in Procs, call[p].pc # "idle", now \in Nat,
           NEW pc \in {"fetched", "overdue"}, NEW row \in RowType, GoOn(p, pc, row)
    PROVE  CallOK'
<1> DEFINE c == [call[p] EXCEPT !.pc = pc, !.val = row.val, !.row = row, !.at = Stamp]
<1>1. call[p] \in CallType /\ call[p].key \in Keys /\ Stamp \in Int
  BY DEF CallOK, Stamp
<1>2. row.val \in Contents
  BY DEF RowType
<1>3. c \in CallType /\ c.key \in Keys
  BY <1>1, <1>2 DEF CallType
<1>4. call' = [call EXCEPT ![p] = c]
  BY <1>1 DEF GoOn, CallOK
<1> QED
  BY <1>3, <1>4, ChangedCall

LEMMA StoreTyped ==
    ASSUME RowsOK, NEW k \in Keys, NEW row \in RowType \cup {None}, Store(k, row)
    PROVE  RowsOK'
BY DEF RowsOK, Store

LEMMA RowTyped ==
    ASSUME NEW v \in Contents, NEW exp \in Int
    PROVE  Row(v, exp) \in RowType /\ Row(v, exp) # None
BY StorageConstants DEF Row, RowType

LEMMA PcTyped ==
    ASSUME CallOK, NEW p \in Procs, call[p].pc # "idle", call[p].key \in Keys,
           call' = [call EXCEPT ![p].pc = "opened"]
    PROVE  CallOK'
BY DEF CallOK, CallType

LEMMA ValTyped ==
    ASSUME CallOK, NEW p \in Procs, call[p].pc # "idle", NEW val \in Contents,
           call' = [call EXCEPT ![p].val = val]
    PROVE  CallOK'
BY DEF CallOK, CallType

-----------------------------------------------------------------------------
(* Every step of every adapter preserves the type invariant. *)

LEMMA InProgressTyped ==
    ASSUME TypeOK, NEW p \in Procs, call[p].pc # "idle"
    PROVE  /\ call[p] \in CallType /\ call[p].key \in Keys
           /\ call[p].val \in Contents /\ call[p].at \in Int
           /\ rows[call[p].key] \in RowType \cup {None}
BY DEF TypeOK, CallOK, RowsOK, CallType

LEMMA FileTyped ==
    ASSUME TypeInv, NEW p \in Procs, config.type = "file", FileStep(p)
    PROVE  TypeInv'
<1> DEFINE k == call[p].key
<1>0. call[p].pc # "idle"
  BY DEF FileStep, FileCreate, FileWrite, FileWriteShort, FileOpen, FileReadMore,
         FileReadEnd, At
<1>1. /\ TypeOK /\ CallOK /\ RowsOK /\ call[p] \in CallType /\ k \in Keys
      /\ call[p].val \in Contents /\ rows[k] \in RowType \cup {None}
  BY <1>0, InProgressTyped DEF TypeInv, TypeOK
<1>2. ASSUME call[p].pc = "opened"
      PROVE  rows[k] \in RowType /\ rows[k].val \in Contents
  BY <1>1, <1>2 DEF TypeInv, OpenedExists, RowType
<1>3. ASSUME UNCHANGED <<config, now, lastId, given>>, CallOK', RowsOK', OpenedExists'
      PROVE  TypeInv'
  BY <1>1, <1>3 DEF TypeInv, TypeOK
<1>4. CASE FileCreate(p)
  <2>1. Row(Empty, 0) \in RowType /\ Row(Empty, 0) # None
    BY RowTyped, EmptyContents
  <2>2. RowsOK'
    BY <1>1, <1>4, <2>1, StoreTyped DEF FileCreate
  <2>3. CallOK'
    BY <1>0, <1>1, <1>4, PcTyped DEF FileCreate
  <2>4. OpenedExists'
    BY <1>1, <1>4, <2>1
    DEF FileCreate, Store, TypeInv, OpenedExists, RowsOK, CallOK
  <2> QED
    BY <1>3, <1>4, <2>2, <2>3, <2>4 DEF FileCreate
<1>5. CASE FileWrite(p) \/ FileWriteShort(p)
  <2>1. PICK v \in Contents, err \in BOOLEAN :
          /\ Store(k, Row(v, 0)) /\ Answer(p, Empty, err)
          /\ UNCHANGED <<config, now, lastId, given>>
    <3>1. CASE FileWrite(p)
      BY <1>1, <1>2, <3>1, OverlayContents DEF FileWrite, At
    <3>2. CASE FileWriteShort(p)
      <4>1. PICK n \in 0..Len(call[p].val) - 1 :
              Store(k, Row(Overlay(SubSeq(call[p].val, 1, n), rows[k].val), 0))
        BY <3>2 DEF FileWriteShort
      <4>2. Overlay(SubSeq(call[p].val, 1, n), rows[k].val) \in Contents
        BY <1>1, <1>2, <3>2, PrefixContents, OverlayContents DEF FileWriteShort, At
      <4> QED
        BY <3>2, <4>1, <4>2 DEF FileWriteShort
    <3> QED
      BY <1>5, <3>1, <3>2
  <2>2. Row(v, 0) \in RowType /\ Row(v, 0) # None
    BY RowTyped
  <2>3. RowsOK' /\ CallOK'
    BY <1>0, <1>1, <2>1, <2>2, StoreTyped, AnswerTyped, EmptyContents
  <2>4. OpenedExists'
    BY <1>1, <2>1, <2>2
    DEF Store, Answer, IdleCall, TypeInv, OpenedExists, RowsOK, CallOK
  <2> QED
    BY <1>3, <2>1, <2>3, <2>4
<1>6. CASE FileOpen(p)
  <2>1. CASE rows[k] = None
    <3>1. CallOK'
      BY <1>0, <1>1, <1>6, <2>1, AnswerTyped, EmptyContents DEF FileOpen
    <3>2. OpenedExists'
      BY <1>1, <1>6, <2>1 DEF FileOpen, Answer, IdleCall, TypeInv, OpenedExists, CallOK
    <3> QED
      BY <1>1, <1>3, <1>6, <3>1, <3>2 DEF FileOpen, RowsOK
  <2>2. CASE rows[k] # None
    <3>1. rows[k].val \in Contents
      BY <1>1, <2>2 DEF RowType
    <3>2. CallOK'
      <4> DEFINE c == [call[p] EXCEPT !.pc = "opened", !.val = rows[k].val]
      <4>1. c \in CallType /\ c.key \in Keys
        BY <1>1, <3>1 DEF CallType
      <4>2. call' = [call EXCEPT ![p] = c]
        BY <1>1, <1>6, <2>2 DEF FileOpen, CallOK
      <4> QED
        BY <1>1, <4>1, <4>2, ChangedCall
    <3>3. OpenedExists'
      <4>1. /\ call'[p].key = k /\ \A q \in Procs \ {p} : call'[q] = call[q]
            /\ rows' = rows /\ config' = config
        BY <1>1, <1>6, <2>2 DEF FileOpen, CallOK, CallType
      <4> QED
        BY <2>2, <4>1 DEF TypeInv, OpenedExists
    <3> QED
      BY <1>1, <1>3, <1>6, <3>2, <3>3 DEF FileOpen, RowsOK
  <2> QED
    BY <2>1, <2>2
<1>7. CASE FileReadMore(p)
  <2>1. Overlay(call[p].val, rows[k].val) \in Contents
    BY <1>1, <1>2, <1>7, OverlayContents DEF FileReadMore, At
  <2>2. CallOK'
    BY <1>0, <1>1, <1>7, <2>1, ValTyped DEF FileReadMore
  <2>3. OpenedExists'
    BY <1>1, <1>7 DEF FileReadMore, TypeInv, OpenedExists, CallOK
  <2> QED
    BY <1>1, <1>3, <1>7, <2>2, <2>3 DEF FileReadMore, RowsOK
<1>8. CASE FileReadEnd(p)
  <2>1. CallOK'
    BY <1>0, <1>1, <1>8, AnswerTyped DEF FileReadEnd
  <2>2. OpenedExists'
    BY <1>1, <1>8 DEF FileReadEnd, Answer, IdleCall, TypeInv, OpenedExists, CallOK
  <2> QED
    BY <1>1, <1>3, <1>8, <2>1, <2>2 DEF FileReadEnd, RowsOK
<1> QED
  BY <1>4, <1>5, <1>6, <1>7, <1>8 DEF FileStep

\* The other adapters share what remains to be shown of a step of theirs: that
\* the rows, the calls and the row numbers have their types.
LEMMA OtherTyped ==
    ASSUME TypeInv, config.type # "file", UNCHANGED <<config, now, given>>,
           RowsOK', CallOK', lastId' \in Nat
    PROVE  TypeInv'
BY DEF TypeInv, TypeOK, OpenedExists

\* A command of Redis that is sent again keeps its call.
LEMMA SendAgainTyped ==
    ASSUME CallOK, NEW p \in Procs, SendAgain(p)
    PROVE  CallOK'
<1>1. /\ call[p] \in CallType /\ call[p].tries + 1 \in Nat
      /\ call' = [call EXCEPT ![p] = [call[p] EXCEPT !.tries = call[p].tries + 1]]
  BY DEF CallOK, CallType, SendAgain
<1> DEFINE c == [call[p] EXCEPT !.tries = call[p].tries + 1]
<1>2. c \in CallType /\ c.pc = call[p].pc /\ c.key = call[p].key
  BY <1>1 DEF CallType
<1> HIDE DEF c
<1> QED
  BY <1>1, <1>2 DEF CallOK, c

LEMMA RedisTyped ==
    ASSUME TypeInv, NEW p \in Procs, config.type = "redis", RedisStep(p)
    PROVE  TypeInv'
<1> DEFINE k == call[p].key
<1>0. call[p].pc # "idle"
  BY DEF RedisStep, RedisSet, RedisGet, RedisExpire, At
<1>1. /\ TypeOK /\ CallOK /\ RowsOK /\ call[p] \in CallType /\ k \in Keys
      /\ call[p].val \in Contents /\ rows[k] \in RowType \cup {None}
      /\ now \in Nat /\ lastId \in Nat
  BY <1>0, InProgressTyped DEF TypeInv, TypeOK
<1>2. /\ ExpireTicks(Expiration) \in Int
      /\ SetExpiry(k, IF call[p].skip THEN 0 ELSE Expiration) \in Int
  BY <1>1, DeadlinesAreInt, SetExpiryIsInt DEF CallType
<1>3. ASSUME Live(k) PROVE rows[k] \in RowType /\ rows[k].val \in Contents
  BY <1>1, <1>3 DEF Live, RowType
<1>4. CASE RedisSet(p)
  <2> DEFINE exp == SetExpiry(k, IF call[p].skip THEN 0 ELSE Expiration)
  <2>1. exp \in Int
    BY <1>2
  <2>2. Row(call[p].val, exp) \in RowType
    BY <1>1, <2>1, RowTyped
  <2>3. RowsOK'
    BY <1>1, <1>4, <2>2, StoreTyped DEF RedisSet
  <2>4. CallOK'
    <3>1. CASE SendAgain(p)
      BY <1>1, <3>1, SendAgainTyped
    <3>2. CASE \E gaveUp \in BOOLEAN : Answer(p, Empty, gaveUp)
      BY <1>0, <1>1, <3>2, AnswerTyped, EmptyContents
    <3> QED
      BY <1>4, <3>1, <3>2 DEF RedisSet
  <2> QED
    BY <1>1, <1>4, <2>3, <2>4, OtherTyped DEF RedisSet
<1>5. CASE RedisGet(p)
  <2>1. CallOK'
    <3>1. CASE ~Live(k) /\ Answer(p, Empty, TRUE)
      BY <1>0, <1>1, <3>1, AnswerTyped, EmptyContents
    <3>2. CASE Live(k) /\ Answer(p, rows[k].val, FALSE)
      BY <1>0, <1>1, <1>3, <3>2, AnswerTyped
    <3>3. CASE Live(k) /\ GoOn(p, "fetched", rows[k])
      BY <1>0, <1>1, <1>3, <3>3, GoOnTyped
    <3> QED
      BY <1>5, <3>1, <3>2, <3>3 DEF RedisGet
  <2> QED
    BY <1>1, <1>5, <2>1, OtherTyped DEF RedisGet, RowsOK
<1>6. CASE RedisExpire(p)
  <2>1. CallOK'
    BY <1>0, <1>1, <1>6, AnswerTyped, SendAgainTyped DEF RedisExpire
  <2>2. RowsOK'
    <3>1. CASE UNCHANGED rows
      BY <1>1, <3>1 DEF RowsOK
    <3>2. CASE Store(k, None)
      BY <1>1, <3>2, StoreTyped
    <3>3. CASE Live(k) /\ Store(k, [rows[k] EXCEPT !.exp = now + ExpireTicks(Expiration)])
      BY <1>1, <1>2, <1>3, <3>3, StoreTyped DEF RowType
    <3> QED
      BY <1>6, <3>1, <3>2, <3>3 DEF RedisExpire
  <2> QED
    BY <1>1, <1>6, <2>1, <2>2, OtherTyped DEF RedisExpire
<1> QED
  BY <1>4, <1>5, <1>6 DEF RedisStep

LEMMA MemcachedTyped ==
    ASSUME TypeInv, NEW p \in Procs, config.type = "memcached", MemcachedStep(p)
    PROVE  TypeInv'
<1> DEFINE k == call[p].key
<1>0. call[p].pc # "idle"
  BY DEF MemcachedStep, MemcachedSet, MemcachedGet, MemcachedReplace, At
<1>1. /\ TypeOK /\ CallOK /\ RowsOK /\ call[p] \in CallType /\ k \in Keys
      /\ call[p].val \in Contents /\ rows[k] \in RowType \cup {None}
      /\ lastId \in Nat
  BY <1>0, InProgressTyped DEF TypeInv, TypeOK
<1>2. ItemExpiry(0) \in Int /\ ItemExpiry(Int32(Expiration)) \in Int
  BY <1>1, DeadlinesAreInt
<1>3. ASSUME Live(k) PROVE rows[k] \in RowType /\ rows[k].val \in Contents
  BY <1>1, <1>3 DEF Live, RowType
<1>4. CASE MemcachedSet(p)
  <2> DEFINE exp == ItemExpiry(IF call[p].skip THEN 0 ELSE Int32(Expiration))
  <2>1. Row(call[p].val, exp) \in RowType
    BY <1>1, <1>2, RowTyped
  <2>2. RowsOK'
    BY <1>1, <1>4, <2>1, StoreTyped DEF MemcachedSet
  <2>3. CallOK'
    BY <1>0, <1>1, <1>4, AnswerTyped, EmptyContents DEF MemcachedSet
  <2> QED
    BY <1>1, <1>4, <2>2, <2>3, OtherTyped DEF MemcachedSet
<1>5. CASE MemcachedGet(p)
  <2>1. CallOK'
    <3>1. CASE ~Live(k) /\ Answer(p, Empty, TRUE)
      BY <1>0, <1>1, <3>1, AnswerTyped, EmptyContents
    <3>2. CASE Live(k) /\ Answer(p, rows[k].val, FALSE)
      BY <1>0, <1>1, <1>3, <3>2, AnswerTyped
    <3>3. CASE Live(k) /\ GoOn(p, "fetched", rows[k])
      BY <1>0, <1>1, <1>3, <3>3, GoOnTyped DEF TypeOK
    <3> QED
      BY <1>5, <3>1, <3>2, <3>3 DEF MemcachedGet
  <2> QED
    BY <1>1, <1>5, <2>1, OtherTyped DEF MemcachedGet, RowsOK
<1>6. CASE MemcachedReplace(p)
  <2>1. CallOK'
    BY <1>0, <1>1, <1>6, AnswerTyped DEF MemcachedReplace
  <2>2. RowsOK'
    <3>1. CASE UNCHANGED rows
      BY <1>1, <3>1 DEF RowsOK
    <3>2. CASE Store(k, Row(call[p].val, ItemExpiry(Int32(Expiration))))
      BY <1>1, <1>2, <3>2, StoreTyped, RowTyped
    <3> QED
      BY <1>6, <3>1, <3>2 DEF MemcachedReplace
  <2> QED
    BY <1>1, <1>6, <2>1, <2>2, OtherTyped DEF MemcachedReplace
<1> QED
  BY <1>4, <1>5, <1>6 DEF MemcachedStep

LEMMA MongoTyped ==
    ASSUME TypeInv, NEW p \in Procs, config.type = "mongodb", MongoStep(p)
    PROVE  TypeInv'
<1> DEFINE k == call[p].key
           deadline == MongoDate(call[p].at + Expiration)
<1>0. call[p].pc # "idle"
  BY DEF MongoStep, MongoSet, MongoFind, MongoDelete, MongoUpdate, At
<1>1. /\ TypeOK /\ CallOK /\ RowsOK /\ call[p] \in CallType /\ k \in Keys
      /\ call[p].val \in Contents /\ rows[k] \in RowType \cup {None}
      /\ lastId \in Nat /\ now \in Nat
  BY <1>0, InProgressTyped DEF TypeInv, TypeOK
<1>2. deadline \in Int
  BY <1>0, <1>1, InProgressTyped, DeadlinesAreInt
<1>3. ASSUME rows[k] # None PROVE rows[k] \in RowType /\ rows[k].val \in Contents
  BY <1>1, <1>3 DEF RowType
<1>4. CASE MongoSet(p)
  <2>1. Row(call[p].val, IF call[p].skip THEN 0 ELSE deadline) \in RowType
    BY <1>1, <1>2, RowTyped
  <2>2. RowsOK'
    <3>1. CASE UNCHANGED rows
      BY <1>1, <3>1 DEF RowsOK
    <3>2. CASE Store(k, Row(call[p].val, IF call[p].skip THEN 0 ELSE deadline))
      BY <1>1, <2>1, <3>2, StoreTyped
    <3> QED
      BY <1>4, <3>1, <3>2 DEF MongoSet
  <2>3. CallOK'
    BY <1>0, <1>1, <1>4, AnswerTyped, EmptyContents DEF MongoSet
  <2> QED
    BY <1>1, <1>4, <2>2, <2>3, OtherTyped DEF MongoSet
<1>5. CASE MongoFind(p)
  <2>1. CallOK'
    <3>1. CASE Answer(p, Empty, TRUE)
      BY <1>0, <1>1, <3>1, AnswerTyped, EmptyContents
    <3>2. CASE rows[k] # None /\ Answer(p, rows[k].val, FALSE)
      BY <1>0, <1>1, <1>3, <3>2, AnswerTyped
    <3>3. CASE rows[k] # None /\ (\/ GoOn(p, "fetched", rows[k])
                                  \/ GoOn(p, "overdue", rows[k]))
      BY <1>0, <1>1, <1>3, <3>3, GoOnTyped
    <3> QED
      BY <1>5, <3>1, <3>2, <3>3 DEF MongoFind
  <2> QED
    BY <1>1, <1>5, <2>1, OtherTyped DEF MongoFind, RowsOK
<1>6. CASE MongoDelete(p)
  <2>1. CallOK' /\ RowsOK'
    BY <1>0, <1>1, <1>6, AnswerTyped, EmptyContents, StoreTyped DEF MongoDelete
  <2> QED
    BY <1>1, <1>6, <2>1, OtherTyped DEF MongoDelete
<1>7. CASE MongoUpdate(p)
  <2>1. CallOK'
    BY <1>0, <1>1, <1>7, AnswerTyped DEF MongoUpdate
  <2>2. RowsOK'
    <3>1. CASE rows[k] = None
      BY <1>1, <1>7, <3>1 DEF MongoUpdate, RowsOK
    <3>2. CASE rows[k] # None
      <4>1. [rows[k] EXCEPT !.exp = deadline] \in RowType
        BY <1>2, <1>3, <3>2 DEF RowType
      <4> QED
        BY <1>1, <1>7, <3>2, <4>1, StoreTyped DEF MongoUpdate
    <3> QED
      BY <3>1, <3>2
  <2> QED
    BY <1>1, <1>7, <2>1, <2>2, OtherTyped DEF MongoUpdate
<1> QED
  BY <1>4, <1>5, <1>6, <1>7 DEF MongoStep

LEMMA PostgresTyped ==
    ASSUME TypeInv, NEW p \in Procs, config.type = "postgres", PostgresStep(p)
    PROVE  TypeInv'
<1> DEFINE k == call[p].key
<1>0. call[p].pc # "idle"
  BY DEF PostgresStep, PostgresSet, PostgresSelect, PostgresDelete, PostgresUpdate, At
<1>1. /\ TypeOK /\ CallOK /\ RowsOK /\ call[p] \in CallType /\ k \in Keys
      /\ call[p].val \in Contents /\ rows[k] \in RowType \cup {None}
      /\ lastId \in Nat /\ now \in Nat
  BY <1>0, InProgressTyped DEF TypeInv, TypeOK
<1>2. UnixDeadline(p) \in Int
  BY <1>0, <1>1, InProgressTyped, DeadlinesAreInt DEF UnixDeadline
<1>3. ASSUME rows[k] # None PROVE rows[k] \in RowType /\ rows[k].val \in Contents
  BY <1>1, <1>3 DEF RowType
<1>4. CASE PostgresSet(p)
  <2> DEFINE exp == IF call[p].skip THEN 0 ELSE UnixDeadline(p)
  <2>1. RowsOK' /\ lastId' \in Nat
    <3>1. CASE /\ lastId' = lastId + 1
               /\ Store(k, [val |-> call[p].val, exp |-> exp, id |-> lastId'])
      <4>1. [val |-> call[p].val, exp |-> exp, id |-> lastId'] \in RowType
        BY <1>1, <1>2, <3>1 DEF RowType
      <4> QED
        BY <1>1, <3>1, <4>1, StoreTyped
    <3>2. CASE /\ rows[k] # None /\ UNCHANGED lastId
               /\ Store(k, [rows[k] EXCEPT !.val = call[p].val, !.exp = exp])
      <4>0. exp \in Int /\ call[p].val \in Contents /\ rows[k] \in RowType
        BY <1>1, <1>2, <1>3, <3>2
      <4> HIDE DEF exp
      <4>1. [rows[k] EXCEPT !.val = call[p].val, !.exp = exp] \in RowType
        BY <4>0 DEF RowType
      <4> QED
        BY <1>1, <3>2, <4>1, StoreTyped
    <3> QED
      BY <1>4, <3>1, <3>2 DEF PostgresSet
  <2>2. CallOK'
    BY <1>0, <1>1, <1>4, AnswerTyped, EmptyContents DEF PostgresSet
  <2> QED
    BY <1>1, <1>4, <2>1, <2>2, OtherTyped DEF PostgresSet
<1>5. CASE PostgresSelect(p)
  <2>1. CallOK'
    <3>1. CASE Answer(p, Empty, TRUE)
      BY <1>0, <1>1, <3>1, AnswerTyped, EmptyContents
    <3>2. CASE rows[k] # None /\ Answer(p, rows[k].val, FALSE)
      BY <1>0, <1>1, <1>3, <3>2, AnswerTyped
    <3>3. CASE rows[k] # None /\ (\/ GoOn(p, "fetched", rows[k])
                                  \/ GoOn(p, "overdue", rows[k]))
      BY <1>0, <1>1, <1>3, <3>3, GoOnTyped
    <3> QED
      BY <1>5, <3>1, <3>2, <3>3 DEF PostgresSelect
  <2> QED
    BY <1>1, <1>5, <2>1, OtherTyped DEF PostgresSelect, RowsOK
<1>6. CASE PostgresDelete(p)
  <2>1. CallOK'
    BY <1>0, <1>1, <1>6, AnswerTyped, EmptyContents DEF PostgresDelete
  <2>2. RowsOK'
    BY <1>1, <1>6, StoreTyped DEF PostgresDelete, RowsOK
  <2> QED
    BY <1>1, <1>6, <2>1, <2>2, OtherTyped DEF PostgresDelete
<1>7. CASE PostgresUpdate(p)
  <2>1. CallOK'
    BY <1>0, <1>1, <1>7, AnswerTyped DEF PostgresUpdate
  <2>2. RowsOK'
    <3>1. CASE ~SameId(p)
      BY <1>1, <1>7, <3>1 DEF PostgresUpdate, RowsOK
    <3>2. CASE SameId(p)
      <4>1. [rows[k] EXCEPT !.exp = UnixDeadline(p)] \in RowType
        BY <1>2, <1>3, <3>2 DEF RowType, SameId
      <4> QED
        BY <1>1, <1>7, <3>2, <4>1, StoreTyped DEF PostgresUpdate
    <3> QED
      BY <3>1, <3>2
  <2> QED
    BY <1>1, <1>7, <2>1, <2>2, OtherTyped DEF PostgresUpdate
<1> QED
  BY <1>4, <1>5, <1>6, <1>7 DEF PostgresStep

LEMMA S3Typed ==
    ASSUME TypeInv, NEW p \in Procs, config.type = "s3", S3Step(p)
    PROVE  TypeInv'
<1> DEFINE k == call[p].key
<1>0. call[p].pc # "idle"
  BY DEF S3Step, S3Put, S3Get, S3Unanswered, At
<1>1. /\ TypeOK /\ CallOK /\ RowsOK /\ call[p] \in CallType /\ k \in Keys
      /\ call[p].val \in Contents /\ rows[k] \in RowType \cup {None}
      /\ lastId \in Nat
  BY <1>0, InProgressTyped DEF TypeInv, TypeOK
<1>2. ASSUME TryAgain(p) PROVE CallOK'
  <2>1. CASE Answer(p, Empty, TRUE)
    BY <1>0, <1>1, <2>1, AnswerTyped, EmptyContents
  <2>2. CASE call' = [call EXCEPT ![p].tries = @ + 1]
    BY <1>0, <1>1, <2>2 DEF CallOK, CallType
  <2> QED
    BY <1>2, <2>1, <2>2 DEF TryAgain
<1>3. CASE S3Put(p)
  <2>1. Row(call[p].val, 0) \in RowType
    BY <1>1, RowTyped
  <2>2. RowsOK'
    BY <1>1, <1>3, <2>1, StoreTyped DEF S3Put
  <2>3. CallOK'
    BY <1>0, <1>1, <1>2, <1>3, AnswerTyped, EmptyContents DEF S3Put
  <2> QED
    BY <1>1, <1>3, <2>2, <2>3, OtherTyped DEF S3Put
<1>4. CASE S3Get(p)
  <2>1. CallOK'
    <3>1. CASE Answer(p, Empty, TRUE)
      BY <1>0, <1>1, <3>1, AnswerTyped, EmptyContents
    <3>2. CASE rows[k] # None /\ Answer(p, rows[k].val, FALSE)
      BY <1>0, <1>1, <3>2, AnswerTyped DEF RowType
    <3> QED
      BY <1>4, <3>1, <3>2 DEF S3Get
  <2> QED
    BY <1>1, <1>4, <2>1, OtherTyped DEF S3Get, RowsOK
<1>5. CASE S3Unanswered(p)
  BY <1>1, <1>2, <1>5, OtherTyped DEF S3Unanswered, RowsOK
<1> QED
  BY <1>3, <1>4, <1>5 DEF S3Step

-----------------------------------------------------------------------------
(* The theorem: every variable always has its type. *)

LEMMA TypeInit == Init => TypeInv
<1> SUFFICES ASSUME Init PROVE TypeInv
  OBVIOUS
<1>1. CallOK
  BY IdleTyped DEF Init, CallOK, IdleCall
<1>2. RowsOK /\ now \in Nat /\ lastId \in Nat /\ given \in [Keys -> SUBSET Values]
  BY StorageConstants DEF Init, RowsOK
<1>3. OpenedExists
  BY DEF Init, OpenedExists, IdleCall
<1> QED
  BY <1>1, <1>2, <1>3 DEF Init, TypeInv, TypeOK

LEMMA TypeStep == TypeInv /\ [Next]_storageVars => TypeInv'
<1> SUFFICES ASSUME TypeInv, [Next]_storageVars PROVE TypeInv'
  OBVIOUS
<1>0. /\ TypeOK /\ CallOK /\ RowsOK /\ now \in Nat /\ lastId \in Nat
      /\ config.type \in StorageTypes
  BY StorageConstants DEF TypeInv, TypeOK
<1>1. ASSUME NEW p \in Procs, NEW k \in Keys, NEW v \in Values, NEW skip \in Skips,
             CallSet(p, k, v, skip)
      PROVE  TypeInv'
  <2> DEFINE c == [IdleCall EXCEPT !.pc = "called", !.op = "set", !.key = k,
                                   !.val = v, !.skip = skip, !.at = Stamp]
  <2>1. v \in Contents /\ skip \in BOOLEAN /\ Stamp \in Int
    BY <1>0, StorageConstants DEF Stamp
  <2>2. c \in CallType /\ c.key \in Keys /\ c.pc = "called"
    BY <2>1, IdleTyped DEF CallType
  <2>3. call' = [call EXCEPT ![p] = c]
    BY <1>1 DEF CallSet
  <2> HIDE DEF c
  <2>4. CallOK'
    BY <1>0, <2>2, <2>3, ChangedCall
  <2>5. OpenedExists'
    BY <1>0, <1>1, <2>2, <2>3 DEF CallSet, TypeInv, OpenedExists, CallOK
  <2>6. given' \in [Keys -> SUBSET Values]
    BY <1>0, <1>1 DEF CallSet, TypeOK
  <2> QED
    BY <1>0, <1>1, <2>4, <2>5, <2>6 DEF CallSet, TypeInv, TypeOK, RowsOK
<1>2. ASSUME NEW p \in Procs, NEW k \in Keys, NEW skip \in Skips, CallGet(p, k, skip)
      PROVE  TypeInv'
  <2> DEFINE c == [IdleCall EXCEPT !.pc = "called", !.op = "get", !.key = k,
                                   !.skip = skip]
  <2>1. c \in CallType /\ c.key \in Keys /\ c.pc = "called"
    BY IdleTyped, StorageConstants DEF CallType
  <2>2. call' = [call EXCEPT ![p] = c]
    BY <1>2 DEF CallGet
  <2> HIDE DEF c
  <2>3. CallOK'
    BY <1>0, <2>1, <2>2, ChangedCall
  <2>4. OpenedExists'
    BY <1>0, <1>2, <2>1, <2>2 DEF CallGet, TypeInv, OpenedExists, CallOK
  <2> QED
    BY <1>0, <1>2, <2>3, <2>4 DEF CallGet, TypeInv, TypeOK, RowsOK
<1>3. ASSUME NEW p \in Procs, AdapterStep(p) PROVE TypeInv'
  BY <1>3, FileTyped, RedisTyped, MemcachedTyped, MongoTyped, PostgresTyped, S3Typed
  DEF AdapterStep
<1>4. ASSUME NEW p \in Procs, Fail(p) PROVE TypeInv'
  <2>0. call[p].op \in {"set", "get"}
    BY <1>0 DEF CallOK, CallType
  <2>1. call[p].pc # "idle"
    BY <1>0, <1>4, <2>0 DEF Fail, FailPoints, StorageTypes
  <2>2. CallOK'
    BY <1>0, <1>4, <2>1, AnswerTyped, EmptyContents DEF Fail
  <2>3. OpenedExists'
    BY <1>0, <1>4 DEF Fail, Answer, IdleCall, TypeInv, OpenedExists, CallOK
  <2> QED
    BY <1>0, <1>4, <2>2, <2>3 DEF Fail, TypeInv, TypeOK, RowsOK
<1>5. ASSUME NEW p \in Procs, Return(p) PROVE TypeInv'
  <2>1. CallOK'
    BY <1>0, <1>5, IdleTyped DEF Return, CallOK, IdleCall
  <2>2. OpenedExists'
    BY <1>0, <1>5 DEF Return, IdleCall, TypeInv, OpenedExists, CallOK
  <2> QED
    BY <1>0, <1>5, <2>1, <2>2 DEF Return, TypeInv, TypeOK, RowsOK
<1>6. ASSUME NEW k \in Keys, ServerExpires(k) \/ Evict(k) PROVE TypeInv'
  <2>1. /\ config.type # "file" /\ Store(k, None)
        /\ UNCHANGED <<config, now, lastId, call, given>>
    BY <1>6 DEF ServerExpires, Expendable, Evict
  <2>2. RowsOK' /\ CallOK'
    BY <1>0, <2>1, StoreTyped DEF CallOK
  <2> QED
    BY <1>0, <2>1, <2>2, OtherTyped
<1>7. CASE Tick
  BY <1>0, <1>7 DEF Tick, TypeInv, TypeOK, RowsOK, CallOK, OpenedExists
<1>8. CASE Crash
  <2>1. CallOK' /\ OpenedExists'
    BY <1>8, IdleTyped DEF Crash, CallOK, OpenedExists, IdleCall
  <2> QED
    BY <1>0, <1>8, <2>1 DEF Crash, TypeInv, TypeOK, RowsOK
<1>9. CASE UNCHANGED storageVars
  BY <1>9 DEF storageVars, TypeInv, TypeOK, RowsOK, CallOK, OpenedExists
<1> QED
  BY <1>1, <1>2, <1>3, <1>4, <1>5, <1>6, <1>7, <1>8, <1>9 DEF Next

\* Whatever the storage type, the processes, the keys and the contents, and
\* however calls interleave, fail and crash, every variable keeps its type: no
\* adapter dereferences a row or a file that somebody else has removed.
THEOREM Typing == Spec => []TypeOK
<1>1. Init => TypeInv
  BY TypeInit
<1>2. TypeInv /\ [Next]_storageVars => TypeInv'
  BY TypeStep
<1>3. TypeInv => TypeOK
  BY DEF TypeInv
<1> QED
  BY <1>1, <1>2, <1>3, PTL DEF Spec

-----------------------------------------------------------------------------
(* No paste shows another paste's content.  OnlyStored is not inductive: what *)
(* a call holds on its way to the storage, or from it, has to be genuine too. *)

GenuineCall(c) ==
    /\ c.op = "set" /\ c.pc \in {"called", "opened"} => c.val \in given[c.key]
    /\ c.op = "get" /\ c.pc \in {"opened", "fetched"} => Genuine(c.key, c.val)
    /\ c.op = "get" /\ c.pc = "returned" /\ c.val # Empty => Genuine(c.key, c.val)

GenuineInv ==
    /\ \A k \in Keys : rows[k] # None => Genuine(k, rows[k].val)
    /\ \A p \in Procs : GenuineCall(call[p])

\* What was handed to Set is genuine, and stays so as more is handed over.
LEMMA GivenIsGenuine ==
    ASSUME TypeOK, NEW k \in Keys, NEW v \in given[k]
    PROVE  Genuine(k, v)
<1>1. v \in Contents
  BY StorageConstants DEF TypeOK
<1>2. \A i \in 1..Len(v) : i <= Len(v)
  BY <1>1 DEF Contents
<1> QED
  BY <1>2 DEF Genuine

LEMMA GenuineGrows ==
    ASSUME NEW k \in Keys, NEW c, Genuine(k, c),
           config' = config, given[k] \subseteq given'[k]
    PROVE  Genuine(k, c)'
BY DEF Genuine

\* Half written and mixed files are genuine chunk by chunk.
LEMMA OverlayGenuine ==
    ASSUME config.type = "file", NEW k \in Keys,
           NEW v \in Contents, NEW old \in Contents, Genuine(k, v), Genuine(k, old)
    PROVE  Genuine(k, Overlay(v, old))
<1> DEFINE n == LongerOf(Len(v), Len(old))
           o == Overlay(v, old)
<1>1. Len(v) \in Nat /\ Len(old) \in Nat /\ n \in Nat
  BY DEF Contents, LongerOf
<1>2. Len(o) = n
  <2>1. DOMAIN o = 1..n /\ o \in Seq(Chunks)
    BY OverlayContents DEF Overlay, Contents
  <2> QED
    BY <1>1, <2>1, LenProperties
<1>3. ASSUME NEW i \in 1..n
      PROVE  \E w \in given[k] : i <= Len(w) /\ o[i] = w[i]
  <2>1. o[i] = IF i <= Len(v) THEN v[i] ELSE old[i]
    BY DEF Overlay
  <2>2. CASE i <= Len(v)
    BY <1>1, <2>1, <2>2 DEF Genuine
  <2>3. CASE ~(i <= Len(v))
    <3>1. i \in 1..Len(old)
      BY <1>1, <2>3 DEF LongerOf
    <3> QED
      BY <2>1, <2>3, <3>1 DEF Genuine
  <2> QED
    BY <2>2, <2>3
<1> QED
  BY <1>2, <1>3 DEF Genuine

LEMMA PrefixGenuine ==
    ASSUME config.type = "file", NEW k \in Keys, NEW v \in Contents, Genuine(k, v),
           NEW n \in 0..Len(v) - 1
    PROVE  Genuine(k, SubSeq(v, 1, n))
<1>1. Len(SubSeq(v, 1, n)) = n /\ \A i \in 1..n : SubSeq(v, 1, n)[i] = v[i]
  BY DEF Contents
<1> QED
  BY <1>1 DEF Genuine, Contents

\* A step of p about one key keeps everything genuine if it leaves the row of
\* that key and its own call genuine.
LEMMA KeepsGenuine ==
    ASSUME GenuineInv, UNCHANGED <<config, given>>, NEW p \in Procs, NEW k \in Keys,
           \A j \in Keys \ {k} : rows'[j] = rows[j],
           rows'[k] # None => Genuine(k, rows'[k].val),
           \A q \in Procs \ {p} : call'[q] = call[q],
           GenuineCall(call'[p])
    PROVE  GenuineInv'
<1>1. \A j \in Keys : rows'[j] # None => Genuine(j, rows'[j].val)
  BY DEF GenuineInv
<1>2. \A q \in Procs : GenuineCall(call'[q])
  BY DEF GenuineInv
<1> QED
  BY <1>1, <1>2 DEF GenuineInv, GenuineCall, Genuine

LEMMA StoreGenuine ==
    ASSUME RowsOK, NEW k \in Keys, NEW row, Store(k, row)
    PROVE  rows'[k] = row /\ \A j \in Keys \ {k} : rows'[j] = rows[j]
BY DEF RowsOK, Store

LEMMA AnswerGenuine ==
    ASSUME CallOK, NEW p \in Procs, NEW val, NEW err, Answer(p, val, err),
           call[p].op = "get" /\ val # Empty => Genuine(call[p].key, val)
    PROVE  /\ \A q \in Procs \ {p} : call'[q] = call[q]
           /\ GenuineCall(call'[p])
BY DEF CallOK, Answer, IdleCall, GenuineCall

LEMMA GoOnGenuine ==
    ASSUME CallOK, NEW p \in Procs, NEW pc \in {"fetched", "overdue"}, NEW row,
           GoOn(p, pc, row), call[p].op = "get", Genuine(call[p].key, row.val)
    PROVE  /\ \A q \in Procs \ {p} : call'[q] = call[q]
           /\ GenuineCall(call'[p])
BY DEF CallOK, CallType, GoOn, GenuineCall

LEMMA FileGenuine ==
    ASSUME TypeInv, GenuineInv, NEW p \in Procs, config.type = "file", FileStep(p)
    PROVE  GenuineInv'
<1> DEFINE k == call[p].key
<1>0. call[p].pc # "idle"
  BY DEF FileStep, FileCreate, FileWrite, FileWriteShort, FileOpen, FileReadMore,
         FileReadEnd, At
<1>1. /\ TypeOK /\ CallOK /\ RowsOK /\ call[p] \in CallType /\ k \in Keys
      /\ call[p].val \in Contents /\ UNCHANGED <<config, given>>
  BY <1>0, InProgressTyped
  DEF TypeInv, TypeOK, FileStep, FileCreate, FileWrite, FileWriteShort, FileOpen,
      FileReadMore, FileReadEnd
<1>2. GenuineCall(call[p]) /\ (rows[k] # None => Genuine(k, rows[k].val))
  BY <1>1 DEF GenuineInv
<1>3. ASSUME call[p].pc = "opened"
      PROVE  rows[k].val \in Contents /\ Genuine(k, rows[k].val)
  BY <1>0, <1>1, <1>2, <1>3, InProgressTyped DEF TypeInv, OpenedExists, RowType
<1>4. CASE FileCreate(p)
  <2>1. /\ rows'[k] = Row(Empty, 0) /\ \A j \in Keys \ {k} : rows'[j] = rows[j]
    BY <1>1, <1>4, StoreGenuine DEF FileCreate
  <2>2. Genuine(k, Row(Empty, 0).val)
    BY DEF Row, Empty, Genuine
  <2>3. /\ \A q \in Procs \ {p} : call'[q] = call[q]
        /\ GenuineCall(call'[p])
    BY <1>1, <1>2, <1>4 DEF FileCreate, At, CallOK, CallType, GenuineCall
  <2> QED
    BY <1>1, <2>1, <2>2, <2>3, KeepsGenuine
<1>5. CASE FileWrite(p) \/ FileWriteShort(p)
  <2>1. /\ call[p].op = "set" /\ call[p].pc = "opened" /\ Genuine(k, call[p].val)
    BY <1>1, <1>2, <1>5, GivenIsGenuine DEF FileWrite, FileWriteShort, At, GenuineCall
  <2>2. PICK v \in Contents, err \in BOOLEAN :
          /\ Genuine(k, v) /\ Answer(p, Empty, err)
          /\ Store(k, Row(Overlay(v, rows[k].val), 0))
    BY <1>1, <1>5, <2>1, PrefixContents, PrefixGenuine DEF FileWrite, FileWriteShort
  <2>3. Genuine(k, Row(Overlay(v, rows[k].val), 0).val)
    BY <1>1, <1>3, <2>1, <2>2, OverlayGenuine DEF Row
  <2>4. /\ rows'[k] = Row(Overlay(v, rows[k].val), 0)
        /\ \A j \in Keys \ {k} : rows'[j] = rows[j]
    BY <1>1, <2>2, StoreGenuine
  <2>5. /\ \A q \in Procs \ {p} : call'[q] = call[q]
        /\ GenuineCall(call'[p])
    BY <1>1, <2>1, <2>2, AnswerGenuine
  <2> QED
    BY <1>1, <2>3, <2>4, <2>5, KeepsGenuine
<1>6. ASSUME UNCHANGED rows, GenuineCall(call'[p]),
             \A q \in Procs \ {p} : call'[q] = call[q]
      PROVE  GenuineInv'
  BY <1>1, <1>2, <1>6, KeepsGenuine
<1>7. CASE FileOpen(p)
  <2>1. CASE rows[k] = None
    <3>1. Answer(p, Empty, TRUE) /\ UNCHANGED rows
      BY <1>7, <2>1 DEF FileOpen
    <3> QED
      BY <1>1, <1>6, <3>1, AnswerGenuine
  <2>2. CASE rows[k] # None
    <3>1. /\ call' = [call EXCEPT ![p].pc = "opened", ![p].val = rows[k].val]
          /\ UNCHANGED rows /\ call[p].op = "get"
      BY <1>7, <2>2 DEF FileOpen, At
    <3> QED
      BY <1>1, <1>2, <1>6, <2>2, <3>1 DEF GenuineCall, CallOK, CallType
  <2> QED
    BY <2>1, <2>2
<1>8. CASE FileReadMore(p)
  <2>1. /\ call' = [call EXCEPT ![p].val = Overlay(call[p].val, rows[k].val)]
        /\ UNCHANGED rows /\ call[p].op = "get" /\ call[p].pc = "opened"
    BY <1>1, <1>8 DEF FileReadMore, At, CallOK
  <2>2. Genuine(k, Overlay(call[p].val, rows[k].val))
    BY <1>1, <1>2, <1>3, <2>1, OverlayGenuine DEF GenuineCall
  <2>3. /\ \A q \in Procs \ {p} : call'[q] = call[q]
        /\ call'[p] = [call[p] EXCEPT !.val = Overlay(call[p].val, rows[k].val)]
    BY <1>1, <2>1 DEF CallOK
  <2>4. GenuineCall(call'[p])
    BY <1>1, <2>1, <2>2, <2>3 DEF GenuineCall, CallType
  <2> QED
    BY <1>6, <2>1, <2>3, <2>4
<1>9. CASE FileReadEnd(p)
  <2>1. Answer(p, call[p].val, FALSE) /\ UNCHANGED rows /\ Genuine(k, call[p].val)
    BY <1>2, <1>9 DEF FileReadEnd, At, GenuineCall
  <2> QED
    BY <1>1, <1>6, <2>1, AnswerGenuine
<1> QED
  BY <1>4, <1>5, <1>7, <1>8, <1>9 DEF FileStep

\* The other adapters, of which no call is ever "opened", store one of these in
\* the row of the key: nothing, the value of the Set, or what was there.
LEMMA OtherGenuine ==
    ASSUME TypeInv, GenuineInv, NEW p \in Procs, call[p].pc # "idle",
           UNCHANGED <<config, given>>,
           \/ UNCHANGED rows
           \/ \E row \in RowType \cup {None} :
                 /\ Store(call[p].key, row)
                 /\ row # None => Genuine(call[p].key, row.val),
           \/ \E val, err : /\ Answer(p, val, err)
                            /\ call[p].op = "get" /\ val # Empty
                                  => Genuine(call[p].key, val)
           \/ \E pc \in {"fetched", "overdue"} :
                 /\ GoOn(p, pc, rows[call[p].key])
                 /\ call[p].op = "get" /\ rows[call[p].key] # None
           \/ call' = [call EXCEPT ![p].tries = @ + 1]
    PROVE  GenuineInv'
<1> DEFINE k == call[p].key
<1>1. /\ TypeOK /\ CallOK /\ RowsOK /\ call[p] \in CallType /\ k \in Keys
  BY InProgressTyped DEF TypeInv, TypeOK
<1>2. GenuineCall(call[p]) /\ (rows[k] # None => Genuine(k, rows[k].val))
  BY <1>1 DEF GenuineInv
<1>3. /\ rows'[k] # None => Genuine(k, rows'[k].val)
      /\ \A j \in Keys \ {k} : rows'[j] = rows[j]
  <2>1. CASE UNCHANGED rows
    BY <1>2, <2>1
  <2>2. CASE \E row \in RowType \cup {None} :
                /\ Store(k, row) /\ (row # None => Genuine(k, row.val))
    BY <1>1, <2>2, StoreGenuine
  <2> QED
    BY <2>1, <2>2
<1>4. /\ \A q \in Procs \ {p} : call'[q] = call[q]
      /\ GenuineCall(call'[p])
  <2>2. CASE \E val, err : /\ Answer(p, val, err)
                           /\ call[p].op = "get" /\ val # Empty => Genuine(k, val)
    BY <1>1, <2>2, AnswerGenuine
  <2>3. CASE \E pc \in {"fetched", "overdue"} :
                /\ GoOn(p, pc, rows[k]) /\ call[p].op = "get" /\ rows[k] # None
    BY <1>1, <1>2, <2>3, GoOnGenuine
  <2>4. CASE call' = [call EXCEPT ![p].tries = @ + 1]
    <3>1. /\ call'[p] = [call[p] EXCEPT !.tries = @ + 1]
          /\ \A q \in Procs \ {p} : call'[q] = call[q]
      BY <1>1, <2>4 DEF CallOK
    <3> QED
      BY <1>1, <1>2, <3>1 DEF GenuineCall, CallType
  <2> QED
    BY <2>2, <2>3, <2>4
<1> QED
  BY <1>1, <1>3, <1>4, KeepsGenuine

LEMMA SetGenuine ==
    ASSUME TypeInv, GenuineInv, NEW p \in Procs, At(p, "set", "called"),
           NEW exp \in Int
    PROVE  /\ Row(call[p].val, exp) \in RowType
           /\ Genuine(call[p].key, Row(call[p].val, exp).val)
<1>1. /\ TypeOK /\ call[p].key \in Keys /\ call[p].val \in Contents
  BY InProgressTyped DEF TypeInv, At
<1>2. call[p].val \in given[call[p].key]
  BY DEF GenuineInv, GenuineCall, At
<1> QED
  BY <1>1, <1>2, RowTyped, GivenIsGenuine DEF Row

\* A row whose expiry alone has changed.
LEMMA RefreshGenuine ==
    ASSUME GenuineInv, NEW k \in Keys, rows[k] \in RowType, rows[k] # None,
           NEW exp \in Int
    PROVE  /\ [rows[k] EXCEPT !.exp = exp] \in RowType
           /\ Genuine(k, [rows[k] EXCEPT !.exp = exp].val)
BY DEF GenuineInv, RowType

LEMMA RedisGenuine ==
    ASSUME TypeInv, GenuineInv, NEW p \in Procs, RedisStep(p)
    PROVE  GenuineInv'
<1> DEFINE k == call[p].key
<1>0. call[p].pc # "idle" /\ UNCHANGED <<config, given>>
  BY DEF RedisStep, RedisSet, RedisGet, RedisExpire, At
<1>1. /\ TypeOK /\ call[p] \in CallType /\ k \in Keys /\ call[p].val \in Contents
      /\ rows[k] \in RowType \cup {None}
  BY <1>0, InProgressTyped DEF TypeInv
<1>2. GenuineCall(call[p]) /\ (rows[k] # None => Genuine(k, rows[k].val))
  BY <1>1 DEF GenuineInv
<1>3. /\ now \in Nat /\ ExpireTicks(Expiration) \in Int
      /\ SetExpiry(k, IF call[p].skip THEN 0 ELSE Expiration) \in Int
  BY <1>1, DeadlinesAreInt, SetExpiryIsInt DEF TypeOK, CallType
<1>4. CASE RedisSet(p)
  <2> DEFINE exp == SetExpiry(k, IF call[p].skip THEN 0 ELSE Expiration)
  <2>1. exp \in Int /\ At(p, "set", "called") /\ Store(k, Row(call[p].val, exp))
    BY <1>3, <1>4 DEF RedisSet
  <2>2. \/ \E err : Answer(p, Empty, err)
        \/ call' = [call EXCEPT ![p].tries = @ + 1]
    BY <1>4 DEF RedisSet, SendAgain
  <2> HIDE DEF exp
  <2> QED
    BY <1>0, <2>1, <2>2, SetGenuine, OtherGenuine
<1>5. CASE RedisGet(p)
  <2>1. /\ UNCHANGED rows /\ call[p].op = "get"
        /\ \/ Answer(p, Empty, TRUE)
           \/ rows[k] # None /\ Answer(p, rows[k].val, FALSE)
           \/ rows[k] # None /\ GoOn(p, "fetched", rows[k])
    BY <1>5 DEF RedisGet, Live, At
  <2> QED
    BY <1>0, <1>2, <2>1, OtherGenuine
<1>6. CASE RedisExpire(p)
  <2>1. /\ Genuine(k, call[p].val)
        /\ \/ Answer(p, call[p].val, FALSE)
           \/ call' = [call EXCEPT ![p].tries = @ + 1]
    BY <1>2, <1>6 DEF RedisExpire, SendAgain, At, GenuineCall
  <2>2. \/ UNCHANGED rows
        \/ Store(k, None)
        \/ /\ rows[k] # None
           /\ Store(k, [rows[k] EXCEPT !.exp = now + ExpireTicks(Expiration)])
    BY <1>6 DEF RedisExpire, Live
  <2>3. \/ UNCHANGED rows
        \/ \E row \in RowType \cup {None} :
              Store(k, row) /\ (row # None => Genuine(k, row.val))
    <3> DEFINE exp == now + ExpireTicks(Expiration)
    <3>1. exp \in Int
      BY <1>3
    <3> HIDE DEF exp
    <3>2. rows[k] # None => /\ [rows[k] EXCEPT !.exp = exp] \in RowType
                            /\ Genuine(k, [rows[k] EXCEPT !.exp = exp].val)
      BY <1>1, <3>1, RefreshGenuine
    <3> QED
      BY <2>2, <3>2 DEF exp
  <2> QED
    BY <1>0, <2>1, <2>3, OtherGenuine
<1> QED
  BY <1>4, <1>5, <1>6 DEF RedisStep

LEMMA MemcachedGenuine ==
    ASSUME TypeInv, GenuineInv, NEW p \in Procs, MemcachedStep(p)
    PROVE  GenuineInv'
<1> DEFINE k == call[p].key
<1>0. call[p].pc # "idle" /\ UNCHANGED <<config, given>>
  BY DEF MemcachedStep, MemcachedSet, MemcachedGet, MemcachedReplace, At
<1>1. /\ TypeOK /\ call[p] \in CallType /\ k \in Keys /\ call[p].val \in Contents
      /\ rows[k] \in RowType \cup {None}
  BY <1>0, InProgressTyped DEF TypeInv
<1>2. GenuineCall(call[p]) /\ (rows[k] # None => Genuine(k, rows[k].val))
  BY <1>1 DEF GenuineInv
<1>3. ItemExpiry(0) \in Int /\ ItemExpiry(Int32(Expiration)) \in Int
  BY <1>1, DeadlinesAreInt
<1>4. CASE MemcachedSet(p)
  <2> DEFINE exp == ItemExpiry(IF call[p].skip THEN 0 ELSE Int32(Expiration))
  <2>1. exp \in Int /\ At(p, "set", "called") /\ Store(k, Row(call[p].val, exp))
    BY <1>3, <1>4 DEF MemcachedSet
  <2>2. \E err : Answer(p, Empty, err)
    BY <1>4 DEF MemcachedSet
  <2> HIDE DEF exp
  <2> QED
    BY <1>0, <2>1, <2>2, SetGenuine, OtherGenuine
<1>5. CASE MemcachedGet(p)
  <2>1. /\ UNCHANGED rows /\ call[p].op = "get"
        /\ \/ Answer(p, Empty, TRUE)
           \/ rows[k] # None /\ Answer(p, rows[k].val, FALSE)
           \/ rows[k] # None /\ GoOn(p, "fetched", rows[k])
    BY <1>5 DEF MemcachedGet, Live, At
  <2> QED
    BY <1>0, <1>2, <2>1, OtherGenuine
<1>6. CASE MemcachedReplace(p)
  <2>1. Answer(p, call[p].val, FALSE) /\ Genuine(k, call[p].val)
    BY <1>2, <1>6 DEF MemcachedReplace, At, GenuineCall
  <2> DEFINE row == Row(call[p].val, ItemExpiry(Int32(Expiration)))
  <2>2. row \in RowType /\ row.val = call[p].val
    BY <1>1, <1>3, RowTyped DEF Row
  <2>3. UNCHANGED rows \/ Store(k, row)
    BY <1>6 DEF MemcachedReplace
  <2> HIDE DEF row
  <2> QED
    BY <1>0, <2>1, <2>2, <2>3, OtherGenuine
<1> QED
  BY <1>4, <1>5, <1>6 DEF MemcachedStep

LEMMA MongoGenuine ==
    ASSUME TypeInv, GenuineInv, NEW p \in Procs, MongoStep(p)
    PROVE  GenuineInv'
<1> DEFINE k == call[p].key
<1>0. call[p].pc # "idle" /\ UNCHANGED <<config, given>>
  BY DEF MongoStep, MongoSet, MongoFind, MongoDelete, MongoUpdate, At
<1>1. /\ TypeOK /\ call[p] \in CallType /\ k \in Keys /\ call[p].val \in Contents
      /\ rows[k] \in RowType \cup {None}
  BY <1>0, InProgressTyped DEF TypeInv
<1>2. GenuineCall(call[p]) /\ (rows[k] # None => Genuine(k, rows[k].val))
  BY <1>1 DEF GenuineInv
<1>3. MongoDate(call[p].at + Expiration) \in Int
  BY <1>0, <1>1, InProgressTyped, DeadlinesAreInt
<1>4. CASE MongoSet(p)
  <2> DEFINE exp == IF call[p].skip THEN 0 ELSE MongoDate(call[p].at + Expiration)
  <2>1. exp \in Int /\ At(p, "set", "called")
    BY <1>3, <1>4 DEF MongoSet
  <2>2. UNCHANGED rows \/ Store(k, Row(call[p].val, exp))
    BY <1>4 DEF MongoSet
  <2>3. \E err : Answer(p, Empty, err)
    BY <1>4 DEF MongoSet
  <2> HIDE DEF exp
  <2> QED
    BY <1>0, <2>1, <2>2, <2>3, SetGenuine, OtherGenuine
<1>5. CASE MongoFind(p)
  <2>1. /\ UNCHANGED rows /\ call[p].op = "get"
        /\ \/ Answer(p, Empty, TRUE)
           \/ rows[k] # None /\ Answer(p, rows[k].val, FALSE)
           \/ rows[k] # None /\ GoOn(p, "fetched", rows[k])
           \/ rows[k] # None /\ GoOn(p, "overdue", rows[k])
    BY <1>5 DEF MongoFind, At
  <2> QED
    BY <1>0, <1>2, <2>1, OtherGenuine
<1>6. CASE MongoDelete(p)
  <2>1. Answer(p, Empty, TRUE) /\ Store(k, None)
    BY <1>6 DEF MongoDelete
  <2> QED
    BY <1>0, <2>1, OtherGenuine
<1>7. CASE MongoUpdate(p)
  <2>1. Answer(p, call[p].val, FALSE) /\ Genuine(k, call[p].val)
    BY <1>2, <1>7 DEF MongoUpdate, At, GenuineCall
  <2>2. \/ UNCHANGED rows
        \/ /\ rows[k] # None
           /\ Store(k, [rows[k] EXCEPT !.exp = MongoDate(call[p].at + Expiration)])
    BY <1>7 DEF MongoUpdate
  <2>3. \/ UNCHANGED rows
        \/ \E row \in RowType \cup {None} :
              Store(k, row) /\ (row # None => Genuine(k, row.val))
    BY <1>1, <1>3, <2>2, RefreshGenuine
  <2> QED
    BY <1>0, <2>1, <2>3, OtherGenuine
<1> QED
  BY <1>4, <1>5, <1>6, <1>7 DEF MongoStep

LEMMA PostgresGenuine ==
    ASSUME TypeInv, GenuineInv, NEW p \in Procs, PostgresStep(p)
    PROVE  GenuineInv'
<1> DEFINE k == call[p].key
<1>0. call[p].pc # "idle" /\ UNCHANGED <<config, given>>
  BY DEF PostgresStep, PostgresSet, PostgresSelect, PostgresDelete, PostgresUpdate, At
<1>1. /\ TypeOK /\ call[p] \in CallType /\ k \in Keys /\ call[p].val \in Contents
      /\ rows[k] \in RowType \cup {None}
  BY <1>0, InProgressTyped DEF TypeInv
<1>2. GenuineCall(call[p]) /\ (rows[k] # None => Genuine(k, rows[k].val))
  BY <1>1 DEF GenuineInv
<1>3. UnixDeadline(p) \in Int /\ lastId \in Nat
  BY <1>0, <1>1, InProgressTyped, DeadlinesAreInt DEF UnixDeadline, TypeOK
<1>4. CASE PostgresSet(p)
  <2> DEFINE exp == IF call[p].skip THEN 0 ELSE UnixDeadline(p)
  <2>1. exp \in Int /\ call[p].op = "set" /\ Genuine(k, call[p].val)
    BY <1>1, <1>2, <1>3, <1>4, GivenIsGenuine DEF PostgresSet, At, GenuineCall
  <2>2. \E err : Answer(p, Empty, err)
    BY <1>4 DEF PostgresSet
  <2>3. PICK row : /\ Store(k, row)
                   /\ \/ row = [val |-> call[p].val, exp |-> exp, id |-> lastId + 1]
                      \/ /\ rows[k] # None
                         /\ row = [rows[k] EXCEPT !.val = call[p].val, !.exp = exp]
    BY <1>4 DEF PostgresSet
  <2> HIDE DEF exp
  <2>4. row \in RowType /\ row.val = call[p].val
    <3>1. CASE row = [val |-> call[p].val, exp |-> exp, id |-> lastId + 1]
      BY <1>1, <1>3, <2>1, <3>1 DEF RowType
    <3>2. CASE /\ rows[k] # None
               /\ row = [rows[k] EXCEPT !.val = call[p].val, !.exp = exp]
      <4>1. rows[k] \in RowType /\ call[p].val \in Contents
        BY <1>1, <3>2
      <4> QED
        BY <2>1, <3>2, <4>1 DEF RowType
    <3> QED
      BY <2>3, <3>1, <3>2
  <2> QED
    BY <1>0, <2>1, <2>2, <2>3, <2>4, OtherGenuine
<1>5. CASE PostgresSelect(p)
  <2>1. /\ UNCHANGED rows /\ call[p].op = "get"
        /\ \/ Answer(p, Empty, TRUE)
           \/ rows[k] # None /\ Answer(p, rows[k].val, FALSE)
           \/ rows[k] # None /\ GoOn(p, "fetched", rows[k])
           \/ rows[k] # None /\ GoOn(p, "overdue", rows[k])
    BY <1>5 DEF PostgresSelect, At
  <2> QED
    BY <1>0, <1>2, <2>1, OtherGenuine
<1>6. CASE PostgresDelete(p)
  <2>1. Answer(p, Empty, FALSE) /\ (UNCHANGED rows \/ Store(k, None))
    BY <1>6 DEF PostgresDelete
  <2> QED
    BY <1>0, <2>1, OtherGenuine
<1>7. CASE PostgresUpdate(p)
  <2>1. Answer(p, call[p].val, FALSE) /\ Genuine(k, call[p].val)
    BY <1>2, <1>7 DEF PostgresUpdate, At, GenuineCall
  <2>2. \/ UNCHANGED rows
        \/ /\ rows[k] # None
           /\ Store(k, [rows[k] EXCEPT !.exp = UnixDeadline(p)])
    BY <1>7 DEF PostgresUpdate, SameId
  <2>3. \/ UNCHANGED rows
        \/ \E row \in RowType \cup {None} :
              Store(k, row) /\ (row # None => Genuine(k, row.val))
    BY <1>1, <1>3, <2>2, RefreshGenuine
  <2> QED
    BY <1>0, <2>1, <2>3, OtherGenuine
<1> QED
  BY <1>4, <1>5, <1>6, <1>7 DEF PostgresStep

LEMMA S3Genuine ==
    ASSUME TypeInv, GenuineInv, NEW p \in Procs, S3Step(p)
    PROVE  GenuineInv'
<1> DEFINE k == call[p].key
<1>0. call[p].pc # "idle" /\ UNCHANGED <<config, given>>
  BY DEF S3Step, S3Put, S3Get, S3Unanswered, At
<1>1. /\ TypeOK /\ call[p] \in CallType /\ k \in Keys /\ call[p].val \in Contents
      /\ rows[k] \in RowType \cup {None}
  BY <1>0, InProgressTyped DEF TypeInv
<1>2. GenuineCall(call[p]) /\ (rows[k] # None => Genuine(k, rows[k].val))
  BY <1>1 DEF GenuineInv
<1>3. ASSUME TryAgain(p)
      PROVE  Answer(p, Empty, TRUE) \/ call' = [call EXCEPT ![p].tries = @ + 1]
  BY <1>3 DEF TryAgain
<1>4. CASE S3Put(p)
  <2>1. At(p, "set", "called") /\ Store(k, Row(call[p].val, 0))
    BY <1>4 DEF S3Put
  <2>2. Answer(p, Empty, FALSE) \/ TryAgain(p)
    BY <1>4 DEF S3Put
  <2> DEFINE row == Row(call[p].val, 0)
  <2>3. Store(k, row) /\ row \in RowType /\ Genuine(k, row.val)
    BY <2>1, SetGenuine
  <2> HIDE DEF row
  <2>4. \/ Answer(p, Empty, FALSE) \/ Answer(p, Empty, TRUE)
        \/ call' = [call EXCEPT ![p].tries = @ + 1]
    BY <1>3, <2>2
  <2> QED
    BY <1>0, <2>3, <2>4, OtherGenuine
<1>5. CASE S3Get(p)
  <2>1. /\ UNCHANGED rows
        /\ Answer(p, Empty, TRUE) \/ (rows[k] # None /\ Answer(p, rows[k].val, FALSE))
    BY <1>5 DEF S3Get
  <2> QED
    BY <1>0, <1>2, <2>1, OtherGenuine
<1>6. CASE S3Unanswered(p)
  <2>1. UNCHANGED rows /\ TryAgain(p)
    BY <1>6 DEF S3Unanswered
  <2> QED
    BY <1>0, <1>3, <2>1, OtherGenuine
<1> QED
  BY <1>4, <1>5, <1>6 DEF S3Step

-----------------------------------------------------------------------------
(* The theorem. *)

LEMMA GenuineInit == Init => GenuineInv
BY DEF Init, GenuineInv, GenuineCall, IdleCall

LEMMA GenuineStep ==
    TypeInv /\ GenuineInv /\ [Next]_storageVars => GenuineInv'
<1> SUFFICES ASSUME TypeInv, GenuineInv, [Next]_storageVars PROVE GenuineInv'
  OBVIOUS
<1>0. TypeOK /\ CallOK /\ RowsOK
  BY DEF TypeInv, TypeOK
<1>1. ASSUME NEW p \in Procs, NEW k \in Keys, NEW v \in Values, NEW skip \in Skips,
             CallSet(p, k, v, skip)
      PROVE  GenuineInv'
  <2>1. /\ UNCHANGED <<config, rows>> /\ v \in given'[k]
        /\ \A j \in Keys : given[j] \subseteq given'[j]
    BY <1>0, <1>1 DEF CallSet, TypeOK
  <2>2. \A j \in Keys : rows'[j] # None => Genuine(j, rows[j].val)'
    BY <2>1 DEF GenuineInv, Genuine
  <2>3. GenuineCall(call[p])' /\ call'[p].pc = "called"
    BY <1>0, <1>1, <2>1 DEF CallSet, CallOK, GenuineCall, IdleCall
  <2>4. ASSUME NEW q \in Procs \ {p} PROVE GenuineCall(call[q])'
    <3>1. call'[q] = call[q] /\ GenuineCall(call[q])
      BY <1>0, <1>1 DEF CallSet, CallOK, GenuineInv
    <3>2. CASE call[q].pc = "idle"
      BY <3>1, <3>2 DEF GenuineCall
    <3>3. CASE call[q].pc # "idle"
      <4>1. call[q].key \in Keys
        BY <1>0, <3>3 DEF CallOK
      <4> QED
        BY <2>1, <3>1, <4>1, GenuineGrows DEF GenuineCall
    <3> QED
      BY <3>2, <3>3
  <2> QED
    BY <2>2, <2>3, <2>4 DEF GenuineInv
<1>2. ASSUME NEW p \in Procs, NEW k \in Keys, NEW skip \in Skips, CallGet(p, k, skip)
      PROVE  GenuineInv'
  <2>1. /\ UNCHANGED <<config, rows, given>> /\ GenuineCall(call'[p])
        /\ \A q \in Procs \ {p} : call'[q] = call[q]
    BY <1>0, <1>2 DEF CallGet, CallOK, GenuineCall, IdleCall
  <2> QED
    BY <2>1, KeepsGenuine DEF GenuineInv
<1>3. ASSUME NEW p \in Procs, AdapterStep(p) PROVE GenuineInv'
  BY <1>3, FileGenuine, RedisGenuine, MemcachedGenuine, MongoGenuine,
     PostgresGenuine, S3Genuine DEF AdapterStep
<1>4. ASSUME NEW p \in Procs, Fail(p) PROVE GenuineInv'
  <2>1. Answer(p, Empty, TRUE) /\ UNCHANGED <<config, rows, given>>
    BY <1>4 DEF Fail
  <2>2. GenuineCall(call'[p]) /\ \A q \in Procs \ {p} : call'[q] = call[q]
    BY <1>0, <2>1, AnswerGenuine
  <2> QED
    BY <2>1, <2>2 DEF GenuineInv, GenuineCall, Genuine
<1>5. ASSUME NEW p \in Procs, Return(p) PROVE GenuineInv'
  <2>1. /\ UNCHANGED <<config, rows, given>> /\ GenuineCall(call'[p])
        /\ \A q \in Procs \ {p} : call'[q] = call[q]
    BY <1>0, <1>5 DEF Return, CallOK, GenuineCall, IdleCall
  <2> QED
    BY <2>1 DEF GenuineInv, GenuineCall, Genuine
<1>6. ASSUME NEW k \in Keys, ServerExpires(k) \/ Evict(k) PROVE GenuineInv'
  <2>1. Store(k, None) /\ UNCHANGED <<config, call, given>>
    BY <1>6 DEF ServerExpires, Evict
  <2>2. rows'[k] = None /\ \A j \in Keys \ {k} : rows'[j] = rows[j]
    BY <1>0, <2>1, StoreGenuine
  <2> QED
    BY <2>1, <2>2 DEF GenuineInv, GenuineCall, Genuine
<1>7. CASE Tick
  BY <1>7 DEF Tick, GenuineInv, GenuineCall, Genuine
<1>8. CASE Crash
  BY <1>8 DEF Crash, GenuineInv, GenuineCall, Genuine, IdleCall
<1>9. CASE UNCHANGED storageVars
  BY <1>9 DEF storageVars, GenuineInv, GenuineCall, Genuine
<1> QED
  BY <1>1, <1>2, <1>3, <1>4, <1>5, <1>6, <1>7, <1>8, <1>9 DEF Next

\* Whatever a key holds, or a Get answers, was handed to Set for that very key:
\* for every storage type, every number of concurrent calls, and through every
\* failure, retry, write-back, deletion and crash.
THEOREM NoForeignContent == Spec => []OnlyStored
<1>1. Init => TypeInv /\ GenuineInv
  BY TypeInit, GenuineInit
<1>2. (TypeInv /\ GenuineInv) /\ [Next]_storageVars => (TypeInv /\ GenuineInv)'
  BY TypeStep, GenuineStep
<1>3. TypeInv /\ GenuineInv => OnlyStored
  BY DEF GenuineInv, GenuineCall, OnlyStored, At
<1> QED
  BY <1>1, <1>2, <1>3, PTL DEF Spec
=============================================================================
