------------------------ MODULE BackendsSteps_proofs -----------------------
(* What the steps of Backends may do, for every value of its constants: to   *)
(* the deadlines of the rows, and to the abstract store of PasteStore.       *)
EXTENDS Backends_proofs

-----------------------------------------------------------------------------
(* Durations. *)

LEMMA Quotient ==
    ASSUME NEW a \in Int, NEW n \in Nat \ {0}
    PROVE  /\ a \div n \in Int /\ (a \div n) * n <= a /\ a < (a \div n) * n + n
           /\ a >= 0 => a \div n >= 0
OBVIOUS

LEMMA Product ==
    ASSUME NEW a \in Int, NEW b \in Int, NEW n \in Nat \ {0}, a <= b
    PROVE  a * n <= b * n /\ a * n \in Int /\ b * n \in Int
OBVIOUS

LEMMA QuotientGrows ==
    ASSUME NEW a \in Int, NEW b \in Int, NEW n \in Nat \ {0}, a <= b
    PROVE  a \div n <= b \div n
OBVIOUS

-----------------------------------------------------------------------------
(* Deadlines.  The action properties need to know of a row that its deadline *)
(* was computed in the past, and of a Get what it has found.                 *)

\* The expiry of an item that memcached is given at time t.
ExpiryAt(exptime, t) ==
    IF exptime = 0 THEN 0
    ELSE IF exptime < 0 THEN t
    ELSE IF exptime <= MaxRelative THEN (Second(t) + exptime) * TicksPerSecond
    ELSE exptime * TicksPerSecond

\* A deadline that was computed at time t, or before.
InTime(exp, t) ==
    \/ exp = 0
    \/ config.type = "redis" /\ exp < t + ExpireTicks(Expiration) + TicksPerSecond
    \/ config.type = "memcached" /\ exp <= ExpiryAt(Int32(Expiration), t)
    \/ config.type = "mongodb" /\ exp <= MongoDate(t + Expiration)
    \/ config.type = "postgres" /\ exp <= Second(t + Expiration)

Outdated(row) ==
    \/ config.type = "mongodb" /\ MongoExpired(row)
    \/ config.type = "postgres" /\ PostgresExpired(row)

CallInTime(c) ==
    /\ c.at \in Nat /\ c.at <= now
    /\ c.pc = "fetched" =>
          /\ c.op = "get" /\ c.row \in RowType
          /\ config.type \in {"mongodb", "postgres"} => InTime(c.row.exp, c.at)
    /\ c.pc = "overdue" => c.op = "get" /\ c.row \in RowType /\ Outdated(c.row)

DeadlineInv ==
    /\ \A k \in Keys : rows[k] # None => InTime(rows[k].exp, now)
    /\ \A p \in Procs : CallInTime(call[p])

LEMMA Numbers ==
    ASSUME TypeOK
    PROVE  /\ now \in Nat /\ Expiration \in Int /\ Int32(Expiration) \in Int
           /\ TicksPerMilli \in Nat \ {0} /\ TicksPerSecond \in Nat \ {0}
           /\ ExpireTicks(Expiration) \in Int /\ PxTicks(Expiration) \in Int
           /\ MaxRelative \in Nat
<1>1. Expiration \in Int
  BY StorageConstants DEF TypeOK, Expiration
<1>2. Int32(Expiration) \in Int
  BY <1>1, MemcachedConstants DEF Int32
<1> QED
  BY <1>1, <1>2, DeadlinesAreInt, StorageConstants, MemcachedConstants DEF TypeOK

LEMMA ItemExpiryIs ==
    ASSUME TypeOK
    PROVE  ItemExpiry(Int32(Expiration)) = ExpiryAt(Int32(Expiration), now)
<1> DEFINE n == Int32(Expiration)
           m == MaxRelative
           y == (Second(now) + n) * TicksPerSecond
           z == n * TicksPerSecond
<1> SUFFICES ItemExpiry(n) = ExpiryAt(n, now)
  OBVIOUS
<1>1. n \in Int /\ m \in Nat
  BY Numbers
<1>2. ItemExpiry(n) = CASE n = 0 -> 0
                        [] n < 0 -> now
                        [] n \in 1..m -> y
                        [] n > m -> z
  BY DEF ItemExpiry
<1>3. ExpiryAt(n, now) = IF n = 0 THEN 0
                         ELSE IF n < 0 THEN now
                         ELSE IF n <= m THEN y ELSE z
  BY DEF ExpiryAt
<1> HIDE DEF n, m, y, z
<1>4. n = 0 \/ n < 0 \/ n \in 1..m \/ n > m
  BY <1>1
<1>5. CASE n = 0
  <2>1. ~(n < 0) /\ n \notin 1..m /\ ~(n > m)
    BY <1>1, <1>5
  <2> QED
    BY <1>2, <1>3, <1>5, <2>1
<1>6. CASE n < 0
  <2>1. n # 0 /\ n \notin 1..m /\ ~(n > m)
    BY <1>1, <1>6
  <2> QED
    BY <1>2, <1>3, <1>6, <2>1
<1>7. CASE n \in 1..m
  <2>1. n # 0 /\ ~(n < 0) /\ ~(n > m) /\ n <= m
    BY <1>1, <1>7
  <2> QED
    BY <1>2, <1>3, <1>7, <2>1
<1>8. CASE n > m
  <2>1. n # 0 /\ ~(n < 0) /\ n \notin 1..m /\ ~(n <= m)
    BY <1>1, <1>8
  <2> QED
    BY <1>2, <1>3, <1>8, <2>1
<1> QED
  BY <1>4, <1>5, <1>6, <1>7, <1>8

\* What was in time stays so.
LEMMA InTimeLater ==
    ASSUME TypeOK, NEW exp \in Int, NEW t \in Nat, NEW u \in Nat, t <= u, InTime(exp, t)
    PROVE  InTime(exp, u)
<1> DEFINE E == Expiration
           n == Int32(Expiration)
<1>1. /\ E \in Int /\ n \in Int /\ TicksPerMilli \in Nat \ {0} /\ TicksPerSecond \in Nat \ {0}
      /\ ExpireTicks(E) \in Int /\ MaxRelative \in Nat
  BY Numbers
<1>2. Second(t) <= Second(u) /\ Second(t) \in Int /\ Second(u) \in Int
      /\ Second(t + E) <= Second(u + E) /\ Second(t + E) \in Int /\ Second(u + E) \in Int
  BY <1>1, Quotient, QuotientGrows DEF Second
<1>3. MongoDate(t + E) <= MongoDate(u + E) /\ MongoDate(t + E) \in Int /\ MongoDate(u + E) \in Int
  <2> DEFINE a == (t + E) \div TicksPerMilli
             b == (u + E) \div TicksPerMilli
  <2>1. a \in Int /\ b \in Int /\ a <= b
    BY <1>1, Quotient, QuotientGrows
  <2> HIDE DEF a, b
  <2>2. a * TicksPerMilli <= b * TicksPerMilli /\ a * TicksPerMilli \in Int /\ b * TicksPerMilli \in Int
    BY <1>1, <2>1, Product
  <2> QED
    BY <2>2 DEF MongoDate, a, b
<1>4. ExpiryAt(n, t) <= ExpiryAt(n, u) /\ ExpiryAt(n, t) \in Int /\ ExpiryAt(n, u) \in Int
  <2> HIDE DEF n
  <2> DEFINE a == Second(t) + n
             b == Second(u) + n
  <2>1. a \in Int /\ b \in Int /\ a <= b
    BY <1>1, <1>2
  <2> HIDE DEF a, b
  <2>2. a * TicksPerSecond <= b * TicksPerSecond
        /\ a * TicksPerSecond \in Int /\ b * TicksPerSecond \in Int
    BY <1>1, <2>1, Product
  <2>3. n * TicksPerSecond \in Int
    BY <1>1, Product
  <2> DEFINE x == a * TicksPerSecond
             y == b * TicksPerSecond
             z == n * TicksPerSecond
  <2>4. ExpiryAt(n, t) = IF n = 0 THEN 0 ELSE IF n < 0 THEN t ELSE IF n <= MaxRelative THEN x ELSE z
    BY DEF ExpiryAt, a
  <2>5. ExpiryAt(n, u) = IF n = 0 THEN 0 ELSE IF n < 0 THEN u ELSE IF n <= MaxRelative THEN y ELSE z
    BY DEF ExpiryAt, b
  <2>6. x \in Int /\ y \in Int /\ z \in Int /\ x <= y
    BY <2>2, <2>3
  <2> HIDE DEF x, y, z
  <2> QED
    BY <1>1, <2>4, <2>5, <2>6
<1> DEFINE mt == MongoDate(t + E)
           mu == MongoDate(u + E)
           st == Second(t + E)
           su == Second(u + E)
           et == ExpiryAt(n, t)
           eu == ExpiryAt(n, u)
           x == ExpireTicks(E)
<1>5. InTime(exp, t) <=>
         \/ exp = 0
         \/ config.type = "redis" /\ exp < t + x + TicksPerSecond
         \/ config.type = "memcached" /\ exp <= et
         \/ config.type = "mongodb" /\ exp <= mt
         \/ config.type = "postgres" /\ exp <= st
  BY DEF InTime
<1>6. InTime(exp, u) <=>
         \/ exp = 0
         \/ config.type = "redis" /\ exp < u + x + TicksPerSecond
         \/ config.type = "memcached" /\ exp <= eu
         \/ config.type = "mongodb" /\ exp <= mu
         \/ config.type = "postgres" /\ exp <= su
  BY DEF InTime
<1>7. /\ mt \in Int /\ mu \in Int /\ mt <= mu /\ st \in Int /\ su \in Int /\ st <= su
      /\ et \in Int /\ eu \in Int /\ et <= eu /\ x \in Int
  BY <1>1, <1>2, <1>3, <1>4
<1> HIDE DEF mt, mu, st, su, et, eu, x
<1> QED
  BY <1>1, <1>5, <1>6, <1>7

\* The deadline of SET in milliseconds is less than a second behind that of
\* EXPIRE in seconds.
LEMMA RedisLives ==
    ASSUME TypeOK, Expiration > 0
    PROVE  /\ PxTicks(Expiration) < ExpireTicks(Expiration) + TicksPerSecond
           /\ ExpireTicks(Expiration) > 0
<1> DEFINE E == Expiration
           M == TicksPerMilli
           S == TicksPerSecond
           a == E \div M
           b == E \div S
<1>1. E \in Nat \ {0} /\ M \in Nat \ {0} /\ S \in Nat \ {0} /\ M <= S
  BY Numbers, MilliInSecond
<1> HIDE DEF E, M, S
<1>2. a \in Int /\ a * M <= E /\ a >= 0 /\ a * M \in Int
  BY <1>1, Quotient
<1>3. b \in Int /\ E < b * S + S /\ b >= 0 /\ b * S \in Int
  BY <1>1, Quotient
<1>4. PxTicks(E) = (IF a = 0 THEN M ELSE a * M)
  BY <1>1 DEF PxTicks, AtLeastOne, M
<1>5. ExpireTicks(E) = IF b = 0 THEN S ELSE b * S
  <2>1. ~(E <= 0)
    BY <1>1
  <2> QED
    BY <1>1, <2>1 DEF ExpireTicks, AtLeastOne, S
<1> HIDE DEF a, b
<1>6. b # 0 => b * S >= S
  <2>1. b # 0 => 1 <= b
    BY <1>3
  <2> QED
    BY <1>1, <1>3, <2>1, Product
<1>7. PxTicks(E) < ExpireTicks(E) + S /\ ExpireTicks(E) > 0
  <2>1. b = 0 => b * S = 0
    BY <1>1
  <2> DEFINE am == a * M
             bs == b * S
  <2> HIDE DEF am, bs
  <2>2. am \in Int /\ bs \in Int /\ am <= E /\ E < bs + S /\ (b # 0 => bs >= S) /\ (b = 0 => bs = 0)
    BY <1>2, <1>3, <1>6, <2>1 DEF am, bs
  <2>3. PxTicks(E) = (IF a = 0 THEN M ELSE am) /\ ExpireTicks(E) = IF b = 0 THEN S ELSE bs
    BY <1>4, <1>5 DEF am, bs
  <2> QED
    BY <1>1, <2>2, <2>3
<1> QED
  BY <1>7 DEF E, S

-----------------------------------------------------------------------------
(* DeadlineInv is inductive. *)

\* The clock alone makes a difference to what InTime and Outdated say.
LEMMA SameTime ==
    ASSUME UNCHANGED config, NEW exp, NEW t
    PROVE  InTime(exp, t)' <=> InTime(exp, t)
<1>1. ExpiryAt(Int32(Expiration), t)' = ExpiryAt(Int32(Expiration), t)
  BY DEF ExpiryAt, Int32, Expiration, Second
<1>2. /\ ExpireTicks(Expiration)' = ExpireTicks(Expiration)
      /\ MongoDate(t + Expiration)' = MongoDate(t + Expiration)
      /\ Second(t + Expiration)' = Second(t + Expiration)
  BY DEF ExpireTicks, MongoDate, Second, Expiration
<1> QED
  BY <1>1, <1>2 DEF InTime

LEMMA SameCallInTime ==
    ASSUME UNCHANGED <<config, now>>, NEW c, CallInTime(c)
    PROVE  CallInTime(c)'
<1>1. InTime(c.row.exp, c.at)' <=> InTime(c.row.exp, c.at)
  BY SameTime
<1>2. Outdated(c.row)' <=> Outdated(c.row)
  BY DEF Outdated, MongoExpired, PostgresExpired, Second
<1> QED
  BY <1>1, <1>2 DEF CallInTime

LEMMA KeepsDeadlines ==
    ASSUME TypeOK, DeadlineInv, UNCHANGED <<config, now>>, NEW p \in Procs, NEW k \in Keys,
           \A j \in Keys \ {k} : rows'[j] = rows[j],
           rows'[k] # None => InTime(rows'[k].exp, now),
           \A q \in Procs \ {p} : call'[q] = call[q],
           CallInTime(call'[p])
    PROVE  DeadlineInv'
<1>1. ASSUME NEW j \in Keys, rows'[j] # None PROVE InTime(rows[j].exp, now)'
  <2>1. InTime(rows'[j].exp, now)
    BY <1>1 DEF DeadlineInv
  <2> DEFINE e == rows'[j].exp
  <2>2. InTime(e, now)
    BY <2>1
  <2>3. \A x, t : InTime(x, t) => InTime(x, t)'
    BY SameTime
  <2> QED
    BY <2>2, <2>3
<1>2. ASSUME NEW q \in Procs PROVE CallInTime(call[q])'
  <2>1. CallInTime(call'[q])
    BY DEF DeadlineInv
  <2>2. \A c : CallInTime(c) => CallInTime(c)'
    BY SameCallInTime
  <2> QED
    BY <2>1, <2>2
<1> QED
  BY <1>1, <1>2 DEF DeadlineInv

LEMMA AnswerInTime ==
    ASSUME TypeOK, NEW p \in Procs, NEW val, NEW err, Answer(p, val, err)
    PROVE  CallInTime(call'[p]) /\ \A q \in Procs \ {p} : call'[q] = call[q]
BY DEF TypeOK, CallOK, Answer, IdleCall, CallInTime

LEMMA SendAgainInTime ==
    ASSUME TypeOK, DeadlineInv, NEW p \in Procs, SendAgain(p)
    PROVE  CallInTime(call'[p]) /\ \A q \in Procs \ {p} : call'[q] = call[q]
<1> DEFINE c == [call[p] EXCEPT !.tries = @ + 1]
<1>1. call[p] \in CallType /\ call' = [call EXCEPT ![p] = c]
  BY DEF SendAgain, TypeOK, CallOK
<1>2. c.pc = call[p].pc /\ c.op = call[p].op /\ c.at = call[p].at /\ c.row = call[p].row
  BY <1>1 DEF CallType
<1> HIDE DEF c
<1>3. CallInTime(c)
  BY <1>2 DEF DeadlineInv, CallInTime
<1> QED
  BY <1>1, <1>3 DEF TypeOK, CallOK

LEMMA StampIs == ASSUME TypeOK PROVE Stamp \in Nat /\ Stamp <= now
BY DEF TypeOK, Stamp

LEMMA GoOnInTime ==
    ASSUME TypeOK, DeadlineInv, NEW p \in Procs, call[p].op = "get", NEW k \in Keys,
           rows[k] # None, NEW pc,
           pc = "fetched" \/ (pc = "overdue" /\ Outdated(rows[k])), GoOn(p, pc, rows[k])
    PROVE  CallInTime(call'[p]) /\ \A q \in Procs \ {p} : call'[q] = call[q]
<1> DEFINE c == [call[p] EXCEPT !.pc = pc, !.val = rows[k].val, !.row = rows[k],
                                !.at = Stamp]
<1>1. call[p] \in CallType /\ rows[k] \in RowType
  BY DEF TypeOK, CallOK, RowsOK
<1>2. call' = [call EXCEPT ![p] = c]
  BY <1>1 DEF GoOn, TypeOK, CallOK
<1>3. c.pc = pc /\ c.op = "get" /\ c.row = rows[k] /\ c.at = Stamp
  BY <1>1 DEF CallType
<1>4. InTime(rows[k].exp, now)
  BY DEF DeadlineInv
<1> HIDE DEF c
<1>5. config.type \in {"mongodb", "postgres"} => InTime(c.row.exp, c.at)
  BY <1>3, <1>4 DEF Stamp
<1>6. CallInTime(c)
  BY <1>1, <1>3, <1>5, StampIs DEF CallInTime
<1> QED
  BY <1>2, <1>6 DEF TypeOK, CallOK

\* What is to be shown of a step of an adapter: that the row of the key, if it
\* is changed, and the call are in time.
LEMMA StepDeadlines ==
    ASSUME TypeOK, DeadlineInv, UNCHANGED <<config, now>>, NEW p \in Procs,
           call[p].pc # "idle",
           \/ UNCHANGED rows
           \/ \E row : Store(call[p].key, row) /\ (row # None => InTime(row.exp, now)),
           CallInTime(call'[p]) /\ \A q \in Procs \ {p} : call'[q] = call[q]
    PROVE  DeadlineInv'
<1> DEFINE k == call[p].key
<1>1. k \in Keys /\ RowsOK
  BY DEF TypeOK, CallOK
<1>2. /\ \A j \in Keys \ {k} : rows'[j] = rows[j]
      /\ rows'[k] # None => InTime(rows'[k].exp, now)
  BY <1>1, StoreGenuine DEF DeadlineInv
<1> QED
  BY <1>1, <1>2, KeepsDeadlines

LEMMA FileDeadlines ==
    ASSUME TypeOK, DeadlineInv, NEW p \in Procs, config.type = "file", FileStep(p)
    PROVE  DeadlineInv'
<1> DEFINE k == call[p].key
<1>0. call[p].pc # "idle" /\ UNCHANGED <<config, now>>
  BY DEF FileStep, FileCreate, FileWrite, FileWriteShort, FileOpen, FileReadMore,
         FileReadEnd, At
<1>1. UNCHANGED rows \/ \E v : Store(k, Row(v, 0))
  BY DEF FileStep, FileCreate, FileWrite, FileWriteShort, FileOpen, FileReadMore,
         FileReadEnd
<1>2. \A v : Row(v, 0).exp = 0 /\ InTime(0, now)
  BY DEF Row, InTime
<1>3. CallInTime(call'[p]) /\ \A q \in Procs \ {p} : call'[q] = call[q]
  <2>1. CASE \E val, err : Answer(p, val, err)
    BY <2>1, AnswerInTime
  <2>2. CASE \E c : /\ call' = [call EXCEPT ![p] = c] /\ c.at = call[p].at /\ c.pc = "opened"
    BY <2>2 DEF CallInTime, DeadlineInv, TypeOK, CallOK
  <2>3. ASSUME \E pc, val : /\ pc = "opened"
                            /\ call' = [call EXCEPT ![p] = [@ EXCEPT !.pc = pc, !.val = val]]
        PROVE  \E c : call' = [call EXCEPT ![p] = c] /\ c.at = call[p].at /\ c.pc = "opened"
    <3>1. PICK val : call' = [call EXCEPT ![p] = [@ EXCEPT !.pc = "opened", !.val = val]]
      BY <2>3
    <3> DEFINE c == [call[p] EXCEPT !.pc = "opened", !.val = val]
    <3>2. call[p] \in CallType /\ call \in [Procs -> CallType]
      BY DEF TypeOK, CallOK
    <3>3. call' = [call EXCEPT ![p] = c] /\ c.at = call[p].at /\ c.pc = "opened"
      BY <3>1, <3>2 DEF CallType
    <3> QED
      BY <3>3
  <2>4. call[p] \in CallType /\ call \in [Procs -> CallType]
    BY DEF TypeOK, CallOK
  <2>5. CASE FileCreate(p)
    <3>1. call' = [call EXCEPT ![p] = [@ EXCEPT !.pc = "opened", !.val = call[p].val]]
      BY <2>4, <2>5 DEF FileCreate, CallType
    <3> QED
      BY <2>2, <2>3, <3>1
  <2>6. CASE FileOpen(p)
    <3>1. CASE rows[k] = None
      BY <2>1, <2>6, <3>1 DEF FileOpen
    <3>2. CASE rows[k] # None
      <4>1. call' = [call EXCEPT ![p] = [@ EXCEPT !.pc = "opened", !.val = rows[k].val]]
        BY <2>4, <2>6, <3>2 DEF FileOpen, CallType
      <4> QED
        BY <2>2, <2>3, <4>1
    <3> QED
      BY <3>1, <3>2
  <2>7. CASE FileReadMore(p)
    <3> DEFINE val == Overlay(call[p].val, rows[k].val)
    <3>1. call' = [call EXCEPT ![p].val = val] /\ call[p].pc = "opened"
      BY <2>7 DEF FileReadMore, At
    <3> HIDE DEF val
    <3>2. call' = [call EXCEPT ![p] = [@ EXCEPT !.pc = "opened", !.val = val]]
      BY <2>4, <3>1 DEF CallType
    <3> QED
      BY <2>2, <2>3, <3>2
  <2>8. CASE FileWrite(p) \/ FileWriteShort(p) \/ FileReadEnd(p)
    BY <2>1, <2>8 DEF FileWrite, FileWriteShort, FileReadEnd
  <2> QED
    BY <2>5, <2>6, <2>7, <2>8 DEF FileStep
<1> QED
  BY <1>0, <1>1, <1>2, <1>3, StepDeadlines

LEMMA RedisDeadlines ==
    ASSUME TypeOK, DeadlineInv, NEW p \in Procs, config.type = "redis", RedisStep(p)
    PROVE  DeadlineInv'
<1> DEFINE k == call[p].key
           px == PxTicks(Expiration)
           ex == ExpireTicks(Expiration)
<1>0. call[p].pc # "idle" /\ UNCHANGED <<config, now>>
  BY DEF RedisStep, RedisSet, RedisGet, RedisExpire, At
<1>1. /\ call[p] \in CallType /\ k \in Keys /\ rows[k] \in RowType \cup {None}
  BY <1>0, InProgressTyped
<1>2. /\ now \in Nat /\ px \in Int /\ ex \in Int /\ TicksPerSecond \in Nat \ {0}
  BY Numbers
<1>3. Expiration > 0 => px < ex + TicksPerSecond
  BY RedisLives
<1> HIDE DEF px, ex
<1>4. \A exp \in Int : exp < now + ex + TicksPerSecond => InTime(exp, now)
  BY DEF InTime, ex
<1>5. InTime(0, now)
  BY DEF InTime
<1>6. CASE RedisSet(p)
  <2> DEFINE duration == IF call[p].skip THEN 0 ELSE Expiration
             exp == SetExpiry(k, duration)
  <2>1. Store(k, Row(call[p].val, exp))
    BY <1>6 DEF RedisSet
  <2>2. InTime(exp, now)
    <3>1. CASE duration > 0
      <4>1. Expiration > 0 /\ exp = now + px
        BY <1>1, <3>1 DEF SetExpiry, CallType, px
      <4>2. now + px \in Int /\ now + px < now + ex + TicksPerSecond
        BY <1>2, <1>3, <4>1
      <4> QED
        BY <1>4, <4>1, <4>2
    <3>2. CASE ~(duration > 0) /\ duration = KeepTTL /\ Live(k)
      <4>1. exp = rows[k].exp /\ rows[k] # None
        BY <3>2 DEF SetExpiry, Live
      <4> HIDE DEF exp
      <4> QED
        BY <1>1, <4>1 DEF DeadlineInv
    <3>3. CASE ~(duration > 0) /\ ~(duration = KeepTTL /\ Live(k))
      BY <1>5, <3>3 DEF SetExpiry
    <3> QED
      BY <3>1, <3>2, <3>3
  <2> HIDE DEF exp
  <2>3. Row(call[p].val, exp).exp = exp
    BY DEF Row
  <2>4. CallInTime(call'[p]) /\ \A q \in Procs \ {p} : call'[q] = call[q]
    <3>1. CASE SendAgain(p)
      BY <3>1, SendAgainInTime
    <3>2. CASE \E err : Answer(p, Empty, err)
      BY <3>2, AnswerInTime
    <3> QED
      BY <1>6, <3>1, <3>2 DEF RedisSet
  <2> QED
    BY <1>0, <2>1, <2>2, <2>3, <2>4, StepDeadlines
<1>7. CASE RedisGet(p)
  <2>1. CASE \E val, err : Answer(p, val, err)
    BY <1>0, <1>7, <2>1, AnswerInTime, StepDeadlines DEF RedisGet
  <2>2. CASE rows[k] # None /\ GoOn(p, "fetched", rows[k])
    BY <1>0, <1>1, <1>7, <2>2, GoOnInTime, StepDeadlines DEF RedisGet, At
  <2> QED
    BY <1>7, <2>1, <2>2 DEF RedisGet, Live
<1>8. CASE RedisExpire(p)
  <2>1. CallInTime(call'[p]) /\ \A q \in Procs \ {p} : call'[q] = call[q]
    BY <1>8, AnswerInTime, SendAgainInTime DEF RedisExpire
  <2>2. CASE UNCHANGED rows \/ Store(k, None)
    BY <1>0, <2>1, <2>2, StepDeadlines
  <2>3. CASE Live(k) /\ Store(k, [rows[k] EXCEPT !.exp = now + ex])
    <3> DEFINE row == [rows[k] EXCEPT !.exp = now + ex]
    <3>1. rows[k] \in RowType
      BY <1>1, <2>3 DEF Live
    <3>2. row.exp = now + ex /\ Store(k, row)
      BY <2>3, <3>1 DEF RowType
    <3> HIDE DEF row
    <3>3. now + ex \in Int /\ now + ex < now + ex + TicksPerSecond
      BY <1>2
    <3> QED
      BY <1>0, <1>4, <2>1, <3>2, <3>3, StepDeadlines
  <2> QED
    BY <1>8, <2>2, <2>3 DEF RedisExpire, ex
<1> QED
  BY <1>6, <1>7, <1>8 DEF RedisStep

LEMMA MemcachedDeadlines ==
    ASSUME TypeOK, DeadlineInv, NEW p \in Procs, config.type = "memcached", MemcachedStep(p)
    PROVE  DeadlineInv'
<1> DEFINE k == call[p].key
           x == ItemExpiry(Int32(Expiration))
<1>0. call[p].pc # "idle" /\ UNCHANGED <<config, now>>
  BY DEF MemcachedStep, MemcachedSet, MemcachedGet, MemcachedReplace, At
<1>1. /\ call[p] \in CallType /\ k \in Keys /\ rows[k] \in RowType \cup {None}
  BY <1>0, InProgressTyped
<1>2. InTime(x, now) /\ InTime(ItemExpiry(0), now)
  <2>1. x \in Int /\ x = ExpiryAt(Int32(Expiration), now)
    BY DeadlinesAreInt, ItemExpiryIs
  <2>2. x <= ExpiryAt(Int32(Expiration), now)
    BY <2>1
  <2>3. ItemExpiry(0) = 0
    BY MemcachedConstants DEF ItemExpiry
  <2> QED
    BY <2>2, <2>3 DEF InTime
<1> HIDE DEF x
<1>3. CASE MemcachedSet(p)
  <2> DEFINE exp == ItemExpiry(IF call[p].skip THEN 0 ELSE Int32(Expiration))
  <2>1. InTime(exp, now) /\ Store(k, Row(call[p].val, exp))
    BY <1>2, <1>3 DEF MemcachedSet, x
  <2> HIDE DEF exp
  <2>2. Row(call[p].val, exp).exp = exp
    BY DEF Row
  <2> QED
    BY <1>0, <1>3, <2>1, <2>2, AnswerInTime, StepDeadlines DEF MemcachedSet
<1>4. CASE MemcachedGet(p)
  <2>1. CASE \E val, err : Answer(p, val, err)
    BY <1>0, <1>4, <2>1, AnswerInTime, StepDeadlines DEF MemcachedGet
  <2>2. CASE rows[k] # None /\ GoOn(p, "fetched", rows[k])
    BY <1>0, <1>1, <1>4, <2>2, GoOnInTime, StepDeadlines DEF MemcachedGet, At
  <2> QED
    BY <1>4, <2>1, <2>2 DEF MemcachedGet, Live
<1>5. CASE MemcachedReplace(p)
  <2>1. UNCHANGED rows \/ Store(k, Row(call[p].val, x))
    BY <1>5 DEF MemcachedReplace, x
  <2>2. Row(call[p].val, x).exp = x
    BY DEF Row
  <2> QED
    BY <1>0, <1>2, <1>5, <2>1, <2>2, AnswerInTime, StepDeadlines DEF MemcachedReplace
<1> QED
  BY <1>3, <1>4, <1>5 DEF MemcachedStep

\* A deadline of the two adapters that read the clock before they send it.
LEMMA SentInTime ==
    ASSUME TypeOK, DeadlineInv, NEW p \in Procs
    PROVE  /\ config.type = "mongodb" => InTime(MongoDate(call[p].at + Expiration), now)
           /\ config.type = "postgres" => InTime(UnixDeadline(p), now)
<1> DEFINE t == call[p].at
<1>1. t \in Nat /\ t <= now /\ now \in Nat /\ Expiration \in Int
  BY Numbers DEF DeadlineInv, CallInTime
<1>2. MongoDate(t + Expiration) \in Int /\ Second(t + Expiration) \in Int
  BY <1>1, DeadlinesAreInt
<1>3. CASE config.type = "mongodb"
  <2> DEFINE exp == MongoDate(t + Expiration)
  <2>1. exp \in Int /\ exp <= exp
    BY <1>2
  <2>2. InTime(exp, t)
    BY <1>3, <2>1 DEF InTime
  <2> HIDE DEF exp
  <2>3. InTime(exp, now)
    BY <1>1, <2>1, <2>2, InTimeLater
  <2> QED
    BY <1>3, <2>3 DEF exp
<1>4. CASE config.type = "postgres"
  <2> DEFINE exp == Second(t + Expiration)
  <2>1. exp \in Int /\ exp <= exp
    BY <1>2
  <2>2. InTime(exp, t)
    BY <1>4, <2>1 DEF InTime
  <2> HIDE DEF exp
  <2>3. InTime(exp, now)
    BY <1>1, <2>1, <2>2, InTimeLater
  <2> QED
    BY <1>4, <2>3 DEF exp, UnixDeadline
<1> QED
  BY <1>3, <1>4

LEMMA MongoDeadlines ==
    ASSUME TypeOK, DeadlineInv, NEW p \in Procs, config.type = "mongodb", MongoStep(p)
    PROVE  DeadlineInv'
<1> DEFINE k == call[p].key
           x == MongoDate(call[p].at + Expiration)
<1>0. call[p].pc # "idle" /\ UNCHANGED <<config, now>>
  BY DEF MongoStep, MongoSet, MongoFind, MongoDelete, MongoUpdate, At
<1>1. /\ call[p] \in CallType /\ k \in Keys /\ rows[k] \in RowType \cup {None}
  BY <1>0, InProgressTyped
<1>2. InTime(x, now) /\ InTime(0, now)
  BY SentInTime DEF InTime
<1>3. CASE MongoSet(p)
  <2> DEFINE exp == IF call[p].skip THEN 0 ELSE x
  <2>1. InTime(exp, now) /\ (UNCHANGED rows \/ Store(k, Row(call[p].val, exp)))
    BY <1>2, <1>3 DEF MongoSet
  <2> HIDE DEF exp
  <2>2. Row(call[p].val, exp).exp = exp
    BY DEF Row
  <2>3. \E err : Answer(p, Empty, err)
    BY <1>3 DEF MongoSet
  <2> QED
    BY <1>0, <2>1, <2>2, <2>3, AnswerInTime, StepDeadlines
<1>4. CASE MongoFind(p)
  <2>0. UNCHANGED rows
    BY <1>4 DEF MongoFind
  <2>1. CASE \E val, err : Answer(p, val, err)
    BY <1>0, <2>0, <2>1, AnswerInTime, StepDeadlines
  <2>2. CASE rows[k] # None /\ \/ GoOn(p, "fetched", rows[k])
                               \/ Outdated(rows[k]) /\ GoOn(p, "overdue", rows[k])
    BY <1>0, <1>1, <1>4, <2>0, <2>2, GoOnInTime, StepDeadlines DEF MongoFind, At
  <2> QED
    BY <1>4, <2>1, <2>2 DEF MongoFind, Outdated
<1>5. CASE MongoDelete(p)
  BY <1>0, <1>5, AnswerInTime, StepDeadlines DEF MongoDelete
<1>6. CASE MongoUpdate(p)
  <2>1. CallInTime(call'[p]) /\ \A q \in Procs \ {p} : call'[q] = call[q]
    BY <1>6, AnswerInTime DEF MongoUpdate
  <2>2. CASE rows[k] = None
    BY <1>0, <1>6, <2>1, <2>2, StepDeadlines DEF MongoUpdate
  <2>3. CASE rows[k] # None
    <3>1. Store(k, [rows[k] EXCEPT !.exp = x]) /\ rows[k] \in RowType
      BY <1>1, <1>6, <2>3 DEF MongoUpdate
    <3>2. [rows[k] EXCEPT !.exp = x].exp = x
      BY <3>1 DEF RowType
    <3> QED
      BY <1>0, <1>2, <2>1, <3>1, <3>2, StepDeadlines
  <2> QED
    BY <2>2, <2>3
<1> QED
  BY <1>3, <1>4, <1>5, <1>6 DEF MongoStep

LEMMA PostgresDeadlines ==
    ASSUME TypeOK, DeadlineInv, NEW p \in Procs, config.type = "postgres", PostgresStep(p)
    PROVE  DeadlineInv'
<1> DEFINE k == call[p].key
           x == UnixDeadline(p)
<1>0. call[p].pc # "idle" /\ UNCHANGED <<config, now>>
  BY DEF PostgresStep, PostgresSet, PostgresSelect, PostgresDelete, PostgresUpdate, At
<1>1. /\ call[p] \in CallType /\ k \in Keys /\ rows[k] \in RowType \cup {None}
  BY <1>0, InProgressTyped
<1>2. InTime(x, now) /\ InTime(0, now)
  BY SentInTime DEF InTime
<1> HIDE DEF x
<1>3. CASE PostgresSet(p)
  <2> DEFINE exp == IF call[p].skip THEN 0 ELSE x
  <2>1. InTime(exp, now)
    BY <1>2
  <2>2. PICK row : /\ Store(k, row)
                   /\ \/ row = [val |-> call[p].val, exp |-> exp, id |-> lastId + 1]
                      \/ /\ rows[k] # None
                         /\ row = [rows[k] EXCEPT !.val = call[p].val, !.exp = exp]
    BY <1>3 DEF PostgresSet, x
  <2> HIDE DEF exp
  <2>3. row.exp = exp
    <3>1. CASE row = [val |-> call[p].val, exp |-> exp, id |-> lastId + 1]
      BY <3>1
    <3>2. CASE /\ rows[k] # None
               /\ row = [rows[k] EXCEPT !.val = call[p].val, !.exp = exp]
      <4>1. rows[k] \in RowType
        BY <1>1, <3>2
      <4> QED
        BY <3>2, <4>1 DEF RowType
    <3> QED
      BY <2>2, <3>1, <3>2
  <2>4. \E err : Answer(p, Empty, err)
    BY <1>3 DEF PostgresSet
  <2> QED
    BY <1>0, <2>1, <2>2, <2>3, <2>4, AnswerInTime, StepDeadlines
<1>4. CASE PostgresSelect(p)
  <2>0. UNCHANGED rows
    BY <1>4 DEF PostgresSelect
  <2>1. CASE \E val, err : Answer(p, val, err)
    BY <1>0, <2>0, <2>1, AnswerInTime, StepDeadlines
  <2>2. CASE rows[k] # None /\ \/ GoOn(p, "fetched", rows[k])
                               \/ Outdated(rows[k]) /\ GoOn(p, "overdue", rows[k])
    BY <1>0, <1>1, <1>4, <2>0, <2>2, GoOnInTime, StepDeadlines DEF PostgresSelect, At
  <2> QED
    BY <1>4, <2>1, <2>2 DEF PostgresSelect, Outdated
<1>5. CASE PostgresDelete(p)
  BY <1>0, <1>5, AnswerInTime, StepDeadlines DEF PostgresDelete
<1>6. CASE PostgresUpdate(p)
  <2>1. CallInTime(call'[p]) /\ \A q \in Procs \ {p} : call'[q] = call[q]
    BY <1>6, AnswerInTime DEF PostgresUpdate
  <2>2. UNCHANGED rows \/ (rows[k] # None /\ Store(k, [rows[k] EXCEPT !.exp = x]))
    BY <1>6 DEF PostgresUpdate, SameId, x
  <2>3. rows[k] # None => [rows[k] EXCEPT !.exp = x].exp = x
    BY <1>1 DEF RowType
  <2> QED
    BY <1>0, <1>2, <2>1, <2>2, <2>3, StepDeadlines
<1> QED
  BY <1>3, <1>4, <1>5, <1>6 DEF PostgresStep

LEMMA S3Deadlines ==
    ASSUME TypeOK, DeadlineInv, NEW p \in Procs, config.type = "s3", S3Step(p)
    PROVE  DeadlineInv'
<1> DEFINE k == call[p].key
<1>0. call[p].pc # "idle" /\ UNCHANGED <<config, now>>
  BY DEF S3Step, S3Put, S3Get, S3Unanswered, At
<1>1. call[p] \in CallType /\ call \in [Procs -> CallType]
  BY DEF TypeOK, CallOK
<1>2. CallInTime(call'[p]) /\ \A q \in Procs \ {p} : call'[q] = call[q]
  <2>1. CASE \E val, err : Answer(p, val, err)
    BY <2>1, AnswerInTime
  <2>2. CASE call' = [call EXCEPT ![p].tries = @ + 1]
    BY <1>1, <2>2 DEF DeadlineInv, CallInTime, CallType
  <2> QED
    BY <2>1, <2>2 DEF S3Step, S3Put, S3Get, S3Unanswered, TryAgain
<1>3. UNCHANGED rows \/ \E v : Store(k, Row(v, 0))
  BY DEF S3Step, S3Put, S3Get, S3Unanswered
<1>4. \A v : Row(v, 0).exp = 0 /\ InTime(0, now)
  BY DEF Row, InTime
<1> QED
  BY <1>0, <1>2, <1>3, <1>4, StepDeadlines

LEMMA TickDeadlines ==
    ASSUME TypeOK, DeadlineInv, Tick
    PROVE  DeadlineInv'
<1>1. now \in Nat /\ now' = now + 1 /\ UNCHANGED <<config, rows, call>>
  BY DEF Tick, TypeOK
<1>2. \A x, t : InTime(x, t) => InTime(x, t)'
  BY <1>1, SameTime
<1>3. ASSUME NEW k \in Keys, rows[k] # None PROVE InTime(rows[k].exp, now)'
  <2> DEFINE e == rows[k].exp
             n == now + 1
  <2>1. e \in Int /\ n \in Nat /\ now <= n
    BY <1>1, <1>3 DEF TypeOK, RowsOK, RowType
  <2>2. InTime(e, now)
    BY <1>3 DEF DeadlineInv
  <2> HIDE DEF e, n
  <2>3. InTime(e, n)
    BY <1>1, <2>1, <2>2, InTimeLater
  <2> QED
    BY <1>1, <1>2, <2>3 DEF e, n
<1>4. ASSUME NEW p \in Procs PROVE CallInTime(call[p])'
  <2> DEFINE c == call[p]
  <2>1. /\ c.at \in Nat /\ c.at <= now
        /\ c.pc = "fetched" =>
              /\ c.op = "get" /\ c.row \in RowType
              /\ config.type \in {"mongodb", "postgres"} => InTime(c.row.exp, c.at)
        /\ c.pc = "overdue" => c.op = "get" /\ c.row \in RowType /\ Outdated(c.row)
    BY DEF DeadlineInv, CallInTime
  <2>2. ASSUME c.row \in RowType, Outdated(c.row) PROVE Outdated(c.row)'
    <3>1. Second(now) <= Second(now + 1) /\ Second(now) \in Int /\ Second(now + 1) \in Int
      BY <1>1, Numbers, Quotient, QuotientGrows DEF Second
    <3>2. c.row.exp \in Int /\ Second(c.row.exp) \in Int
      BY <2>2, DeadlinesAreInt DEF RowType
    <3>3. Second(now)' = Second(now + 1) /\ Second(c.row.exp)' = Second(c.row.exp)
          /\ (c.row.exp)' = c.row.exp
      BY <1>1 DEF Second
    <3> QED
      BY <1>1, <2>2, <3>1, <3>2, <3>3 DEF Outdated, MongoExpired, PostgresExpired
  <2>3. c' = c
    BY <1>1
  <2>4. c.at <= now'
    BY <1>1, <2>1
  <2>5. InTime(c.row.exp, c.at) => InTime(c.row.exp, c.at)'
    BY <1>1, <1>2
  <2> QED
    BY <1>1, <2>1, <2>2, <2>3, <2>4, <2>5 DEF CallInTime
<1> QED
  BY <1>1, <1>3, <1>4 DEF DeadlineInv

LEMMA DeadlineInit == Init => DeadlineInv
BY StorageConstants DEF Init, DeadlineInv, CallInTime, IdleCall

LEMMA DeadlineStep ==
    TypeOK /\ DeadlineInv /\ [Next]_storageVars => DeadlineInv'
<1> SUFFICES ASSUME TypeOK, DeadlineInv, [Next]_storageVars PROVE DeadlineInv'
  OBVIOUS
<1>0. CallOK /\ RowsOK /\ now \in Nat
  BY DEF TypeOK
\* What happens to one call and to no row.
<1>1. ASSUME UNCHANGED <<config, now, rows>>, NEW p \in Procs, CallInTime(call'[p]),
             \A q \in Procs \ {p} : call'[q] = call[q]
      PROVE  DeadlineInv'
  <2>1. \A q \in Procs : CallInTime(call'[q])
    BY <1>1 DEF DeadlineInv
  <2>2. \A c : CallInTime(c) => CallInTime(c)'
    BY <1>1, SameCallInTime
  <2>3. \A x, t : InTime(x, t) => InTime(x, t)'
    BY <1>1, SameTime
  <2> QED
    BY <1>1, <2>1, <2>2, <2>3 DEF DeadlineInv
<1>2. ASSUME NEW p \in Procs, NEW k \in Keys, NEW v \in Values, NEW skip \in Skips,
             CallSet(p, k, v, skip)
      PROVE  DeadlineInv'
  <2>1. CallInTime(call'[p]) /\ \A q \in Procs \ {p} : call'[q] = call[q]
    BY <1>0, <1>2, StampIs DEF CallSet, CallOK, IdleCall, CallInTime
  <2> QED
    BY <1>1, <1>2, <2>1 DEF CallSet
<1>3. ASSUME NEW p \in Procs, NEW k \in Keys, NEW skip \in Skips, CallGet(p, k, skip)
      PROVE  DeadlineInv'
  <2>1. CallInTime(call'[p]) /\ \A q \in Procs \ {p} : call'[q] = call[q]
    BY <1>0, <1>3 DEF CallGet, CallOK, IdleCall, CallInTime
  <2> QED
    BY <1>1, <1>3, <2>1 DEF CallGet
<1>4. ASSUME NEW p \in Procs, AdapterStep(p) PROVE DeadlineInv'
  BY <1>4, FileDeadlines, RedisDeadlines, MemcachedDeadlines, MongoDeadlines,
     PostgresDeadlines, S3Deadlines DEF AdapterStep
<1>5. ASSUME NEW p \in Procs, Fail(p) PROVE DeadlineInv'
  BY <1>1, <1>5, AnswerInTime DEF Fail
<1>6. ASSUME NEW p \in Procs, Return(p) PROVE DeadlineInv'
  <2>1. CallInTime(call'[p]) /\ \A q \in Procs \ {p} : call'[q] = call[q]
    BY <1>0, <1>6 DEF Return, CallOK, IdleCall, CallInTime
  <2> QED
    BY <1>1, <1>6, <2>1 DEF Return
<1>7. ASSUME NEW k \in Keys, ServerExpires(k) \/ Evict(k) PROVE DeadlineInv'
  <2>1. Store(k, None) /\ UNCHANGED <<config, now, call>>
    BY <1>7 DEF ServerExpires, Evict
  <2>2. rows'[k] = None /\ \A j \in Keys \ {k} : rows'[j] = rows[j]
    BY <1>0, <2>1, StoreGenuine
  <2>3. \A c : CallInTime(c) => CallInTime(c)'
    BY <2>1, SameCallInTime
  <2>4. \A x, t : InTime(x, t) => InTime(x, t)'
    BY <2>1, SameTime
  <2> QED
    BY <2>1, <2>2, <2>3, <2>4 DEF DeadlineInv
<1>8. CASE Tick
  BY <1>8, TickDeadlines
<1>9. CASE Crash \/ UNCHANGED storageVars
  <2>1. UNCHANGED <<config, now, rows>> /\ \A p \in Procs : call'[p] \in {IdleCall, call[p]}
    BY <1>9 DEF Crash, storageVars
  <2>2. CallInTime(IdleCall)
    BY <1>0 DEF CallInTime, IdleCall
  <2>3. \A c : CallInTime(c) => CallInTime(c)'
    BY <2>1, SameCallInTime
  <2>4. \A x, t : InTime(x, t) => InTime(x, t)'
    BY <2>1, SameTime
  <2> QED
    BY <2>1, <2>2, <2>3, <2>4 DEF DeadlineInv
<1> QED
  BY <1>2, <1>3, <1>4, <1>5, <1>6, <1>7, <1>8, <1>9 DEF Next

-----------------------------------------------------------------------------
(* What is removed, and what is put off. *)

\* A step of an adapter moves one call and touches one row.
LEMMA AdapterCalls ==
    ASSUME NEW p \in Procs, AdapterStep(p)
    PROVE  /\ call[p].pc \in {"called", "opened", "fetched", "overdue"}
           /\ \/ \E val, err : Answer(p, val, err)
              \/ \E pc, row : GoOn(p, pc, row)
              \/ call' = [call EXCEPT ![p].pc = "opened"]
              \/ \E val : call' = [call EXCEPT ![p].pc = "opened", ![p].val = val]
              \/ \E val : call' = [call EXCEPT ![p].val = val]
              \/ call' = [call EXCEPT ![p].tries = @ + 1]
BY DEF AdapterStep, FileStep, FileCreate, FileWrite, FileWriteShort, FileOpen,
       FileReadMore, FileReadEnd, RedisStep, RedisSet, RedisGet, RedisExpire, SendAgain,
       MemcachedStep, MemcachedSet, MemcachedGet, MemcachedReplace,
       MongoStep, MongoSet, MongoFind, MongoDelete, MongoUpdate,
       PostgresStep, PostgresSet, PostgresSelect, PostgresDelete, PostgresUpdate,
       S3Step, S3Put, S3Get, S3Unanswered, TryAgain, At

LEMMA AdapterRows ==
    ASSUME NEW p \in Procs, AdapterStep(p)
    PROVE  /\ UNCHANGED <<config, now, given>>
           /\ UNCHANGED rows \/ \E row : Store(call[p].key, row)
BY DEF AdapterStep, FileStep, FileCreate, FileWrite, FileWriteShort, FileOpen,
       FileReadMore, FileReadEnd, RedisStep, RedisSet, RedisGet, RedisExpire,
       MemcachedStep, MemcachedSet, MemcachedGet, MemcachedReplace,
       MongoStep, MongoSet, MongoFind, MongoDelete, MongoUpdate,
       PostgresStep, PostgresSet, PostgresSelect, PostgresDelete, PostgresUpdate,
       S3Step, S3Put, S3Get, S3Unanswered

LEMMA AdapterMoves ==
    ASSUME TypeOK, NEW p \in Procs, AdapterStep(p)
    PROVE  /\ UNCHANGED <<config, now, given>> /\ call[p].pc # "idle"
           /\ \A q \in Procs \ {p} : call'[q] = call[q]
           /\ \A j \in Keys \ {call[p].key} : rows'[j] = rows[j]
<1>1. RowsOK /\ CallOK
  BY DEF TypeOK
<1>2. call[p].pc # "idle"
  BY AdapterCalls
<1>3. \A q \in Procs \ {p} : call'[q] = call[q]
  BY <1>1, AdapterCalls DEF CallOK, Answer, GoOn
<1>4. \A j \in Keys \ {call[p].key} : rows'[j] = rows[j]
  BY <1>1, <1>2, AdapterRows, StoreGenuine DEF CallOK
<1> QED
  BY <1>2, <1>3, <1>4, AdapterRows

\* A row with another value or another deadline is a row.
LEMMA RowStays ==
    ASSUME NEW row \in RowType
    PROVE  /\ row # None
           /\ \A exp \in Int : [row EXCEPT !.exp = exp] # None
           /\ \A val \in Contents, exp \in Int :
                 [row EXCEPT !.val = val, !.exp = exp] # None
BY StorageConstants DEF RowType

LEMMA FilesStay ==
    ASSUME TypeInv, NEW p \in Procs, config.type = "file", FileStep(p),
           NEW k \in Keys, rows[k] # None
    PROVE  rows'[k] # None
<1> DEFINE j == call[p].key
<1>0. call[p].pc # "idle"
  BY DEF FileStep, FileCreate, FileWrite, FileWriteShort, FileOpen, FileReadMore,
         FileReadEnd, At
<1>1. /\ TypeOK /\ RowsOK /\ call[p] \in CallType /\ j \in Keys
      /\ call[p].val \in Contents /\ rows[j] \in RowType \cup {None}
  BY <1>0, InProgressTyped DEF TypeInv, TypeOK
<1>2. \A v \in Contents : Row(v, 0) # None
  BY RowTyped
<1>3. ASSUME NEW v \in Contents, Store(j, Row(v, 0)) PROVE rows'[k] # None
  BY <1>1, <1>2, <1>3, StoreGenuine
<1>4. CASE FileCreate(p)
  BY <1>3, <1>4, EmptyContents DEF FileCreate
<1>5. CASE FileWrite(p) \/ FileWriteShort(p)
  <2>1. rows[j] \in RowType /\ rows[j].val \in Contents
    BY <1>1, <1>5 DEF FileWrite, FileWriteShort, At, TypeInv, OpenedExists, RowType
  <2>2. PICK v \in Contents : Store(j, Row(v, 0))
    <3>1. CASE FileWrite(p)
      BY <1>1, <2>1, <3>1, OverlayContents DEF FileWrite
    <3>2. CASE FileWriteShort(p)
      <4>1. PICK n \in 0..Len(call[p].val) - 1 :
              Store(j, Row(Overlay(SubSeq(call[p].val, 1, n), rows[j].val), 0))
        BY <3>2 DEF FileWriteShort
      <4>2. Overlay(SubSeq(call[p].val, 1, n), rows[j].val) \in Contents
        BY <1>1, <2>1, PrefixContents, OverlayContents
      <4> QED
        BY <4>1, <4>2
    <3> QED
      BY <1>5, <3>1, <3>2
  <2> QED
    BY <1>3, <2>2
<1>6. CASE FileOpen(p) \/ FileReadMore(p) \/ FileReadEnd(p)
  BY <1>6 DEF FileOpen, FileReadMore, FileReadEnd
<1> QED
  BY <1>4, <1>5, <1>6 DEF FileStep

\* An adapter removes a row with the DELETE of a Get that has found it overdue,
\* or with an EXPIRE of no seconds.
LEMMA Removal ==
    ASSUME TypeInv, NEW p \in Procs, AdapterStep(p), NEW k \in Keys,
           rows[k] # None, rows'[k] = None, config.type # "memcached"
    PROVE  /\ call[p].key = k
           /\ \/ config.type = "redis" /\ Expiration <= 0 /\ At(p, "get", "fetched")
              \/ config.type \in {"mongodb", "postgres"} /\ At(p, "get", "overdue")
<1>0. TypeOK /\ RowsOK /\ call[p].pc # "idle"
  BY AdapterMoves DEF TypeInv, TypeOK
<1>1. call[p].key = k
  BY <1>0, AdapterMoves
<1>2. /\ call[p] \in CallType /\ call[p].val \in Contents /\ rows[k] \in RowType
      /\ \A exp \in Int : [rows[k] EXCEPT !.exp = exp] # None
      /\ \A val \in Contents, exp \in Int : [rows[k] EXCEPT !.val = val, !.exp = exp] # None
  BY <1>0, <1>1, InProgressTyped, RowStays
<1>3. \A row : Store(k, row) => rows'[k] = row
  BY <1>0, StoreGenuine
<1>4. \A val \in Contents, exp \in Int : Row(val, exp) # None
  BY RowTyped
<1>5. /\ now \in Nat /\ lastId \in Nat /\ Expiration \in Int
      /\ SetExpiry(k, IF call[p].skip THEN 0 ELSE Expiration) \in Int
      /\ ExpireTicks(Expiration) \in Int /\ MongoDate(call[p].at + Expiration) \in Int
      /\ UnixDeadline(p) \in Int
  <2>1. call[p].skip \in BOOLEAN /\ call[p].at \in Int
    BY <1>2 DEF CallType
  <2>2. SetExpiry(k, IF call[p].skip THEN 0 ELSE Expiration) \in Int
    BY <1>0, <2>1, SetExpiryIsInt
  <2> QED
    BY <1>0, <2>1, <2>2, DeadlinesAreInt DEF TypeOK, UnixDeadline
<1>6. CASE config.type = "file"
  BY <1>6, FilesStay DEF AdapterStep
<1>7. CASE config.type = "redis"
  <2>0. RedisStep(p)
    BY <1>7 DEF AdapterStep
  <2>1. CASE RedisSet(p)
    <3> DEFINE exp == SetExpiry(k, IF call[p].skip THEN 0 ELSE Expiration)
    <3>1. exp \in Int /\ Store(k, Row(call[p].val, exp))
      BY <1>1, <1>5, <2>1 DEF RedisSet
    <3> HIDE DEF exp
    <3> QED
      BY <1>2, <1>3, <1>4, <3>1
  <2>2. CASE RedisGet(p)
    BY <2>2 DEF RedisGet
  <2>3. CASE RedisExpire(p)
    <3> DEFINE ttl == ExpireTicks(Expiration)
    <3>1. ~(ttl > 0)
      <4>1. SUFFICES ASSUME ttl > 0 PROVE FALSE
        OBVIOUS
      <4>2. ttl # 0
        BY <1>5, <4>1
      <4>3. UNCHANGED rows \/ Store(k, [rows[k] EXCEPT !.exp = now + ttl])
        BY <1>1, <2>3, <4>2 DEF RedisExpire
      <4>4. now + ttl \in Int
        BY <1>5
      <4> QED
        BY <1>2, <1>3, <4>3, <4>4
    <3>2. Expiration <= 0
      BY <1>0, <1>5, <3>1, RedisLives
    <3> QED
      BY <1>1, <1>7, <2>3, <3>2 DEF RedisExpire
  <2> QED
    BY <2>0, <2>1, <2>2, <2>3 DEF RedisStep
<1>8. CASE config.type = "mongodb"
  <2>0. MongoStep(p)
    BY <1>8 DEF AdapterStep
  <2>1. CASE MongoSet(p)
    BY <1>1, <2>1 DEF MongoSet
  <2>2. CASE MongoFind(p)
    BY <2>2 DEF MongoFind
  <2>3. CASE MongoDelete(p)
    BY <1>1, <1>8, <2>3 DEF MongoDelete
  <2>4. CASE MongoUpdate(p)
    BY <1>1, <1>2, <1>3, <1>5, <2>4 DEF MongoUpdate
  <2> QED
    BY <2>0, <2>1, <2>2, <2>3, <2>4 DEF MongoStep
<1>9. CASE config.type = "postgres"
  <2>0. PostgresStep(p)
    BY <1>9 DEF AdapterStep
  <2>1. CASE PostgresSet(p)
    <3> DEFINE exp == IF call[p].skip THEN 0 ELSE UnixDeadline(p)
    <3>1. exp \in Int /\ Store(k, [rows[k] EXCEPT !.val = call[p].val, !.exp = exp])
      BY <1>1, <1>5, <2>1 DEF PostgresSet
    <3> HIDE DEF exp
    <3> QED
      BY <1>2, <1>3, <3>1
  <2>2. CASE PostgresSelect(p)
    BY <2>2 DEF PostgresSelect
  <2>3. CASE PostgresDelete(p)
    BY <1>1, <1>9, <2>3 DEF PostgresDelete
  <2>4. CASE PostgresUpdate(p)
    BY <1>1, <1>2, <1>3, <1>5, <2>4 DEF PostgresUpdate
  <2> QED
    BY <2>0, <2>1, <2>2, <2>3, <2>4 DEF PostgresStep
<1>10. CASE config.type = "s3"
  <2>1. UNCHANGED rows \/ Store(k, Row(call[p].val, 0))
    BY <1>1, <1>10 DEF AdapterStep, S3Step, S3Put, S3Get, S3Unanswered
  <2>2. call[p].val \in Contents
    BY <1>0, InProgressTyped
  <2> QED
    BY <1>3, <1>4, <2>1, <2>2
<1> QED
  BY <1>6, <1>7, <1>8, <1>9, <1>10 DEF AdapterStep

-----------------------------------------------------------------------------
(* The two action properties. *)

LEMMA InvStep ==
    TypeInv /\ DeadlineInv /\ [Next]_storageVars => (TypeInv /\ DeadlineInv)'
BY TypeStep, DeadlineStep DEF TypeInv

\* But for the servers, only an adapter removes rows or sees a view through.
LEMMA RowsMove ==
    ASSUME Next, ~\E p \in Procs : AdapterStep(p)
    PROVE  UNCHANGED rows \/ \E k \in Keys : ServerExpires(k) \/ Evict(k)
BY DEF Next, CallSet, CallGet, Fail, Return, Tick, Crash

LEMMA RemovedEarlyBy ==
    ASSUME TypeInv, DeadlineInv, Next, NEW k \in Keys, RemovedEarly(k)
    PROVE  \/ FoundOverdueBefore(k)
           \/ /\ config.type = "redis" /\ Expiration <= 0
              /\ \E p \in Procs : At(p, "get", "fetched") /\ call[p].key = k
<1>0. rows[k] # None /\ rows'[k] = None /\ config.type # "memcached" /\ ~Overdue(k)
  BY DEF RemovedEarly
<1>1. ASSUME NEW p \in Procs, AdapterStep(p)
      PROVE  \/ FoundOverdueBefore(k)
             \/ /\ config.type = "redis" /\ Expiration <= 0
                /\ At(p, "get", "fetched") /\ call[p].key = k
  <2>1. /\ call[p].key = k
        /\ \/ config.type = "redis" /\ Expiration <= 0 /\ At(p, "get", "fetched")
           \/ config.type \in {"mongodb", "postgres"} /\ At(p, "get", "overdue")
    BY <1>0, <1>1, Removal
  <2>2. ASSUME At(p, "get", "overdue") PROVE call[p].row # rows[k]
    <3>1. Outdated(call[p].row)
      BY <2>2 DEF DeadlineInv, CallInTime, At
    <3>2. ~Outdated(rows[k])
      BY <1>0 DEF Overdue, Outdated
    <3> QED
      BY <3>1, <3>2
  <2> QED
    BY <2>1, <2>2 DEF FoundOverdueBefore
<1>2. CASE ~\E p \in Procs : AdapterStep(p)
  <2>1. PICK j \in Keys : ServerExpires(j) \/ Evict(j)
    BY <1>0, <1>2, RowsMove
  <2>2. Store(j, None) /\ Expendable(j)
    BY <1>0, <2>1 DEF ServerExpires, Evict
  <2>3. j = k
    BY <1>0, <2>2 DEF Store, TypeInv, TypeOK, RowsOK
  <2> QED
    BY <1>0, <2>2, <2>3 DEF Overdue
<1> QED
  BY <1>1, <1>2

\* A row that is not overdue is removed by nobody but a Get that raced with a
\* Set or with another Get of its key, or by a view on a Redis without
\* a positive expiration.
THEOREM DeletionsAreRaces == Spec => EarlyDeletionIsARace
<1>1. Init => TypeInv /\ DeadlineInv
  BY TypeInit, DeadlineInit
<1>2. TypeInv /\ DeadlineInv /\ [Next]_storageVars =>
        [\A k \in Keys : RemovedEarly(k) =>
            \/ FoundOverdueBefore(k)
            \/ /\ config.type = "redis" /\ Expiration <= 0
               /\ \E p \in Procs : At(p, "get", "fetched") /\ call[p].key = k]_storageVars
  BY RemovedEarlyBy
<1> QED
  BY <1>1, <1>2, InvStep, PTL DEF Spec, EarlyDeletionIsARace

\* What a Get does to the row when it puts off the expiry.
LEMMA Refresh ==
    ASSUME TypeInv, DeadlineInv, NEW p \in Procs, AdapterStep(p), NEW k \in Keys,
           Viewed(p, k)
    PROVE  \/ rows'[k] = rows[k]
           \/ /\ config.type = "redis" /\ ExpireTicks(Expiration) > 0
              /\ rows'[k].exp = now + ExpireTicks(Expiration)
           \/ config.type = "memcached" /\ rows'[k].exp = ItemExpiry(Int32(Expiration))
           \/ config.type = "mongodb" /\ rows'[k].exp = MongoDate(call[p].at + Expiration)
           \/ config.type = "postgres" /\ rows'[k].exp = UnixDeadline(p)
<1>0. /\ call[p].op = "get" /\ call[p].pc = "fetched" /\ call[p].key = k
      /\ rows[k] # None /\ rows'[k] # None
  BY DEF Viewed, At
<1>1. TypeOK /\ RowsOK /\ rows[k] \in RowType
  BY <1>0 DEF TypeInv, TypeOK, RowsOK
<1>2. \A row : Store(k, row) => rows'[k] = row
  BY <1>1, StoreGenuine
<1>3. \A exp : [rows[k] EXCEPT !.exp = exp].exp = exp
  BY <1>1 DEF RowType
<1>4. CASE config.type = "redis"
  <2> DEFINE ttl == ExpireTicks(Expiration)
  <2>1. RedisExpire(p)
    BY <1>0, <1>4 DEF AdapterStep, RedisStep, RedisSet, RedisGet, At
  <2>2. \/ UNCHANGED rows
        \/ Store(k, None)
        \/ ttl > 0 /\ Store(k, [rows[k] EXCEPT !.exp = now + ttl])
    BY <1>0, <2>1 DEF RedisExpire
  <2> QED
    BY <1>0, <1>2, <1>3, <1>4, <2>2
<1>5. CASE config.type = "memcached"
  <2>1. MemcachedReplace(p)
    BY <1>0, <1>5 DEF AdapterStep, MemcachedStep, MemcachedSet, MemcachedGet, At
  <2>2. UNCHANGED rows \/ Store(k, Row(call[p].val, ItemExpiry(Int32(Expiration))))
    BY <1>0, <2>1 DEF MemcachedReplace
  <2> QED
    BY <1>2, <1>5, <2>2 DEF Row
<1>6. CASE config.type = "mongodb"
  <2>1. MongoUpdate(p)
    BY <1>0, <1>6 DEF AdapterStep, MongoStep, MongoSet, MongoFind, MongoDelete, At
  <2>2. Store(k, [rows[k] EXCEPT !.exp = MongoDate(call[p].at + Expiration)])
    BY <1>0, <2>1 DEF MongoUpdate
  <2> QED
    BY <1>2, <1>3, <1>6, <2>2
<1>7. CASE config.type = "postgres"
  <2>1. PostgresUpdate(p)
    BY <1>0, <1>7 DEF AdapterStep, PostgresStep, PostgresSet, PostgresSelect, PostgresDelete, At
  <2>2. UNCHANGED rows \/ Store(k, [rows[k] EXCEPT !.exp = UnixDeadline(p)])
    BY <1>0, <2>1 DEF PostgresUpdate
  <2> QED
    BY <1>2, <1>3, <1>7, <2>2
<1>8. CASE config.type = "file" \/ config.type = "s3"
  BY <1>0, <1>8 DEF AdapterStep, FileStep, FileCreate, FileWrite, FileWriteShort, FileOpen,
     FileReadMore, FileReadEnd, S3Step, S3Put, S3Get, S3Unanswered, At
<1> QED
  BY <1>4, <1>5, <1>6, <1>7, <1>8 DEF AdapterStep

LEMMA RefreshProlongs ==
    ASSUME TypeInv, DeadlineInv, NEW p \in Procs, AdapterStep(p), NEW k \in Keys,
           Viewed(p, k)
    PROVE  \/ rows'[k].exp >= rows[k].exp
           \/ config.type = "redis" /\ rows'[k].exp > rows[k].exp - TicksPerSecond
           \/ /\ config.type \in {"mongodb", "postgres"}
              /\ call[p].at < now /\ call[p].row # rows[k]
<1> DEFINE old == rows[k].exp
           new == rows'[k].exp
           t == call[p].at
           E == Expiration
<1>0. TypeOK /\ old # 0 /\ call[p].pc = "fetched" /\ InTime(old, now) /\ old \in Int
  BY DEF TypeInv, Viewed, At, DeadlineInv, TypeOK, RowsOK, RowType
<1>1. /\ now \in Nat /\ t \in Nat /\ t <= now /\ E \in Int
      /\ TicksPerSecond \in Nat \ {0} /\ ExpireTicks(E) \in Int
      /\ MongoDate(t + E) \in Int /\ Second(t + E) \in Int
      /\ ItemExpiry(Int32(E)) \in Int
  <2>1. now \in Nat /\ t \in Nat /\ t <= now /\ E \in Int
    BY <1>0, Numbers DEF DeadlineInv, CallInTime
  <2> QED
    BY <1>0, <2>1, Numbers, DeadlinesAreInt
<1> HIDE DEF old, new, t, E
<1>2. CASE rows'[k] = rows[k]
  BY <1>0, <1>2 DEF old, new
<1>3. CASE /\ config.type = "redis" /\ ExpireTicks(E) > 0
           /\ new = now + ExpireTicks(E)
  <2> DEFINE x == ExpireTicks(E)
  <2>1. old < now + x + TicksPerSecond
    BY <1>0, <1>3 DEF InTime, E
  <2>2. x \in Int /\ new = now + x
    BY <1>1, <1>3
  <2> HIDE DEF x
  <2>3. new > old - TicksPerSecond
    BY <1>0, <1>1, <2>1, <2>2
  <2> QED
    BY <1>3, <2>3 DEF old, new
<1>4. CASE config.type = "memcached" /\ new = ItemExpiry(Int32(E))
  <2>1. old <= new /\ new \in Int
    BY <1>0, <1>1, <1>4, ItemExpiryIs DEF InTime, E
  <2> QED
    BY <1>0, <2>1 DEF old, new
\* The deadline that was computed at time t.
<1>5. ASSUME config.type \in {"mongodb", "postgres"}, InTime(old, t) => old <= new, new \in Int
      PROVE  new >= old \/ (t < now /\ call[p].row # rows[k])
  <2>1. CASE t = now
    BY <1>0, <1>5, <2>1
  <2>2. CASE t < now /\ call[p].row = rows[k]
    <3>1. InTime(old, t)
      BY <1>0, <1>5, <2>2 DEF DeadlineInv, CallInTime, old, t
    <3> QED
      BY <1>0, <1>5, <3>1
  <2> QED
    BY <1>1, <2>1, <2>2
<1>6. CASE config.type = "mongodb" /\ new = MongoDate(t + E)
  <2>1. InTime(old, t) => old <= new
    BY <1>0, <1>6 DEF InTime, E
  <2> QED
    BY <1>1, <1>5, <1>6, <2>1 DEF old, new, t
<1>7. CASE config.type = "postgres" /\ new = Second(t + E)
  <2>1. InTime(old, t) => old <= new
    BY <1>0, <1>7 DEF InTime, E
  <2> QED
    BY <1>1, <1>5, <1>7, <2>1 DEF old, new, t
<1> QED
  BY <1>2, <1>3, <1>4, <1>6, <1>7, Refresh DEF UnixDeadline, new, t, E

LEMMA ViewedProlongs ==
    ASSUME TypeInv, DeadlineInv, Next, NEW p \in Procs, NEW k \in Keys, Viewed(p, k)
    PROVE  \/ rows'[k].exp >= rows[k].exp
           \/ config.type = "redis" /\ rows'[k].exp > rows[k].exp - TicksPerSecond
           \/ /\ config.type \in {"mongodb", "postgres"}
              /\ call[p].at < now /\ call[p].row # rows[k]
<1>0. TypeOK /\ call'[p] # call[p] /\ rows[k] # None /\ rows'[k] # None /\ rows[k].exp \in Int
  BY DEF TypeInv, Viewed, TypeOK, RowsOK, RowType
<1>1. ASSUME NEW q \in Procs, AdapterStep(q)
      PROVE  AdapterStep(p)
  BY <1>0, <1>1, AdapterMoves
<1>2. CASE ~\E q \in Procs : AdapterStep(q)
  <2>1. UNCHANGED rows
    BY <1>0, <1>2, RowsMove DEF ServerExpires, Evict
  <2> QED
    BY <1>0, <2>1
<1> QED
  BY <1>1, <1>2, RefreshProlongs

\* A view of a paste does not shorten its life, but by less than a second on
\* Redis, and against another call that has changed the row in the meantime.
THEOREM ViewsDoNotShorten == Spec => ViewsProlong
<1>1. Init => TypeInv /\ DeadlineInv
  BY TypeInit, DeadlineInit
<1>2. TypeInv /\ DeadlineInv /\ [Next]_storageVars =>
        [\A k \in Keys, p \in Procs : Viewed(p, k) =>
            \/ rows'[k].exp >= rows[k].exp
            \/ config.type = "redis" /\ rows'[k].exp > rows[k].exp - TicksPerSecond
            \/ /\ config.type \in {"mongodb", "postgres"}
               /\ call[p].at < now /\ call[p].row # rows[k]]_storageVars
  BY ViewedProlongs
<1> QED
  BY <1>1, <1>2, InvStep, PTL DEF Spec, ViewsProlong

-----------------------------------------------------------------------------
(* The adapters implement the abstract store.  What they owe to their callers *)
(* for that is that they set no key twice on files and on memcached, as the   *)
(* key generators see to: then a key has one content, and nobody reads a file *)
(* that another is writing over.                                              *)

SetOnce == Rewritable \cap {"file", "memcached"} = {}

\* Before it returns a call has no error.
ErrInv == \A p \in Procs : call[p].pc # "returned" => call[p].err = FALSE

OnceInv ==
    config.type \in {"file", "memcached"} =>
        \A k \in Keys : /\ rows[k] # None => given[k] # {}
                        /\ \A v, w \in given[k] : v = w

Setting(c) == c.op = "set" /\ c.pc \in {"called", "opened"}
Reading(c) == c.op = "get" /\ c.pc = "opened"

\* A file is empty until the one Set of its key writes it, and a Get that has
\* opened it holds nothing, or all there is.
FileCall(c, row) ==
    /\ Setting(c) /\ c.pc = "called" => row = None
    /\ Setting(c) /\ c.pc = "opened" => row.val = Empty
    /\ Reading(c) => c.val \in {Empty, row.val}

FileInv ==
    config.type = "file" =>
        /\ \A p \in Procs : FileCall(call[p], rows[call[p].key])
        /\ \A p, q \in Procs :
              Setting(call[p]) /\ Setting(call[q]) /\ call[p].key = call[q].key => p = q

LEMMA ErrStep == TypeOK /\ ErrInv /\ [Next]_storageVars => ErrInv'
<1> SUFFICES ASSUME TypeOK, ErrInv, [Next]_storageVars PROVE ErrInv'
  OBVIOUS
<1>0. call \in [Procs -> CallType]
  BY DEF TypeOK, CallOK
<1>1. ASSUME NEW p \in Procs, call'[p].pc # "returned" => call'[p].err = FALSE,
             \A q \in Procs \ {p} : call'[q] = call[q]
      PROVE  ErrInv'
  BY <1>1 DEF ErrInv
<1>2. ASSUME NEW p \in Procs, NEW k \in Keys, NEW v \in Values, NEW skip \in Skips,
             CallSet(p, k, v, skip)
      PROVE  ErrInv'
  <2>1. call'[p].err = FALSE /\ \A q \in Procs \ {p} : call'[q] = call[q]
    BY <1>0, <1>2 DEF CallSet, IdleCall
  <2> QED
    BY <1>1, <2>1
<1>3. ASSUME NEW p \in Procs, AdapterStep(p) PROVE ErrInv'
  <2>1. call[p].err = FALSE
    BY <1>3, AdapterCalls DEF ErrInv
  <2>2. call'[p].pc # "returned" => call'[p].err = FALSE
    <3>1. call[p] \in CallType
      BY <1>0
    <3>2. CASE \E val, err : Answer(p, val, err)
      BY <1>0, <3>2 DEF Answer, IdleCall
    <3>3. CASE \E pc, row : GoOn(p, pc, row)
      BY <1>0, <2>1, <3>1, <3>3 DEF GoOn, CallType
    <3>4. CASE \/ call' = [call EXCEPT ![p].pc = "opened"]
               \/ \E val : call' = [call EXCEPT ![p].pc = "opened", ![p].val = val]
               \/ \E val : call' = [call EXCEPT ![p].val = val]
               \/ call' = [call EXCEPT ![p].tries = @ + 1]
      BY <1>0, <2>1, <3>1, <3>4 DEF CallType
    <3> QED
      BY <1>3, <2>1, <3>2, <3>3, <3>4, AdapterCalls
  <2> QED
    BY <1>1, <1>3, <2>2, AdapterMoves
<1>4. ASSUME NEW p \in Procs, Fail(p) PROVE ErrInv'
  <2>1. call'[p].pc = "returned" /\ \A q \in Procs \ {p} : call'[q] = call[q]
    BY <1>0, <1>4 DEF Fail, Answer, IdleCall
  <2> QED
    BY <1>1, <2>1
<1>5. ASSUME NEW p \in Procs, Return(p) PROVE ErrInv'
  <2>1. call'[p].err = FALSE /\ \A q \in Procs \ {p} : call'[q] = call[q]
    BY <1>0, <1>5 DEF Return, IdleCall
  <2> QED
    BY <1>1, <2>1
<1>6. CASE (\E k \in Keys : ServerExpires(k) \/ Evict(k)) \/ Tick \/ UNCHANGED storageVars
  BY <1>6 DEF ServerExpires, Evict, Tick, storageVars, ErrInv
<1>7. CASE Crash
  BY <1>7 DEF Crash, ErrInv, IdleCall
<1>8. ASSUME NEW p \in Procs, NEW k \in Keys, NEW skip \in Skips, CallGet(p, k, skip)
      PROVE  ErrInv'
  <2>1. call'[p].err = FALSE /\ \A q \in Procs \ {p} : call'[q] = call[q]
    BY <1>0, <1>8 DEF CallGet, IdleCall
  <2> QED
    BY <1>1, <2>1
<1> QED
  BY <1>2, <1>3, <1>4, <1>5, <1>6, <1>7, <1>8 DEF Next

LEMMA OnceStep ==
    ASSUME SetOnce, TypeInv, GenuineInv, OnceInv, [Next]_storageVars
    PROVE  OnceInv'
<1> SUFFICES ASSUME config.type \in {"file", "memcached"} PROVE OnceInv'
  <2>1. config' = config
    BY AdapterRows DEF Next, CallSet, CallGet, Fail, Return, ServerExpires, Evict, Tick,
       Crash, storageVars
  <2> QED
    BY <2>1 DEF OnceInv
<1>0. /\ TypeOK /\ RowsOK /\ CallOK /\ given \in [Keys -> SUBSET Values]
      /\ \A k \in Keys : /\ rows[k] # None => given[k] # {}
                         /\ \A v, w \in given[k] : v = w
  BY DEF TypeInv, TypeOK, OnceInv
<1>1. ASSUME UNCHANGED given, \A k \in Keys : rows'[k] # None => given[k] # {}
      PROVE  OnceInv'
  BY <1>0, <1>1 DEF OnceInv
<1>2. ASSUME NEW p \in Procs, NEW k \in Keys, NEW v \in Values, NEW skip \in Skips,
             CallSet(p, k, v, skip)
      PROVE  OnceInv'
  <2>1. given[k] = {} /\ given' = [given EXCEPT ![k] = @ \cup {v}] /\ rows' = rows
    BY <1>2 DEF CallSet, SetOnce
  <2>2. given'[k] = {v} /\ \A j \in Keys \ {k} : given'[j] = given[j]
    BY <1>0, <2>1
  <2> QED
    BY <1>0, <2>1, <2>2 DEF OnceInv
<1>3. ASSUME NEW p \in Procs, AdapterStep(p) PROVE OnceInv'
  <2> DEFINE k == call[p].key
  <2>1. UNCHANGED given /\ k \in Keys /\ \A j \in Keys \ {k} : rows'[j] = rows[j]
    BY <1>0, <1>3, AdapterMoves DEF CallOK
  <2>2. Setting(call[p]) => given[k] # {}
    BY DEF GenuineInv, GenuineCall, Setting
  <2>3. UNCHANGED rows \/ Setting(call[p]) \/ rows[k] # None
    BY <1>3 DEF AdapterStep, FileStep, FileCreate, FileWrite, FileWriteShort, FileOpen,
       FileReadMore, FileReadEnd, MemcachedStep, MemcachedSet, MemcachedGet,
       MemcachedReplace, Live, Setting, At
  <2> QED
    BY <1>0, <1>1, <2>1, <2>2, <2>3
<1>4. ASSUME NEW k \in Keys, ServerExpires(k) \/ Evict(k) PROVE OnceInv'
  <2>1. UNCHANGED given /\ Store(k, None)
    BY <1>4 DEF ServerExpires, Evict
  <2>2. rows'[k] = None /\ \A j \in Keys \ {k} : rows'[j] = rows[j]
    BY <1>0, <2>1, StoreGenuine
  <2> QED
    BY <1>0, <1>1, <2>1, <2>2
<1>5. CASE UNCHANGED <<rows, given>>
  BY <1>0, <1>1, <1>5
<1> QED
  BY <1>2, <1>3, <1>4, <1>5 DEF Next, CallGet, Fail, Return, Tick, Crash, storageVars

\* A content is what it was, written over nothing or read after nothing.
LEMMA OverlayNothing ==
    ASSUME NEW v \in Contents
    PROVE  Overlay(v, Empty) = v /\ Overlay(Empty, v) = v
<1> DEFINE n == Len(v)
<1>1. n \in Nat /\ v = [i \in 1..n |-> v[i]] /\ Len(Empty) = 0
  BY DEF Contents, Empty
<1>2. LongerOf(n, 0) = n /\ LongerOf(0, n) = n
  BY <1>1 DEF LongerOf
<1>3. Overlay(v, Empty) = [i \in 1..n |-> IF i <= n THEN v[i] ELSE Empty[i]]
  BY <1>1, <1>2 DEF Overlay
<1>4. Overlay(Empty, v) = [i \in 1..n |-> IF i <= 0 THEN Empty[i] ELSE v[i]]
  BY <1>1, <1>2 DEF Overlay
<1>5. \A i \in 1..n : i <= n /\ ~(i <= 0)
  BY <1>1
<1> QED
  BY <1>1, <1>3, <1>4, <1>5

\* A step that leaves the rows alone, and the calls as they are or on no file.
LEMMA KeepsFiles ==
    ASSUME FileInv, config.type = "file", UNCHANGED rows,
           \A p \in Procs : call'[p] = call[p] \/ (~Setting(call'[p]) /\ ~Reading(call'[p]))
    PROVE  FileInv'
<1>1. \A p \in Procs : FileCall(call'[p], rows'[call'[p].key])
  BY DEF FileInv, FileCall, Setting, Reading
<1>2. \A p, q \in Procs :
         Setting(call'[p]) /\ Setting(call'[q]) /\ call'[p].key = call'[q].key => p = q
  BY DEF FileInv
<1> QED
  BY <1>1, <1>2 DEF FileInv, Setting

\* A step of the Set of p that leaves the file of its key with content v.
LEMMA WritesFile ==
    ASSUME TypeInv, FileInv, config.type = "file", UNCHANGED config, NEW p \in Procs,
           Setting(call[p]), NEW v \in Contents, Store(call[p].key, Row(v, 0)),
           \/ call[p].pc = "called" /\ v = Empty /\ call' = [call EXCEPT ![p].pc = "opened"]
           \/ call[p].pc = "opened" /\ ~Setting(call'[p]) /\ ~Reading(call'[p]),
           \A q \in Procs \ {p} : call'[q] = call[q]
    PROVE  FileInv'
<1> DEFINE k == call[p].key
<1>0. TypeOK /\ RowsOK /\ CallOK /\ k \in Keys /\ call[p] \in CallType
  BY InProgressTyped DEF TypeInv, TypeOK, Setting
<1>1. /\ rows'[k] = Row(v, 0) /\ \A j \in Keys \ {k} : rows'[j] = rows[j]
      /\ Row(v, 0) # None /\ Row(v, 0).val = v
  BY <1>0, StoreGenuine, RowTyped DEF Row
<1>2. \/ call'[p] = [call[p] EXCEPT !.pc = "opened"] /\ v = Empty
      \/ ~Setting(call'[p]) /\ ~Reading(call'[p])
  BY <1>0 DEF CallOK
<1>3. call'[p].key = k \/ ~Setting(call'[p])
  BY <1>0, <1>2 DEF CallType
<1>4. \A q, r \in Procs :
         Setting(call'[q]) /\ Setting(call'[r]) /\ call'[q].key = call'[r].key => q = r
  BY <1>3 DEF FileInv
<1>5. FileCall(call'[p], rows'[call'[p].key])
  <2>1. CASE call'[p] = [call[p] EXCEPT !.pc = "opened"] /\ v = Empty
    <3>1. call'[p].op = "set" /\ call'[p].pc = "opened" /\ call'[p].key = k
      BY <1>0, <2>1 DEF CallType, Setting
    <3> QED
      BY <1>1, <2>1, <3>1 DEF FileCall, Setting, Reading
  <2>2. CASE ~Setting(call'[p]) /\ ~Reading(call'[p])
    BY <2>2 DEF FileCall, Setting, Reading
  <2> QED
    BY <1>2, <2>1, <2>2
<1>6. ASSUME NEW q \in Procs \ {p} PROVE FileCall(call'[q], rows'[call'[q].key])
  <2>0. call'[q] = call[q] /\ FileCall(call[q], rows[call[q].key])
    BY DEF FileInv
  <2>1. CASE ~Setting(call[q]) /\ ~Reading(call[q])
    BY <2>0, <2>1 DEF FileCall, Setting, Reading
  <2>2. CASE call[q].key # k /\ (Setting(call[q]) \/ Reading(call[q]))
    <3>1. call[q].key \in Keys \ {k}
      BY <1>0, <2>2 DEF CallOK, Setting, Reading
    <3>2. rows'[call[q].key] = rows[call[q].key]
      BY <1>1, <3>1
    <3> QED
      BY <2>0, <3>2 DEF FileCall, Setting, Reading
  <2>3. CASE call[q].key = k /\ Setting(call[q])
    BY <2>3 DEF FileInv
  <2>4. CASE call[q].key = k /\ Reading(call[q])
    <3>1. rows[k] # None
      BY <2>4 DEF TypeInv, OpenedExists, Reading
    <3>2. rows[k].val = Empty
      BY <3>1 DEF FileInv, FileCall, Setting
    <3>3. call[q].val = Empty
      BY <2>0, <2>4, <3>2 DEF FileCall
    <3> QED
      BY <2>0, <2>4, <3>3 DEF FileCall, Setting, Reading
  <2> QED
    BY <2>1, <2>2, <2>3, <2>4
<1>7. \A q \in Procs : FileCall(call'[q], rows'[call'[q].key])
  BY <1>5, <1>6
<1> QED
  BY <1>4, <1>7 DEF FileInv, FileCall, Setting, Reading

\* A step of the Get of p that leaves it with all of the file.
LEMMA ReadsFile ==
    ASSUME TypeInv, FileInv, config.type = "file", UNCHANGED <<config, rows>>,
           NEW p \in Procs, call[p].op = "get", call[p].key \in Keys,
           call' = [call EXCEPT ![p].pc = "opened", ![p].val = rows[call[p].key].val]
    PROVE  FileInv'
<1> DEFINE k == call[p].key
<1>0. call \in [Procs -> CallType]
  BY DEF TypeInv, TypeOK, CallOK
<1>1. /\ call'[p].op = "get" /\ call'[p].key = k /\ call'[p].val = rows[k].val
      /\ \A q \in Procs \ {p} : call'[q] = call[q]
  BY <1>0 DEF CallType
<1>2. FileCall(call'[p], rows'[call'[p].key]) /\ ~Setting(call'[p])
  BY <1>1 DEF FileCall, Setting, Reading
<1>3. \A q \in Procs \ {p} : FileCall(call'[q], rows'[call'[q].key])
  BY <1>1 DEF FileInv, FileCall, Setting, Reading
<1>4. \A q, r \in Procs :
         Setting(call'[q]) /\ Setting(call'[r]) /\ call'[q].key = call'[r].key => q = r
  BY <1>1, <1>2 DEF FileInv
<1>5. \A q \in Procs : FileCall(call'[q], rows'[call'[q].key])
  BY <1>2, <1>3
<1> QED
  BY <1>4, <1>5 DEF FileInv, FileCall, Setting, Reading

\* The answer of a call that has opened nothing.
LEMMA AnswerIsOff ==
    ASSUME CallOK, NEW p \in Procs, NEW val, NEW err, Answer(p, val, err)
    PROVE  /\ ~Setting(call'[p]) /\ ~Reading(call'[p])
           /\ \A q \in Procs \ {p} : call'[q] = call[q]
BY DEF CallOK, Answer, IdleCall, Setting, Reading

LEMMA FileAdapterStep ==
    ASSUME TypeInv, GenuineInv, FileInv, config.type = "file", NEW p \in Procs, FileStep(p)
    PROVE  FileInv'
<1> DEFINE k == call[p].key
<1>0. call[p].pc # "idle" /\ UNCHANGED config
  BY DEF FileStep, FileCreate, FileWrite, FileWriteShort, FileOpen, FileReadMore,
         FileReadEnd, At
<1>1. /\ TypeOK /\ CallOK /\ call \in [Procs -> CallType] /\ call[p] \in CallType
      /\ k \in Keys /\ call[p].val \in Contents
      /\ FileCall(call[p], rows[call[p].key])
  BY <1>0, InProgressTyped DEF TypeInv, TypeOK, CallOK, FileInv
<1>2. ASSUME call[p].pc = "opened" PROVE rows[k].val \in Contents
  BY <1>0, <1>1, <1>2, InProgressTyped DEF TypeInv, OpenedExists, RowType
<1>3. CASE FileCreate(p)
  <2>1. /\ Setting(call[p]) /\ call[p].pc = "called" /\ Store(k, Row(Empty, 0))
        /\ call' = [call EXCEPT ![p].pc = "opened"]
        /\ \A q \in Procs \ {p} : call'[q] = call[q]
    BY <1>1, <1>3 DEF FileCreate, At, Setting
  <2> QED
    BY <1>0, <2>1, WritesFile, EmptyContents
<1>4. CASE FileWrite(p) \/ FileWriteShort(p)
  <2>1. Setting(call[p]) /\ call[p].pc = "opened" /\ rows[k].val \in Contents
    BY <1>2, <1>4 DEF FileWrite, FileWriteShort, At, Setting
  <2>2. PICK v \in Contents : Store(k, Row(v, 0))
    <3>1. CASE FileWrite(p)
      BY <1>1, <2>1, <3>1, OverlayContents DEF FileWrite
    <3>2. CASE FileWriteShort(p)
      <4>1. PICK n \in 0..Len(call[p].val) - 1 :
              Store(k, Row(Overlay(SubSeq(call[p].val, 1, n), rows[k].val), 0))
        BY <3>2 DEF FileWriteShort
      <4>2. Overlay(SubSeq(call[p].val, 1, n), rows[k].val) \in Contents
        BY <1>1, <2>1, PrefixContents, OverlayContents
      <4> QED
        BY <4>1, <4>2
    <3> QED
      BY <1>4, <3>1, <3>2
  <2>3. /\ ~Setting(call'[p]) /\ ~Reading(call'[p])
        /\ \A q \in Procs \ {p} : call'[q] = call[q]
    BY <1>1, <1>4, AnswerIsOff DEF FileWrite, FileWriteShort
  <2> QED
    BY <1>0, <2>1, <2>2, <2>3, WritesFile
<1>5. CASE FileOpen(p)
  <2>1. CASE rows[k] = None
    BY <1>1, <1>5, <2>1, AnswerIsOff, KeepsFiles DEF FileOpen
  <2>2. CASE rows[k] # None
    BY <1>0, <1>1, <1>5, <2>2, ReadsFile DEF FileOpen, At
  <2> QED
    BY <2>1, <2>2
<1>6. CASE FileReadMore(p)
  <2> DEFINE file == rows[k].val
  <2>1. /\ At(p, "get", "opened") /\ Len(file) > Len(call[p].val) /\ UNCHANGED rows
        /\ call' = [call EXCEPT ![p].val = Overlay(@, file)]
    BY <1>6 DEF FileReadMore
  <2>2. file \in Contents /\ Len(file) \in Nat
    BY <1>2, <2>1 DEF At, Contents
  <2>3. call[p].val = Empty
    BY <1>1, <2>1, <2>2 DEF FileCall, Reading, At
  <2>4. call' = [call EXCEPT ![p].pc = "opened", ![p].val = file]
    <3>1. Overlay(call[p].val, file) = file
      BY <2>2, <2>3, OverlayNothing
    <3> HIDE DEF file
    <3>2. call' = [call EXCEPT ![p].val = file] /\ call[p].pc = "opened"
      BY <2>1, <3>1 DEF At
    <3> QED
      BY <1>1, <3>2 DEF CallType
  <2> QED
    BY <1>0, <1>1, <2>1, <2>4, ReadsFile DEF At
<1>7. CASE FileReadEnd(p)
  BY <1>1, <1>7, AnswerIsOff, KeepsFiles DEF FileReadEnd
<1> QED
  BY <1>3, <1>4, <1>5, <1>6, <1>7 DEF FileStep

LEMMA FileInvStep ==
    ASSUME SetOnce, TypeInv, GenuineInv, OnceInv, FileInv, [Next]_storageVars
    PROVE  FileInv'
<1> SUFFICES ASSUME config.type = "file" PROVE FileInv'
  <2>1. config' = config
    BY AdapterRows DEF Next, CallSet, CallGet, Fail, Return, ServerExpires, Evict, Tick,
       Crash, storageVars
  <2> QED
    BY <2>1 DEF FileInv
<1>0. TypeOK /\ CallOK /\ call \in [Procs -> CallType]
  BY DEF TypeInv, TypeOK, CallOK
<1>1. ASSUME NEW p \in Procs, NEW k \in Keys, NEW v \in Values, NEW skip \in Skips,
             CallSet(p, k, v, skip)
      PROVE  FileInv'
  <2>1. given[k] = {} /\ UNCHANGED <<config, rows>>
    BY <1>1 DEF CallSet, SetOnce
  <2>2. /\ call'[p].key = k /\ call'[p].op = "set" /\ call'[p].pc = "called"
        /\ \A q \in Procs \ {p} : call'[q] = call[q]
    BY <1>0, <1>1 DEF CallSet, IdleCall
  <2>3. rows[k] = None /\ \A q \in Procs : Setting(call[q]) => call[q].key # k
    BY <2>1 DEF OnceInv, GenuineInv, GenuineCall, Setting
  <2>4. \A q, r \in Procs :
           Setting(call'[q]) /\ Setting(call'[r]) /\ call'[q].key = call'[r].key => q = r
    BY <2>2, <2>3 DEF FileInv
  <2>5. \A q \in Procs : FileCall(call'[q], rows'[call'[q].key])
    BY <2>1, <2>2, <2>3 DEF FileInv, FileCall, Setting, Reading
  <2> QED
    BY <2>4, <2>5 DEF FileInv, FileCall, Setting, Reading
<1>2. ASSUME NEW p \in Procs, NEW k \in Keys, NEW skip \in Skips, CallGet(p, k, skip)
      PROVE  FileInv'
  <2>1. /\ ~Setting(call'[p]) /\ ~Reading(call'[p])
        /\ \A q \in Procs \ {p} : call'[q] = call[q]
    BY <1>0, <1>2 DEF CallGet, IdleCall, Setting, Reading
  <2> QED
    BY <1>2, <2>1, KeepsFiles DEF CallGet
<1>3. ASSUME NEW p \in Procs, AdapterStep(p) PROVE FileInv'
  BY <1>3, FileAdapterStep DEF AdapterStep
<1>4. ASSUME NEW p \in Procs, Fail(p) PROVE FileInv'
  <2>1. /\ ~Setting(call'[p]) /\ ~Reading(call'[p])
        /\ \A q \in Procs \ {p} : call'[q] = call[q]
    BY <1>0, <1>4, AnswerIsOff DEF Fail
  <2> QED
    BY <1>4, <2>1, KeepsFiles DEF Fail
<1>5. ASSUME NEW p \in Procs, Return(p) PROVE FileInv'
  <2>1. /\ ~Setting(call'[p]) /\ ~Reading(call'[p])
        /\ \A q \in Procs \ {p} : call'[q] = call[q]
    BY <1>0, <1>5 DEF Return, IdleCall, Setting, Reading
  <2> QED
    BY <1>5, <2>1, KeepsFiles DEF Return
<1>6. ASSUME NEW k \in Keys, ServerExpires(k) \/ Evict(k) PROVE FileInv'
  BY <1>6 DEF ServerExpires, Expendable, Evict
<1>7. CASE Tick \/ UNCHANGED storageVars
  BY <1>7, KeepsFiles DEF Tick, storageVars
<1>8. CASE Crash
  <2>1. \A p \in Procs : ~Setting(call'[p]) /\ ~Reading(call'[p])
    BY <1>8 DEF Crash, IdleCall, Setting, Reading
  <2> QED
    BY <1>8, <2>1, KeepsFiles DEF Crash
<1> QED
  BY <1>1, <1>2, <1>3, <1>4, <1>5, <1>6, <1>7, <1>8 DEF Next

-----------------------------------------------------------------------------
(* How a step shows in the abstract store. *)

Implements == [Abstract!Next]_(Abstract!vars)

LEMMA SettledCallIs ==
    ASSUME NEW p \in Procs, call[p].pc # "idle"
    PROVE  /\ SettledCalls[p] = [SettledCalls[p] EXCEPT !.key = call[p].key]
           /\ SettledCalls[p].op = call[p].op /\ SettledCalls[p].key = call[p].key
           /\ SettledCalls[p].err = call[p].err
           /\ call[p].pc \in {"called", "opened", "overdue"} =>
                 /\ SettledCalls[p].st = "pending"
                 /\ call[p].op = "set" => SettledCalls[p].val = call[p].val
           /\ call[p].pc \in {"fetched", "returned"} =>
                 SettledCalls[p].st = "done" /\ SettledCalls[p].val = call[p].val
BY DEF SettledCalls, SettledCall

LEMMA StoreDocs ==
    ASSUME RowsOK, NEW k \in Keys, NEW row, Store(k, row)
    PROVE  Docs' = [Docs EXCEPT ![k] = IF row = None THEN Empty ELSE row.val]
<1>1. rows'[k] = row /\ \A j \in Keys \ {k} : rows'[j] = rows[j]
  BY StoreGenuine
<1>2. \A j \in Keys : (IF rows'[j] = None THEN Empty ELSE rows'[j].val) =
                      IF j = k THEN IF row = None THEN Empty ELSE row.val ELSE Docs[j]
  BY <1>1 DEF Docs
<1>3. Docs' = [j \in Keys |-> IF j = k THEN IF row = None THEN Empty ELSE row.val ELSE Docs[j]]
  BY <1>2 DEF Docs
<1> QED
  BY <1>3 DEF Docs

\* A row that has only its deadline changed.
LEMMA SameDocs ==
    ASSUME RowsOK, NEW k \in Keys, NEW row, Store(k, row), row # None, rows[k] # None,
           row.val = rows[k].val
    PROVE  Docs' = Docs
<1>1. Docs' = [Docs EXCEPT ![k] = Docs[k]]
  BY StoreDocs DEF Docs
<1> QED
  BY <1>1 DEF Docs

LEMMA CallsMove ==
    ASSUME CallOK, NEW p \in Procs, NEW c, call' = [call EXCEPT ![p] = c]
    PROVE  SettledCalls' = [SettledCalls EXCEPT ![p] = SettledCall(c)]
<1>1. call'[p] = c /\ \A q \in Procs \ {p} : call'[q] = call[q]
  BY DEF CallOK
<1>2. \A q \in Procs : SettledCall(call'[q]) = IF q = p THEN SettledCall(c) ELSE SettledCalls[q]
  BY <1>1 DEF SettledCalls
<1>3. SettledCalls' = [q \in Procs |-> IF q = p THEN SettledCall(c) ELSE SettledCalls[q]]
  BY <1>2 DEF SettledCalls, SettledCall
<1> QED
  BY <1>3 DEF SettledCalls

\* A call that has not come to an answer yet shows as it did.
LEMMA CallsStay ==
    ASSUME CallOK, NEW p \in Procs, NEW c, call' = [call EXCEPT ![p] = c],
           SettledCall(c) = SettledCall(call[p])
    PROVE  SettledCalls' = SettledCalls
<1>1. SettledCalls' = [SettledCalls EXCEPT ![p] = SettledCalls[p]]
  BY CallsMove DEF SettledCalls
<1> QED
  BY <1>1 DEF SettledCalls

LEMMA DoneIs ==
    ASSUME NEW p \in Procs, NEW val, NEW err,
           SettledCalls' = [SettledCalls EXCEPT
               ![p] = [st |-> "done", op |-> call[p].op, key |-> call[p].key,
                       err |-> err, val |-> val]]
    PROVE  Abstract!Done(p, val, err)
<1> DEFINE s == SettledCalls[p]
           s1 == [s EXCEPT !.st = "done"]
           s2 == [s1 EXCEPT !.val = val]
           s3 == [s2 EXCEPT !.err = err]
           o == call[p].op
           k == call[p].key
<1>1. PICK st, e, v : s = [st |-> st, op |-> o, key |-> k, err |-> e, val |-> v]
  BY DEF SettledCalls, SettledCall
<1>2. Abstract!Done(p, val, err) <=>
        SettledCalls' = [SettledCalls EXCEPT ![p] = [s EXCEPT !.st = "done", !.val = val, !.err = err]]
  BY DEF Abstract!Done, SettledCalls
<1>3. SettledCalls' = [SettledCalls EXCEPT
         ![p] = [st |-> "done", op |-> o, key |-> k, err |-> err, val |-> val]]
  OBVIOUS
<1> HIDE DEF s, o, k
<1>4. [s EXCEPT !.st = "done", !.val = val, !.err = err] = s3
  OBVIOUS
<1>5. s1 = [st |-> "done", op |-> o, key |-> k, err |-> e, val |-> v]
  BY <1>1
<1> HIDE DEF s1
<1>6. s2 = [st |-> "done", op |-> o, key |-> k, err |-> e, val |-> val]
  BY <1>5
<1> HIDE DEF s2
<1>7. s3 = [st |-> "done", op |-> o, key |-> k, err |-> err, val |-> val]
  BY <1>6
<1> HIDE DEF s3
<1> QED
  BY <1>2, <1>3, <1>4, <1>7

LEMMA AnswerDone ==
    ASSUME CallOK, NEW p \in Procs, NEW val, NEW err, Answer(p, val, err)
    PROVE  Abstract!Done(p, val, err)
<1> DEFINE c == [IdleCall EXCEPT !.pc = "returned", !.op = call[p].op,
                                 !.key = call[p].key, !.val = val, !.err = err]
<1>1. call' = [call EXCEPT ![p] = c]
  BY DEF Answer
<1>2. SettledCall(c) = [st |-> "done", op |-> call[p].op, key |-> call[p].key,
                        err |-> err, val |-> val]
  BY DEF SettledCall, IdleCall
<1> QED
  BY <1>1, <1>2, CallsMove, DoneIs

LEMMA FetchedDone ==
    ASSUME CallOK, ErrInv, NEW p \in Procs, call[p].pc # "returned", NEW row \in RowType,
           GoOn(p, "fetched", row)
    PROVE  Abstract!Done(p, row.val, FALSE)
<1> DEFINE c == [call[p] EXCEPT !.pc = "fetched", !.val = row.val, !.row = row, !.at = Stamp]
<1>1. call[p] \in CallType /\ call[p].err = FALSE
  BY DEF CallOK, ErrInv
<1>2. call' = [call EXCEPT ![p] = c]
  BY <1>1 DEF GoOn, CallOK
<1>3. SettledCall(c) = [st |-> "done", op |-> call[p].op, key |-> call[p].key,
                        err |-> FALSE, val |-> row.val]
  <2>1. /\ c.pc = "fetched" /\ c.op = call[p].op /\ c.key = call[p].key
        /\ c.err = FALSE /\ c.val = row.val
    BY <1>1 DEF CallType
  <2> HIDE DEF c
  <2> QED
    BY <2>1 DEF SettledCall
<1> HIDE DEF c
<1> QED
  BY <1>2, <1>3, CallsMove, DoneIs

UnderWay(p, op) == call[p].op = op /\ call[p].pc \in {"called", "opened", "overdue"}

LEMMA NothingIsEmpty == Abstract!Nothing = Empty
BY DEF Abstract!Nothing, Empty

LEMMA UnderWayPends ==
    ASSUME NEW p \in Procs, NEW op, UnderWay(p, op)
    PROVE  /\ Abstract!Pending(p, op) /\ SettledCalls[p].key = call[p].key
           /\ op = "set" => SettledCalls[p].val = call[p].val
BY SettledCallIs DEF UnderWay, Abstract!Pending

LEMMA ShowsNothing ==
    ASSUME Docs' = Docs, SettledCalls' = SettledCalls
    PROVE  Implements
BY DEF Implements, Abstract!vars

LEMMA ShowsVanish ==
    ASSUME NEW k \in Keys, Docs' = [Docs EXCEPT ![k] = Empty], SettledCalls' = SettledCalls
    PROVE  Implements
BY NothingIsEmpty DEF Implements, Abstract!Next, Abstract!Vanish

LEMMA ShowsRefuse ==
    ASSUME CallOK, NEW p \in Procs, NEW op, UnderWay(p, op), Answer(p, Empty, TRUE),
           UNCHANGED rows
    PROVE  Implements
<1>1. Abstract!Done(p, Abstract!Nothing, TRUE) /\ SettledCalls[p].st = "pending"
  BY AnswerDone, NothingIsEmpty, UnderWayPends DEF Abstract!Pending
<1>2. Docs' = Docs
  BY DEF Docs
<1>3. Abstract!Refuse(p)
  BY <1>1, <1>2 DEF Abstract!Refuse
<1> QED
  BY <1>3 DEF Implements, Abstract!Next

LEMMA ShowsApply ==
    ASSUME RowsOK, CallOK, NEW p \in Procs, UnderWay(p, "set"), call[p].key \in Keys,
           NEW row, Store(call[p].key, row), row # None, row.val = call[p].val,
           SettledCalls' = SettledCalls \/ \E err \in BOOLEAN : Answer(p, Empty, err)
    PROVE  Implements
<1>1. Docs' = [Docs EXCEPT ![call[p].key] = call[p].val]
  BY StoreDocs
<1>2. /\ Abstract!Pending(p, "set") /\ SettledCalls[p].key = call[p].key
      /\ SettledCalls[p].val = call[p].val
  BY UnderWayPends
<1>3. Abstract!Write(p, SettledCalls[p].val)
  BY <1>1, <1>2 DEF Abstract!Write
<1>4. SettledCalls' = SettledCalls \/ \E err \in BOOLEAN : Abstract!Done(p, Abstract!Nothing, err)
  BY AnswerDone, NothingIsEmpty
<1>5. Abstract!Apply(p)
  BY <1>2, <1>3, <1>4 DEF Abstract!Apply
<1> QED
  BY <1>5 DEF Implements, Abstract!Next

LEMMA ShowsTear ==
    ASSUME RowsOK, CallOK, NEW p \in Procs, UnderWay(p, "set"), call[p].key \in Keys,
           NEW n \in 0..Len(call[p].val), NEW row, Store(call[p].key, row), row # None,
           row.val = SubSeq(call[p].val, 1, n), Answer(p, Empty, TRUE)
    PROVE  Implements
<1>1. Docs' = [Docs EXCEPT ![call[p].key] = SubSeq(call[p].val, 1, n)]
  BY StoreDocs
<1>2. /\ Abstract!Pending(p, "set") /\ SettledCalls[p].key = call[p].key
      /\ SettledCalls[p].val = call[p].val
  BY UnderWayPends
<1>3. Abstract!Write(p, SubSeq(SettledCalls[p].val, 1, n)) /\ n \in 0..Len(SettledCalls[p].val)
  BY <1>1, <1>2 DEF Abstract!Write
<1>4. Abstract!Done(p, Abstract!Nothing, TRUE)
  BY AnswerDone, NothingIsEmpty
<1>5. Abstract!Tear(p)
  BY <1>2, <1>3, <1>4 DEF Abstract!Tear
<1> QED
  BY <1>5 DEF Implements, Abstract!Next

LEMMA ShowsRead ==
    ASSUME CallOK, NEW p \in Procs, UnderWay(p, "get"), call[p].key \in Keys,
           UNCHANGED rows, rows[call[p].key] # None,
           Abstract!Done(p, rows[call[p].key].val, FALSE)
    PROVE  Implements
<1>1. Abstract!Pending(p, "get") /\ SettledCalls[p].key = call[p].key
  BY UnderWayPends
<1>2. Docs[SettledCalls[p].key] = rows[call[p].key].val /\ Docs' = Docs
  BY <1>1 DEF Docs
<1>3. Abstract!Read(p)
  BY <1>1, <1>2 DEF Abstract!Read
<1> QED
  BY <1>3 DEF Implements, Abstract!Next

LEMMA ShowsMiss ==
    ASSUME RowsOK, CallOK, NEW p \in Procs, UnderWay(p, "get"), call[p].key \in Keys,
           UNCHANGED rows \/ Store(call[p].key, None),
           NEW err \in BOOLEAN, Answer(p, Empty, err)
    PROVE  Implements
<1>1. Abstract!Pending(p, "get") /\ SettledCalls[p].key = call[p].key
  BY UnderWayPends
<1>2. Docs' = Docs \/ Abstract!Write(p, Abstract!Nothing)
  <2>1. CASE UNCHANGED rows
    BY <2>1 DEF Docs
  <2>2. CASE Store(call[p].key, None)
    BY <1>1, <2>2, StoreDocs, NothingIsEmpty DEF Abstract!Write
  <2> QED
    BY <2>1, <2>2
<1>3. Abstract!Done(p, Abstract!Nothing, err)
  BY AnswerDone, NothingIsEmpty
<1>4. Abstract!Miss(p)
  BY <1>1, <1>2, <1>3 DEF Abstract!Miss
<1> QED
  BY <1>4 DEF Implements, Abstract!Next

\* A Get that returns what it has found earlier.
LEMMA AnswerStays ==
    ASSUME CallOK, ErrInv, NEW p \in Procs, call[p].pc = "fetched",
           Answer(p, call[p].val, FALSE)
    PROVE  SettledCalls' = SettledCalls
<1> DEFINE c == [IdleCall EXCEPT !.pc = "returned", !.op = call[p].op,
                                 !.key = call[p].key, !.val = call[p].val, !.err = FALSE]
<1>1. call' = [call EXCEPT ![p] = c]
  BY DEF Answer
<1>2. SettledCall(c) = SettledCall(call[p])
  <2>1. /\ c.pc = "returned" /\ c.op = call[p].op /\ c.key = call[p].key
        /\ c.err = FALSE /\ c.val = call[p].val /\ call[p].err = FALSE
    BY DEF IdleCall, ErrInv
  <2> HIDE DEF c
  <2> QED
    BY <2>1 DEF SettledCall
<1> HIDE DEF c
<1> QED
  BY <1>1, <1>2, CallsStay

\* A call that is still under way.
LEMMA UnderWayStays ==
    ASSUME CallOK, NEW p \in Procs, NEW op, UnderWay(p, op), NEW c,
           call' = [call EXCEPT ![p] = c],
           c.op = op, c.key = call[p].key, c.err = call[p].err,
           c.pc \in {"called", "opened", "overdue"},
           op = "set" => c.val = call[p].val
    PROVE  SettledCalls' = SettledCalls
<1>1. SettledCall(c) = SettledCall(call[p])
  BY DEF SettledCall, UnderWay
<1> QED
  BY <1>1, CallsStay

LEMMA OverdueStays ==
    ASSUME CallOK, NEW p \in Procs, UnderWay(p, "get"), NEW row, GoOn(p, "overdue", row)
    PROVE  SettledCalls' = SettledCalls
<1> DEFINE c == [call[p] EXCEPT !.pc = "overdue", !.val = row.val, !.row = row, !.at = Stamp]
<1>1. call[p] \in CallType
  BY DEF CallOK
<1>2. call' = [call EXCEPT ![p] = c]
  BY <1>1 DEF GoOn, CallOK
<1>3. c.op = "get" /\ c.key = call[p].key /\ c.err = call[p].err /\ c.pc = "overdue"
  BY <1>1 DEF CallType, UnderWay
<1> HIDE DEF c
<1> QED
  BY <1>2, <1>3, UnderWayStays

LEMMA TriesStay ==
    ASSUME CallOK, NEW p \in Procs, NEW op, UnderWay(p, op),
           call' = [call EXCEPT ![p].tries = @ + 1]
    PROVE  SettledCalls' = SettledCalls
<1> DEFINE c == [call[p] EXCEPT !.tries = @ + 1]
<1>1. call[p] \in CallType
  BY DEF CallOK
<1>2. call' = [call EXCEPT ![p] = c]
  BY <1>1 DEF CallOK
<1>3. /\ c.op = op /\ c.key = call[p].key /\ c.err = call[p].err
      /\ c.pc \in {"called", "opened", "overdue"} /\ c.val = call[p].val
  BY <1>1 DEF CallType, UnderWay
<1> HIDE DEF c
<1> QED
  BY <1>2, <1>3, UnderWayStays

LEMMA SendAgainStays ==
    ASSUME CallOK, NEW p \in Procs, SendAgain(p)
    PROVE  SettledCalls' = SettledCalls
<1> DEFINE c == [call[p] EXCEPT !.tries = @ + 1]
<1>1. call[p] \in CallType /\ call' = [call EXCEPT ![p] = c]
  BY DEF SendAgain, CallOK
<1>2. /\ c.pc = call[p].pc /\ c.op = call[p].op /\ c.key = call[p].key
      /\ c.err = call[p].err /\ c.val = call[p].val
  BY <1>1 DEF CallType
<1> HIDE DEF c
<1>3. SettledCall(c) = SettledCall(call[p])
  BY <1>2 DEF SettledCall
<1> QED
  BY <1>1, <1>3, CallsStay

LEMMA OpenStays ==
    ASSUME CallOK, NEW p \in Procs, NEW op, UnderWay(p, op), NEW val,
           op = "get" \/ val = call[p].val,
           call' = [call EXCEPT ![p] = [@ EXCEPT !.pc = "opened", !.val = val]]
    PROVE  SettledCalls' = SettledCalls
<1> DEFINE c == [call[p] EXCEPT !.pc = "opened", !.val = val]
<1>1. call[p] \in CallType
  BY DEF CallOK
<1>2. call' = [call EXCEPT ![p] = c]
  BY <1>1 DEF CallOK
<1>3. /\ c.op = op /\ c.key = call[p].key /\ c.err = call[p].err
      /\ c.pc \in {"called", "opened", "overdue"} /\ c.val = val
  BY <1>1 DEF CallType, UnderWay
<1> HIDE DEF c
<1> QED
  BY <1>2, <1>3, UnderWayStays

LEMMA FileImplements ==
    ASSUME TypeInv, FileInv, NEW p \in Procs, config.type = "file", FileStep(p)
    PROVE  Implements
<1> DEFINE k == call[p].key
<1>0. call[p].pc # "idle"
  BY DEF FileStep, FileCreate, FileWrite, FileWriteShort, FileOpen, FileReadMore,
         FileReadEnd, At
<1>1. /\ CallOK /\ RowsOK /\ call[p] \in CallType /\ call \in [Procs -> CallType]
      /\ k \in Keys /\ call[p].val \in Contents /\ FileCall(call[p], rows[k])
  BY <1>0, InProgressTyped DEF TypeInv, TypeOK, CallOK, FileInv
<1>2. ASSUME call[p].pc = "opened"
      PROVE  rows[k] # None /\ rows[k].val \in Contents /\ Len(rows[k].val) \in Nat
  BY <1>0, <1>1, <1>2, InProgressTyped DEF TypeInv, TypeOK, OpenedExists, RowType, Contents
<1>3. UNCHANGED rows => Docs' = Docs
  BY DEF Docs
<1>4. CASE FileCreate(p)
  <2>1. UnderWay(p, "set") /\ Store(k, Row(Empty, 0))
    BY <1>4 DEF FileCreate, At, UnderWay
  <2>2. call' = [call EXCEPT ![p] = [@ EXCEPT !.pc = "opened", !.val = call[p].val]]
    BY <1>1, <1>4 DEF FileCreate, CallType
  <2>3. SettledCalls' = SettledCalls
    BY <1>1, <2>1, <2>2, OpenStays
  <2>4. Docs' = [Docs EXCEPT ![k] = Empty]
    BY <1>1, <2>1, StoreDocs, RowTyped, EmptyContents DEF Row
  <2> QED
    BY <1>1, <2>3, <2>4, ShowsVanish
<1>5. CASE FileWrite(p)
  <2>1. /\ UnderWay(p, "set") /\ Answer(p, Empty, FALSE) /\ rows[k].val = Empty
        /\ Store(k, Row(Overlay(call[p].val, rows[k].val), 0))
    BY <1>1, <1>5 DEF FileWrite, At, UnderWay, FileCall, Setting
  <2>2. Store(k, Row(call[p].val, 0))
    BY <1>1, <2>1, OverlayNothing
  <2>3. Row(call[p].val, 0) # None /\ Row(call[p].val, 0).val = call[p].val
    BY <1>1, RowTyped DEF Row
  <2> QED
    BY <1>1, <2>1, <2>2, <2>3, ShowsApply
<1>6. CASE FileWriteShort(p)
  <2>1. UnderWay(p, "set") /\ Answer(p, Empty, TRUE) /\ rows[k].val = Empty
    BY <1>1, <1>6 DEF FileWriteShort, At, UnderWay, FileCall, Setting
  <2>2. PICK n \in 0..Len(call[p].val) - 1 :
          Store(k, Row(Overlay(SubSeq(call[p].val, 1, n), rows[k].val), 0))
    BY <1>6 DEF FileWriteShort
  <2> DEFINE v == SubSeq(call[p].val, 1, n)
  <2>3. v \in Contents /\ n \in 0..Len(call[p].val)
    BY <1>1, PrefixContents DEF Contents
  <2>4. Store(k, Row(v, 0))
    BY <2>1, <2>2, <2>3, OverlayNothing
  <2>5. v = SubSeq(call[p].val, 1, n)
    OBVIOUS
  <2> HIDE DEF v
  <2>6. Row(v, 0) # None /\ Row(v, 0).val = v
    BY <2>3, RowTyped DEF Row
  <2> QED
    BY <1>1, <2>1, <2>3, <2>4, <2>5, <2>6, ShowsTear
<1>7. CASE FileOpen(p)
  <2>0. UnderWay(p, "get") /\ UNCHANGED rows
    BY <1>7 DEF FileOpen, At, UnderWay
  <2>1. CASE rows[k] = None
    BY <1>1, <1>7, <2>0, <2>1, ShowsRefuse DEF FileOpen
  <2>2. CASE rows[k] # None
    <3>1. call' = [call EXCEPT ![p] = [@ EXCEPT !.pc = "opened", !.val = rows[k].val]]
      BY <1>1, <1>7, <2>2 DEF FileOpen, CallType
    <3>2. SettledCalls' = SettledCalls
      <4> DEFINE val == rows[k].val
      <4>1. call' = [call EXCEPT ![p] = [@ EXCEPT !.pc = "opened", !.val = val]]
        BY <3>1
      <4> HIDE DEF val
      <4> QED
        BY <1>1, <2>0, <4>1, OpenStays
    <3> QED
      BY <1>3, <2>0, <3>2, ShowsNothing
  <2> QED
    BY <2>1, <2>2
<1>8. CASE FileReadMore(p)
  <2> DEFINE val == Overlay(call[p].val, rows[k].val)
  <2>0. UnderWay(p, "get") /\ UNCHANGED rows /\ call[p].pc = "opened"
    BY <1>8 DEF FileReadMore, At, UnderWay
  <2>1. call' = [call EXCEPT ![p].val = val]
    BY <1>8 DEF FileReadMore
  <2> HIDE DEF val
  <2>2. call' = [call EXCEPT ![p] = [@ EXCEPT !.pc = "opened", !.val = val]]
    BY <1>1, <2>0, <2>1 DEF CallType
  <2>3. SettledCalls' = SettledCalls
    BY <1>1, <2>0, <2>2, OpenStays
  <2> QED
    BY <1>3, <2>0, <2>3, ShowsNothing
<1>9. CASE FileReadEnd(p)
  <2>1. /\ UnderWay(p, "get") /\ UNCHANGED rows /\ Reading(call[p]) /\ call[p].pc = "opened"
        /\ Answer(p, call[p].val, FALSE) /\ Len(rows[k].val) <= Len(call[p].val)
    BY <1>9 DEF FileReadEnd, At, UnderWay, Reading
  <2>2. call[p].val = rows[k].val
    <3>1. CASE call[p].val = Empty
      <4>1. Len(rows[k].val) = 0
        BY <1>2, <2>1, <3>1 DEF Empty
      <4>2. rows[k].val = Empty
        BY <1>2, <2>1, <4>1 DEF Contents, Empty
      <4> QED
        BY <3>1, <4>2
    <3> QED
      BY <1>1, <2>1, <3>1 DEF FileCall
  <2>3. Abstract!Done(p, rows[k].val, FALSE)
    BY <1>1, <2>1, <2>2, AnswerDone
  <2> QED
    BY <1>1, <1>2, <2>1, <2>3, ShowsRead
<1> QED
  BY <1>4, <1>5, <1>6, <1>7, <1>8, <1>9 DEF FileStep

\* What the Gets of the other adapters do in their first exchange.
LEMMA GetImplements ==
    ASSUME TypeOK, ErrInv, NEW p \in Procs, At(p, "get", "called"), UNCHANGED rows,
           \/ Answer(p, Empty, TRUE)
           \/ /\ rows[call[p].key] # None
              /\ \/ Answer(p, rows[call[p].key].val, FALSE)
                 \/ GoOn(p, "fetched", rows[call[p].key])
                 \/ GoOn(p, "overdue", rows[call[p].key])
    PROVE  Implements
<1> DEFINE k == call[p].key
<1>1. UnderWay(p, "get") /\ call[p].pc = "called"
  BY DEF UnderWay, At
<1>2. CallOK /\ k \in Keys /\ rows[k] \in RowType \cup {None}
  BY <1>1, InProgressTyped DEF TypeOK
<1>3. CASE Answer(p, Empty, TRUE)
  BY <1>1, <1>2, <1>3, ShowsRefuse
<1>4. CASE rows[k] # None /\ Answer(p, rows[k].val, FALSE)
  <2>1. Abstract!Done(p, rows[k].val, FALSE)
    BY <1>2, <1>4, AnswerDone
  <2> QED
    BY <1>1, <1>2, <1>4, <2>1, ShowsRead
<1>5. CASE rows[k] # None /\ GoOn(p, "fetched", rows[k])
  <2>1. Abstract!Done(p, rows[k].val, FALSE)
    BY <1>1, <1>2, <1>5, FetchedDone
  <2> QED
    BY <1>1, <1>2, <1>5, <2>1, ShowsRead
<1>6. CASE rows[k] # None /\ GoOn(p, "overdue", rows[k])
  <2>1. SettledCalls' = SettledCalls /\ Docs' = Docs
    BY <1>1, <1>2, <1>6, OverdueStays DEF Docs
  <2> QED
    BY <2>1, ShowsNothing
<1> QED
  BY <1>3, <1>4, <1>5, <1>6

\* What they do to the row when they put off its expiry.
LEMMA RefreshImplements ==
    ASSUME TypeOK, ErrInv, NEW p \in Procs, call[p].pc = "fetched",
           Answer(p, call[p].val, FALSE) \/ SendAgain(p),
           \/ UNCHANGED rows
           \/ Store(call[p].key, None)
           \/ /\ rows[call[p].key] # None
              /\ \E row : /\ Store(call[p].key, row)
                          /\ row # None /\ row.val = rows[call[p].key].val
    PROVE  Implements
<1>1. CallOK /\ RowsOK /\ call[p].key \in Keys
  BY InProgressTyped DEF TypeOK
<1>2. SettledCalls' = SettledCalls
  BY <1>1, AnswerStays, SendAgainStays
<1>3. CASE UNCHANGED rows
  BY <1>2, <1>3, ShowsNothing DEF Docs
<1>4. CASE Store(call[p].key, None)
  <2>1. Docs' = [Docs EXCEPT ![call[p].key] = Empty]
    BY <1>1, <1>4, StoreDocs
  <2> QED
    BY <1>1, <1>2, <2>1, ShowsVanish
<1>5. CASE /\ rows[call[p].key] # None
           /\ \E row : /\ Store(call[p].key, row)
                       /\ row # None /\ row.val = rows[call[p].key].val
  BY <1>1, <1>2, <1>5, SameDocs, ShowsNothing
<1> QED
  BY <1>3, <1>4, <1>5

LEMMA RedisImplements ==
    ASSUME TypeInv, ErrInv, NEW p \in Procs, RedisStep(p)
    PROVE  Implements
<1> DEFINE k == call[p].key
<1>0. call[p].pc # "idle"
  BY DEF RedisStep, RedisSet, RedisGet, RedisExpire, At
<1>1. /\ TypeOK /\ CallOK /\ RowsOK /\ k \in Keys /\ call[p].val \in Contents
      /\ rows[k] \in RowType \cup {None} /\ now \in Nat
      /\ SetExpiry(k, IF call[p].skip THEN 0 ELSE Expiration) \in Int
      /\ ExpireTicks(Expiration) \in Int
  BY <1>0, InProgressTyped, DeadlinesAreInt, SetExpiryIsInt DEF TypeInv, TypeOK, CallType
<1>2. CASE RedisSet(p)
  <2> DEFINE exp == SetExpiry(k, IF call[p].skip THEN 0 ELSE Expiration)
             row == Row(call[p].val, exp)
  <2>1. UnderWay(p, "set") /\ Store(k, row) /\ exp \in Int
    BY <1>1, <1>2 DEF RedisSet, UnderWay, At
  <2>2. SendAgain(p) \/ \E err \in BOOLEAN : Answer(p, Empty, err)
    BY <1>2 DEF RedisSet
  <2>3. SettledCalls' = SettledCalls \/ \E err \in BOOLEAN : Answer(p, Empty, err)
    BY <1>1, <2>2, SendAgainStays
  <2> HIDE DEF exp
  <2>4. row # None /\ row.val = call[p].val
    BY <1>1, <2>1, RowTyped DEF Row
  <2> HIDE DEF row
  <2> QED
    BY <1>1, <2>1, <2>3, <2>4, ShowsApply
<1>3. CASE RedisGet(p)
  <2>1. /\ At(p, "get", "called") /\ UNCHANGED rows
        /\ \/ Answer(p, Empty, TRUE)
           \/ rows[k] # None /\ (Answer(p, rows[k].val, FALSE) \/ GoOn(p, "fetched", rows[k]))
    BY <1>3 DEF RedisGet, Live
  <2> QED
    BY <1>1, <2>1, GetImplements
<1>4. CASE RedisExpire(p)
  <2> DEFINE exp == now + ExpireTicks(Expiration)
  <2>1. /\ call[p].pc = "fetched" /\ (Answer(p, call[p].val, FALSE) \/ SendAgain(p))
        /\ \/ UNCHANGED rows
           \/ Store(k, None)
           \/ rows[k] # None /\ Store(k, [rows[k] EXCEPT !.exp = exp])
    BY <1>4 DEF RedisExpire, Live, At
  <2>2. exp \in Int
    BY <1>1
  <2> HIDE DEF exp
  <2>3. rows[k] # None => /\ [rows[k] EXCEPT !.exp = exp] # None
                          /\ [rows[k] EXCEPT !.exp = exp].val = rows[k].val
    BY <1>1, <2>2, RowStays DEF RowType
  <2> QED
    BY <1>1, <2>1, <2>3, RefreshImplements
<1> QED
  BY <1>2, <1>3, <1>4 DEF RedisStep

\* memcached stores a content again that is the content there is.
LEMMA MemcachedImplements ==
    ASSUME TypeInv, GenuineInv, ErrInv, OnceInv, NEW p \in Procs,
           config.type = "memcached", MemcachedStep(p)
    PROVE  Implements
<1> DEFINE k == call[p].key
           x == ItemExpiry(Int32(Expiration))
<1>0. call[p].pc # "idle"
  BY DEF MemcachedStep, MemcachedSet, MemcachedGet, MemcachedReplace, At
<1>1. /\ TypeOK /\ CallOK /\ RowsOK /\ k \in Keys /\ call[p].val \in Contents
      /\ rows[k] \in RowType \cup {None} /\ x \in Int /\ ItemExpiry(0) \in Int
  BY <1>0, InProgressTyped, DeadlinesAreInt DEF TypeInv, TypeOK
<1>2. CASE MemcachedSet(p)
  <2> DEFINE exp == ItemExpiry(IF call[p].skip THEN 0 ELSE Int32(Expiration))
             row == Row(call[p].val, exp)
  <2>1. UnderWay(p, "set") /\ Store(k, row) /\ exp \in Int
    BY <1>1, <1>2 DEF MemcachedSet, UnderWay, At
  <2>2. \E err \in BOOLEAN : Answer(p, Empty, err)
    BY <1>2 DEF MemcachedSet
  <2> HIDE DEF exp
  <2>3. row # None /\ row.val = call[p].val
    BY <1>1, <2>1, RowTyped DEF Row
  <2> HIDE DEF row
  <2> QED
    BY <1>1, <2>1, <2>2, <2>3, ShowsApply
<1>3. CASE MemcachedGet(p)
  <2>1. /\ At(p, "get", "called") /\ UNCHANGED rows
        /\ \/ Answer(p, Empty, TRUE)
           \/ rows[k] # None /\ (Answer(p, rows[k].val, FALSE) \/ GoOn(p, "fetched", rows[k]))
    BY <1>3 DEF MemcachedGet, Live
  <2> QED
    BY <1>1, <2>1, GetImplements
<1>4. CASE MemcachedReplace(p)
  <2>1. /\ call[p].pc = "fetched" /\ call[p].op = "get" /\ Answer(p, call[p].val, FALSE)
        /\ UNCHANGED rows \/ (rows[k] # None /\ Store(k, Row(call[p].val, x)))
    BY <1>4 DEF MemcachedReplace, Live, At
  <2>2. rows[k] # None => rows[k].val = call[p].val
    <3>1. call[p].val \in given[k]
      BY <2>1 DEF GenuineInv, GenuineCall, Genuine
    <3>2. rows[k] # None => rows[k].val \in given[k]
      BY <1>1 DEF GenuineInv, Genuine
    <3> QED
      BY <1>1, <3>1, <3>2 DEF OnceInv
  <2>3. Row(call[p].val, x) # None /\ Row(call[p].val, x).val = call[p].val
    BY <1>1, RowTyped DEF Row
  <2> QED
    BY <1>1, <2>1, <2>2, <2>3, RefreshImplements
<1> QED
  BY <1>2, <1>3, <1>4 DEF MemcachedStep

LEMMA MongoImplements ==
    ASSUME TypeInv, ErrInv, NEW p \in Procs, MongoStep(p)
    PROVE  Implements
<1> DEFINE k == call[p].key
           x == MongoDate(call[p].at + Expiration)
<1>0. call[p].pc # "idle"
  BY DEF MongoStep, MongoSet, MongoFind, MongoDelete, MongoUpdate, At
<1>1. /\ TypeOK /\ CallOK /\ RowsOK /\ k \in Keys /\ call[p].val \in Contents
      /\ rows[k] \in RowType \cup {None} /\ x \in Int
  BY <1>0, InProgressTyped, DeadlinesAreInt DEF TypeInv, TypeOK
<1>2. CASE MongoSet(p)
  <2> DEFINE exp == IF call[p].skip THEN 0 ELSE x
             row == Row(call[p].val, exp)
  <2>1. UnderWay(p, "set") /\ exp \in Int
    BY <1>1, <1>2 DEF MongoSet, UnderWay, At
  <2>2. \/ UNCHANGED rows /\ Answer(p, Empty, TRUE)
        \/ Store(k, row) /\ \E err \in BOOLEAN : Answer(p, Empty, err)
    BY <1>2 DEF MongoSet
  <2> HIDE DEF exp
  <2>3. row # None /\ row.val = call[p].val
    BY <1>1, <2>1, RowTyped DEF Row
  <2> HIDE DEF row
  <2> QED
    BY <1>1, <2>1, <2>2, <2>3, ShowsApply, ShowsRefuse
<1>3. CASE MongoFind(p)
  <2>1. /\ At(p, "get", "called") /\ UNCHANGED rows
        /\ \/ Answer(p, Empty, TRUE)
           \/ rows[k] # None /\ \/ Answer(p, rows[k].val, FALSE)
                                \/ GoOn(p, "fetched", rows[k])
                                \/ GoOn(p, "overdue", rows[k])
    BY <1>3 DEF MongoFind
  <2> QED
    BY <1>1, <2>1, GetImplements
<1>4. CASE MongoDelete(p)
  <2>1. UnderWay(p, "get") /\ Store(k, None) /\ Answer(p, Empty, TRUE)
    BY <1>4 DEF MongoDelete, UnderWay, At
  <2> QED
    BY <1>1, <2>1, ShowsMiss
<1>5. CASE MongoUpdate(p)
  <2>1. /\ call[p].pc = "fetched" /\ Answer(p, call[p].val, FALSE)
        /\ UNCHANGED rows \/ (rows[k] # None /\ Store(k, [rows[k] EXCEPT !.exp = x]))
    BY <1>5 DEF MongoUpdate, At
  <2>2. rows[k] # None => /\ [rows[k] EXCEPT !.exp = x] # None
                          /\ [rows[k] EXCEPT !.exp = x].val = rows[k].val
    BY <1>1, RowStays DEF RowType
  <2> QED
    BY <1>1, <2>1, <2>2, RefreshImplements
<1> QED
  BY <1>2, <1>3, <1>4, <1>5 DEF MongoStep

LEMMA PostgresImplements ==
    ASSUME TypeInv, ErrInv, NEW p \in Procs, PostgresStep(p)
    PROVE  Implements
<1> DEFINE k == call[p].key
           x == UnixDeadline(p)
<1>0. call[p].pc # "idle"
  BY DEF PostgresStep, PostgresSet, PostgresSelect, PostgresDelete, PostgresUpdate, At
<1>1. /\ TypeOK /\ CallOK /\ RowsOK /\ k \in Keys /\ call[p].val \in Contents
      /\ rows[k] \in RowType \cup {None} /\ lastId \in Nat
  BY <1>0, InProgressTyped DEF TypeInv, TypeOK
<1>2. x \in Int
  BY <1>0, <1>1, InProgressTyped, DeadlinesAreInt DEF UnixDeadline
<1> HIDE DEF x
<1>3. CASE PostgresSet(p)
  <2> DEFINE exp == IF call[p].skip THEN 0 ELSE x
  <2>1. UnderWay(p, "set") /\ exp \in Int /\ \E err \in BOOLEAN : Answer(p, Empty, err)
    BY <1>2, <1>3 DEF PostgresSet, UnderWay, At
  <2>2. PICK row : /\ Store(k, row)
                   /\ \/ row = [val |-> call[p].val, exp |-> exp, id |-> lastId + 1]
                      \/ /\ rows[k] # None
                         /\ row = [rows[k] EXCEPT !.val = call[p].val, !.exp = exp]
    BY <1>3 DEF PostgresSet, x
  <2> HIDE DEF exp
  <2>3. row # None /\ row.val = call[p].val
    <3>1. CASE row = [val |-> call[p].val, exp |-> exp, id |-> lastId + 1]
      <4>1. row \in RowType
        BY <1>1, <2>1, <3>1 DEF RowType
      <4> QED
        BY <3>1, <4>1, RowStays
    <3>2. CASE /\ rows[k] # None
               /\ row = [rows[k] EXCEPT !.val = call[p].val, !.exp = exp]
      <4>1. rows[k] \in RowType
        BY <1>1, <3>2
      <4>2. row # None
        BY <1>1, <2>1, <3>2, <4>1, RowStays
      <4>3. row.val = call[p].val
        BY <3>2, <4>1 DEF RowType
      <4> QED
        BY <4>2, <4>3
    <3> QED
      BY <2>2, <3>1, <3>2
  <2> QED
    BY <1>1, <2>1, <2>2, <2>3, ShowsApply
<1>4. CASE PostgresSelect(p)
  <2>1. /\ At(p, "get", "called") /\ UNCHANGED rows
        /\ \/ Answer(p, Empty, TRUE)
           \/ rows[k] # None /\ \/ Answer(p, rows[k].val, FALSE)
                                \/ GoOn(p, "fetched", rows[k])
                                \/ GoOn(p, "overdue", rows[k])
    BY <1>4 DEF PostgresSelect
  <2> QED
    BY <1>1, <2>1, GetImplements
<1>5. CASE PostgresDelete(p)
  <2>1. /\ UnderWay(p, "get") /\ Answer(p, Empty, FALSE)
        /\ UNCHANGED rows \/ Store(k, None)
    BY <1>5 DEF PostgresDelete, UnderWay, At
  <2> QED
    BY <1>1, <2>1, ShowsMiss
<1>6. CASE PostgresUpdate(p)
  <2>1. /\ call[p].pc = "fetched" /\ Answer(p, call[p].val, FALSE)
        /\ UNCHANGED rows \/ (rows[k] # None /\ Store(k, [rows[k] EXCEPT !.exp = x]))
    BY <1>6 DEF PostgresUpdate, SameId, At, x
  <2>2. rows[k] # None => /\ [rows[k] EXCEPT !.exp = x] # None
                          /\ [rows[k] EXCEPT !.exp = x].val = rows[k].val
    BY <1>1, <1>2, RowStays DEF RowType
  <2> QED
    BY <1>1, <2>1, <2>2, RefreshImplements
<1> QED
  BY <1>3, <1>4, <1>5, <1>6 DEF PostgresStep

LEMMA S3Implements ==
    ASSUME TypeInv, ErrInv, NEW p \in Procs, S3Step(p)
    PROVE  Implements
<1> DEFINE k == call[p].key
<1>0. call[p].pc # "idle"
  BY DEF S3Step, S3Put, S3Get, S3Unanswered, At
<1>1. /\ TypeOK /\ CallOK /\ RowsOK /\ k \in Keys /\ call[p].val \in Contents
      /\ rows[k] \in RowType \cup {None} /\ call[p] \in CallType
  BY <1>0, InProgressTyped DEF TypeInv, TypeOK
<1>2. ASSUME NEW op, UnderWay(p, op), TryAgain(p)
      PROVE  SettledCalls' = SettledCalls \/ Answer(p, Empty, TRUE)
  BY <1>1, <1>2, TriesStay DEF TryAgain
<1>3. CASE S3Put(p)
  <2> DEFINE row == Row(call[p].val, 0)
  <2>1. UnderWay(p, "set") /\ Store(k, row) /\ (Answer(p, Empty, FALSE) \/ TryAgain(p))
    BY <1>3 DEF S3Put, UnderWay, At
  <2>2. SettledCalls' = SettledCalls \/ \E err \in BOOLEAN : Answer(p, Empty, err)
    BY <1>2, <2>1
  <2>3. row # None /\ row.val = call[p].val
    BY <1>1, RowTyped DEF Row
  <2> HIDE DEF row
  <2> QED
    BY <1>1, <2>1, <2>2, <2>3, ShowsApply
<1>4. CASE S3Get(p)
  <2>1. /\ At(p, "get", "called") /\ UNCHANGED rows
        /\ Answer(p, Empty, TRUE) \/ (rows[k] # None /\ Answer(p, rows[k].val, FALSE))
    BY <1>4 DEF S3Get
  <2> QED
    BY <1>1, <2>1, GetImplements
<1>5. CASE S3Unanswered(p)
  <2> DEFINE op == call[p].op
  <2>1. UnderWay(p, op) /\ TryAgain(p) /\ UNCHANGED rows
    BY <1>5 DEF S3Unanswered, UnderWay
  <2> HIDE DEF op
  <2>2. CASE Answer(p, Empty, TRUE)
    BY <1>1, <2>1, <2>2, ShowsRefuse
  <2>3. CASE SettledCalls' = SettledCalls
    BY <2>1, <2>3, ShowsNothing DEF Docs
  <2> QED
    BY <1>2, <2>1, <2>2, <2>3
<1> QED
  BY <1>3, <1>4, <1>5 DEF S3Step

LEMMA IdleIs == SettledCall(IdleCall) = Abstract!Idle
BY DEF SettledCall, IdleCall, Abstract!Idle, Abstract!Nothing, Empty

LEMMA InitImplements == Init => Abstract!Init
BY IdleIs, NothingIsEmpty DEF Init, Abstract!Init, Docs, SettledCalls

\* A caller calls, or takes its answer.
LEMMA CallerImplements ==
    ASSUME TypeOK, NEW p \in Procs,
           \/ \E k \in Keys, v \in Values, skip \in Skips : CallSet(p, k, v, skip)
           \/ \E k \in Keys, skip \in Skips : CallGet(p, k, skip)
           \/ Return(p)
    PROVE  Implements
<1>0. CallOK
  BY DEF TypeOK
<1>1. ASSUME NEW k \in Keys, NEW v \in Values, NEW skip \in Skips, CallSet(p, k, v, skip)
      PROVE  Implements
  <2> DEFINE c == [IdleCall EXCEPT !.pc = "called", !.op = "set", !.key = k,
                                   !.val = v, !.skip = skip, !.at = Stamp]
  <2>1. call[p].pc = "idle" /\ call' = [call EXCEPT ![p] = c] /\ UNCHANGED rows
    BY <1>1 DEF CallSet
  <2>2. SettledCall(c) =
          [st |-> "pending", op |-> "set", key |-> k, val |-> v, err |-> FALSE]
    BY DEF SettledCall, IdleCall
  <2> HIDE DEF c
  <2>3. SettledCalls[p].st = "idle" /\ Docs' = Docs
    BY <2>1 DEF SettledCalls, SettledCall, Docs
  <2>4. Abstract!Call(p, "set", k, v)
    BY <1>0, <2>1, <2>2, <2>3, CallsMove DEF Abstract!Call
  <2> QED
    BY <2>4 DEF Implements, Abstract!Next
<1>2. ASSUME NEW k \in Keys, NEW skip \in Skips, CallGet(p, k, skip)
      PROVE  Implements
  <2> DEFINE c == [IdleCall EXCEPT !.pc = "called", !.op = "get", !.key = k, !.skip = skip]
  <2>1. call[p].pc = "idle" /\ call' = [call EXCEPT ![p] = c] /\ UNCHANGED rows
    BY <1>2 DEF CallGet
  <2>2. SettledCall(c) =
          [st |-> "pending", op |-> "get", key |-> k, val |-> Empty, err |-> FALSE]
    BY DEF SettledCall, IdleCall
  <2> HIDE DEF c
  <2>3. SettledCalls[p].st = "idle" /\ Docs' = Docs
    BY <2>1 DEF SettledCalls, SettledCall, Docs
  <2>4. Abstract!Call(p, "get", k, Abstract!Nothing)
    BY <1>0, <2>1, <2>2, <2>3, CallsMove, NothingIsEmpty DEF Abstract!Call
  <2> QED
    BY <2>4 DEF Implements, Abstract!Next
<1>3. CASE Return(p)
  <2>1. call[p].pc = "returned" /\ call' = [call EXCEPT ![p] = IdleCall] /\ UNCHANGED rows
    BY <1>3 DEF Return
  <2>2. SettledCalls[p].st = "done" /\ Docs' = Docs
    BY <2>1 DEF SettledCalls, SettledCall, Docs
  <2>3. Abstract!Return(p)
    BY <1>0, <2>1, <2>2, CallsMove, IdleIs DEF Abstract!Return
  <2> QED
    BY <2>3 DEF Implements, Abstract!Next
<1> QED
  BY <1>1, <1>2, <1>3

\* An exchange fails: the call is refused, or a Get that has read is spoilt.
LEMMA FailImplements ==
    ASSUME TypeOK, DeadlineInv, NEW p \in Procs, Fail(p)
    PROVE  Implements
<1>0. CallOK /\ call[p].pc \in {"called", "opened", "fetched", "overdue"}
  <2>1. CallOK /\ call[p].op \in {"set", "get"} /\ call[p].pc \in FailPoints(p)
    BY DEF TypeOK, CallOK, CallType, Fail
  <2>2. config.type \in {"file", "redis", "memcached", "mongodb", "postgres", "s3"}
    BY StorageConstants DEF TypeOK, StorageTypes
  <2>3. CASE config.type \in {"mongodb", "postgres"}
    BY <2>1, <2>3 DEF FailPoints
  <2>4. CASE config.type \in {"redis", "memcached"}
    BY <2>1, <2>4 DEF FailPoints
  <2>5. CASE config.type = "file" /\ call[p].op = "get"
    BY <2>1, <2>5 DEF FailPoints
  <2>6. CASE config.type = "file" /\ call[p].op = "set"
    BY <2>1, <2>6 DEF FailPoints
  <2>7. CASE config.type = "s3"
    BY <2>1, <2>7 DEF FailPoints
  <2> QED
    BY <2>1, <2>2, <2>3, <2>4, <2>5, <2>6, <2>7
<1>1. Answer(p, Empty, TRUE) /\ UNCHANGED rows
  BY DEF Fail
<1>2. CASE call[p].pc \in {"called", "opened", "overdue"}
  BY <1>0, <1>1, <1>2, ShowsRefuse DEF UnderWay
<1>3. CASE call[p].pc = "fetched"
  <2>1. SettledCalls[p].st = "done" /\ SettledCalls[p].op = "get" /\ Docs' = Docs
    BY <1>1, <1>3 DEF SettledCalls, SettledCall, Docs, DeadlineInv, CallInTime
  <2>2. Abstract!Done(p, Abstract!Nothing, TRUE)
    BY <1>0, <1>1, AnswerDone, NothingIsEmpty
  <2>3. Abstract!Spoil(p)
    BY <2>1, <2>2 DEF Abstract!Spoil
  <2> QED
    BY <2>3 DEF Implements, Abstract!Next
<1> QED
  BY <1>0, <1>2, <1>3

LEMMA StepImplements ==
    ASSUME TypeInv, GenuineInv, DeadlineInv, ErrInv, OnceInv, FileInv, [Next]_storageVars
    PROVE  Implements
<1>0. TypeOK /\ CallOK /\ RowsOK
  BY DEF TypeInv, TypeOK
<1>1. ASSUME NEW p \in Procs, AdapterStep(p) PROVE Implements
  BY <1>1, FileImplements, RedisImplements, MemcachedImplements, MongoImplements,
     PostgresImplements, S3Implements DEF AdapterStep
<1>2. ASSUME NEW k \in Keys, ServerExpires(k) \/ Evict(k) PROVE Implements
  <2>1. Store(k, None) /\ UNCHANGED call
    BY <1>2 DEF ServerExpires, Evict
  <2>2. Docs' = [Docs EXCEPT ![k] = Empty] /\ SettledCalls' = SettledCalls
    BY <1>0, <2>1, StoreDocs DEF SettledCalls, SettledCall
  <2> QED
    BY <2>2, ShowsVanish
<1>3. CASE Tick \/ UNCHANGED storageVars
  BY <1>3, ShowsNothing DEF Tick, storageVars, Docs, SettledCalls, SettledCall
<1>4. CASE Crash
  <2>1. Docs' = Docs /\ SettledCalls' = [p \in Procs |-> Abstract!Idle]
    BY <1>4, IdleIs DEF Crash, Docs, SettledCalls
  <2>2. Abstract!Crash
    BY <2>1 DEF Abstract!Crash
  <2> QED
    BY <2>2 DEF Implements, Abstract!Next
<1> QED
  BY <1>0, <1>1, <1>2, <1>3, <1>4, CallerImplements, FailImplements DEF Next

LEMMA RegisterInit == Init => ErrInv /\ OnceInv /\ FileInv
BY DEF Init, ErrInv, OnceInv, FileInv, FileCall, Setting, Reading, IdleCall

\* Whichever adapter is behind it, the Storage interface is a lossy register
\* per key: every step of a call is a step of PasteStore, or none, if no key is
\* set twice on files and on memcached.
THEOREM AdaptersImplementPasteStore ==
    ASSUME SetOnce
    PROVE  Spec => ImplementsPasteStore
<1> DEFINE Inv == TypeInv /\ GenuineInv /\ DeadlineInv /\ ErrInv /\ OnceInv /\ FileInv
<1>1. Init => Inv
  BY TypeInit, GenuineInit, DeadlineInit, RegisterInit
<1>2. Inv /\ [Next]_storageVars => Inv'
  BY TypeStep, GenuineStep, DeadlineStep, ErrStep, OnceStep, FileInvStep DEF TypeInv
<1>3. Inv /\ [Next]_storageVars => [Abstract!Next]_(Abstract!vars)
  BY StepImplements DEF Implements
<1> HIDE DEF Inv
<1> QED
  BY <1>1, <1>2, <1>3, InitImplements, PTL DEF Spec, ImplementsPasteStore, Abstract!Spec
=============================================================================
