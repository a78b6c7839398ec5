------------------------------ MODULE Backends -----------------------------
(***************************************************************************)
(* The six storage adapters behind the Storage interface, with the servers *)
(* they talk to.  handleConfig of cmd/main.go picks one adapter for the    *)
(* life of the process, so config.type is chosen initially and every step  *)
(* of a call is a step of that adapter.                                    *)
(***************************************************************************)
EXTENDS FileStorage, RedisStorage, MemcachedStorage,
        MongoDBStorage, PostgresStorage, S3Storage

\* The switch over cfg.Storage.Type.
AdapterStep(p) ==
    \/ config.type = "file"      /\ FileStep(p)
    \/ config.type = "redis"     /\ RedisStep(p)
    \/ config.type = "memcached" /\ MemcachedStep(p)
    \/ config.type = "mongodb"   /\ MongoStep(p)
    \/ config.type = "postgres"  /\ PostgresStep(p)
    \/ config.type = "s3"        /\ S3Step(p)

\* What the server drops without being asked.  Redis and memcached hide expired
\* rows before that; the TTL index of MongoDB takes every document whose date
\* has passed.  The zero time.Time of skip_expiration (mongodb.go:97) is left
\* out of the document (omitempty, mongodb.go:26), and one without a date stays.
\* Nothing removes a row of the entries table but a Get.
Expendable(k) ==
    /\ rows[k] # None
    /\ \/ config.type \in {"redis", "memcached"} /\ ~Live(k)
       \/ config.type = "mongodb" /\ rows[k].exp # 0 /\ rows[k].exp <= now

ServerExpires(k) ==
    /\ Expendable(k)
    /\ Store(k, None)
    /\ UNCHANGED <<config, now, lastId, call, given>>

\* memcached is a cache: it drops rows when it runs out of memory.
Evict(k) ==
    /\ config.type = "memcached"
    /\ rows[k] # None
    /\ Store(k, None)
    /\ UNCHANGED <<config, now, lastId, call, given>>

Next ==
    \/ \E p \in Procs :
          \/ \E k \in Keys, v \in Values, skip \in Skips : CallSet(p, k, v, skip)
          \/ \E k \in Keys, skip \in Skips : CallGet(p, k, skip)
          \/ AdapterStep(p)
          \/ Fail(p)
          \/ Return(p)
    \/ \E k \in Keys : ServerExpires(k) \/ Evict(k)
    \/ Tick
    \/ Crash

Spec == Init /\ [][Next]_storageVars

-----------------------------------------------------------------------------
(* The type invariant. *)

CallType == [pc : {"idle", "called", "opened", "fetched", "overdue", "returned"},
             op : {"set", "get"}, key : Keys \cup {None}, val : Contents,
             skip : BOOLEAN, at : Int, row : RowType \cup {None}, tries : Nat,
             err : BOOLEAN]

RowsOK == rows \in [Keys -> RowType \cup {None}]
CallOK ==
    /\ call \in [Procs -> CallType]
    /\ \A p \in Procs : call[p].pc # "idle" => call[p].key \in Keys

\* Every variable has its type, and a call that is in progress is about a key.
TypeOK ==
    /\ config \in [type : Backends, expiration : Expirations]
    /\ now \in Nat /\ lastId \in Nat
    /\ RowsOK
    /\ CallOK
    /\ given \in [Keys -> SUBSET Values]

-----------------------------------------------------------------------------
(* Properties. *)

\* Content c of key k is one of the values that were handed to Set for k.  A
\* file may be caught half written, or written by two Sets at once: then each
\* of its chunks is one that was handed to Set for this place of this key.
Genuine(k, c) ==
    IF config.type = "file"
    THEN \A i \in 1..Len(c) : \E v \in given[k] : i <= Len(v) /\ c[i] = v[i]
    ELSE c \in given[k]

\* No paste shows another paste's content: whatever is stored under a key, and
\* whatever a Get answers without an error, somebody gave to Set for that very
\* key, in spite of failures, crashes, write-backs (memcached.go:47), retries
\* (s3.go:32) and rows that are deleted and inserted while a Get is under way.
OnlyStored ==
    /\ \A k \in Keys : rows[k] # None => Genuine(k, rows[k].val)
    /\ \A p \in Procs :
          At(p, "get", "returned") /\ call[p].val # Empty
              => Genuine(call[p].key, call[p].val)

\* A row of key k is due to go, by the rule of the adapter or its server.
Overdue(k) ==
    \/ config.type = "postgres" /\ PostgresExpired(rows[k])
    \/ config.type = "mongodb" /\ MongoExpired(rows[k])
    \/ Expendable(k)

\* A row of key k that is not overdue goes.  Memcached may evict what it likes.
RemovedEarly(k) ==
    /\ rows[k] # None /\ rows'[k] = None
    /\ config.type # "memcached" /\ ~Overdue(k)

\* A Get has found k overdue, and the row has become another since then.
FoundOverdueBefore(k) ==
    \E p \in Procs : /\ At(p, "get", "overdue") /\ call[p].key = k
                     /\ call[p].row # rows[k]

\* A row that is not overdue is only ever removed by a Get that has found it
\* overdue before somebody set or refreshed it again (mongodb.go:126 and
\* postgres.go:72 delete without looking a second time), or, if the expiration
\* is not positive, by a view on Redis (redis.go:59): files, objects and the
\* documents without a date stay, and Redis keeps its keys up to their time
\* otherwise.
EarlyDeletionIsARace ==
    [][\A k \in Keys : RemovedEarly(k) =>
          \/ FoundOverdueBefore(k)
          \/ /\ config.type = "redis" /\ Expiration <= 0
             /\ \E p \in Procs : At(p, "get", "fetched") /\ call[p].key = k]_storageVars

\* The Get of p that has read k does what it does after that, and the row,
\* which had a deadline, is still there.
Viewed(p, k) ==
    /\ At(p, "get", "fetched") /\ call[p].key = k /\ call'[p] # call[p]
    /\ rows[k] # None /\ rows'[k] # None /\ rows[k].exp # 0

\* A view never shortens the life of a paste, but for two cases: the EXPIRE of
\* Redis cuts a fraction of a second off the deadline that SET has given in
\* milliseconds; and the refresh of MongoDB and PostgreSQL, whose deadline is
\* computed before it is sent (mongodb.go:135, postgres.go:81), takes back what
\* another call has given the row since this Get has read it.
ViewsProlong ==
    [][\A k \in Keys, p \in Procs : Viewed(p, k) =>
          \/ rows'[k].exp >= rows[k].exp
          \/ config.type = "redis" /\ rows'[k].exp > rows[k].exp - TicksPerSecond
          \/ /\ config.type \in {"mongodb", "postgres"}
             /\ call[p].at < now /\ call[p].row # rows[k]]_storageVars

-----------------------------------------------------------------------------
(* What the documentation says and the code does not do. *)

\* config.go:92, "0 means there will be no expiration": then nothing that was
\* stored is removed.  redis.go:58 sends EXPIRE key 0, which deletes the key.
ZeroMeansNoExpiration ==
    [][\A k \in Keys :
          Expiration = 0 /\ rows[k] # None => rows'[k] # None]_storageVars

\* README.md:132, "You can also set an `expire` option to the number of seconds
\* to expire keys in": a paste with an expiry that is stored or viewed lives that
\* many seconds from then on.
ExpirationInSeconds ==
    [][\A k \in Keys :
          rows'[k] # rows[k] /\ rows'[k] # None /\ rows'[k].exp # 0 =>
              rows'[k].exp >= now + Expiration * TicksPerSecond]_storageVars

\* postgres.go:70, "Delete if expired": what a Get deletes is expired.
DeletesOnlyExpired ==
    [][\A k \in Keys :
          rows[k] # None /\ rows'[k] = None => Overdue(k)]_storageVars

-----------------------------------------------------------------------------
(* The adapters implement the abstract store.  A Set or Get is pending until *)
(* the exchange that settles what it stores or answers.                      *)

SettledCall(c) ==
    LET settled == c.pc \in {"fetched", "returned"} IN
    [st |-> IF c.pc = "idle" THEN "idle" ELSE IF settled THEN "done" ELSE "pending",
     op |-> c.op, key |-> c.key, err |-> c.err,
     val |-> IF c.op = "set" \/ settled THEN c.val ELSE Empty]

Docs == [k \in Keys |-> IF rows[k] = None THEN Empty ELSE rows[k].val]
SettledCalls == [p \in Procs |-> SettledCall(call[p])]

Abstract == INSTANCE PasteStore WITH docs <- Docs, calls <- SettledCalls

\* Each adapter in use is a lossy register per key: a Get that succeeds answers
\* what was stored at one instant of its life, and a content that is gone stays
\* gone until a Set in progress puts it back.  The file and memcached adapters
\* do so only for keys that are set once (see Rewritable).
ImplementsPasteStore == Abstract!Spec
=============================================================================
