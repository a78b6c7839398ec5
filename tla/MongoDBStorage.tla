--------------------------- MODULE MongoDBStorage --------------------------
(* internal/storage/mongodb.go: documents with a unique key and a date of   *)
(* expiry, which both the adapter and a TTL index of the server act on.     *)
EXTENDS Storage

\* A BSON date keeps milliseconds.
MongoDate(t) == (t \div TicksPerMilli) * TicksPerMilli

\* i.Expiration.Unix() <= time.Now().Unix(), and a zero date never expires
MongoExpired(row) == row.exp # 0 /\ Second(row.exp) <= Second(now)

\* InsertOne: the unique index on key refuses a second document.
MongoSet(p) ==
    LET c == call[p]
        exp == IF c.skip THEN 0 ELSE MongoDate(c.at + Expiration)
    IN
    /\ At(p, "set", "called")
    /\ \/ rows[c.key] # None /\ UNCHANGED rows /\ Answer(p, Empty, TRUE)
       \/ /\ rows[c.key] = None
          /\ Store(c.key, Row(c.val, exp))
          /\ \E replyLost \in BOOLEAN : Answer(p, Empty, replyLost)
    /\ UNCHANGED <<config, now, lastId, given>>

MongoFind(p) ==
    LET c == call[p]
        row == rows[c.key]
    IN
    /\ At(p, "get", "called")
    /\ \/ row = None /\ Answer(p, Empty, TRUE)
       \/ row # None /\ MongoExpired(row) /\ GoOn(p, "overdue", row)
       \/ /\ row # None /\ ~MongoExpired(row)
          /\ IF c.skip THEN Answer(p, row.val, FALSE) ELSE GoOn(p, "fetched", row)
    /\ UNCHANGED <<config, now, rows, lastId, given>>

\* DeleteOne with the filter {key}, whatever document has that key by now.
MongoDelete(p) ==
    /\ At(p, "get", "overdue")
    /\ Store(call[p].key, None)
    /\ Answer(p, Empty, TRUE)
    /\ UNCHANGED <<config, now, lastId, given>>

\* Mutant of MongoUpdate: the update is an upsert, which inserts a document
\* with an expiration and no value if the paste is gone.
MongoUpsert(p) ==
    LET k == call[p].key
        deadline == MongoDate(call[p].at + Expiration)
    IN
    /\ At(p, "get", "fetched")
    /\ IF rows[k] = None THEN Store(k, Row(Empty, deadline))
       ELSE Store(k, [rows[k] EXCEPT !.exp = deadline])
    /\ Answer(p, call[p].val, FALSE)
    /\ UNCHANGED <<config, now, lastId, given>>

\* UpdateOne with the same filter; no match is not an error.
MongoUpdate(p) ==
    LET k == call[p].key IN
    /\ At(p, "get", "fetched")
    /\ IF rows[k] = None THEN UNCHANGED rows
       ELSE Store(k, [rows[k] EXCEPT !.exp = MongoDate(call[p].at + Expiration)])
    /\ Answer(p, call[p].val, FALSE)
    /\ UNCHANGED <<config, now, lastId, given>>

MongoStep(p) == MongoSet(p) \/ MongoFind(p) \/ MongoDelete(p) \/ MongoUpdate(p)
=============================================================================
