-------------------------- MODULE PostgresStorage --------------------------
(* internal/storage/postgres.go over pgx: a row's expiration is a Unix      *)
(* second the adapter computes and checks itself.  A Get is a SELECT and    *)
(* then an UPDATE or a DELETE by the row's id, outside any transaction.     *)
EXTENDS Storage

\* now.Add(time.Duration(s.expiration)).Unix(), of a clock read earlier.
UnixDeadline(p) == Second(call[p].at + Expiration)

PostgresExpired(row) == row.exp # 0 /\ Second(now) > row.exp

\* INSERT ... ON CONFLICT (key) DO UPDATE: an existing row keeps its id.
PostgresSet(p) ==
    LET c == call[p]
        exp == IF c.skip THEN 0 ELSE UnixDeadline(p)
    IN
    /\ At(p, "set", "called")
    /\ \/ /\ rows[c.key] = None
          /\ lastId < MaxRows
          /\ lastId' = lastId + 1
          /\ Store(c.key, [val |-> c.val, exp |-> exp, id |-> lastId'])
       \/ /\ rows[c.key] # None
          /\ Store(c.key, [rows[c.key] EXCEPT !.val = c.val, !.exp = exp])
          /\ UNCHANGED lastId
    /\ \E replyLost \in BOOLEAN : Answer(p, Empty, replyLost)
    /\ UNCHANGED <<config, now, given>>

PostgresSelect(p) ==
    LET c == call[p]
        row == rows[c.key]
    IN
    /\ At(p, "get", "called")
    /\ \/ row = None /\ Answer(p, Empty, TRUE)
       \/ row # None /\ PostgresExpired(row) /\ GoOn(p, "overdue", row)
       \/ /\ row # None /\ ~PostgresExpired(row)
          /\ IF c.skip THEN Answer(p, row.val, FALSE) ELSE GoOn(p, "fetched", row)
    /\ UNCHANGED <<config, now, rows, lastId, given>>

\* The row a Get has read is still in the table.
SameId(p) ==
    LET k == call[p].key IN rows[k] # None /\ rows[k].id = call[p].row.id

\* DELETE FROM entries WHERE id = $1; the Get answers "" without an error.
PostgresDelete(p) ==
    /\ At(p, "get", "overdue")
    /\ IF SameId(p) THEN Store(call[p].key, None) ELSE UNCHANGED rows
    /\ Answer(p, Empty, FALSE)
    /\ UNCHANGED <<config, now, lastId, given>>

\* Mutant of PostgresUpdate: the refresh writes the whole row back.
PostgresWriteBack(p) ==
    LET k == call[p].key IN
    /\ At(p, "get", "fetched")
    /\ IF SameId(p) THEN Store(k, [call[p].row EXCEPT !.exp = UnixDeadline(p)])
       ELSE UNCHANGED rows
    /\ Answer(p, call[p].val, FALSE)
    /\ UNCHANGED <<config, now, lastId, given>>

\* Mutant of PostgresUpdate: the refresh sets the deadline to the present.
PostgresUpdateToNow(p) ==
    LET k == call[p].key IN
    /\ At(p, "get", "fetched")
    /\ IF SameId(p) THEN Store(k, [rows[k] EXCEPT !.exp = Second(call[p].at)])
       ELSE UNCHANGED rows
    /\ Answer(p, call[p].val, FALSE)
    /\ UNCHANGED <<config, now, lastId, given>>

\* UPDATE entries SET expiration = $1 WHERE id = $2
PostgresUpdate(p) ==
    LET k == call[p].key IN
    /\ At(p, "get", "fetched")
    /\ IF SameId(p) THEN Store(k, [rows[k] EXCEPT !.exp = UnixDeadline(p)])
       ELSE UNCHANGED rows
    /\ Answer(p, call[p].val, FALSE)
    /\ UNCHANGED <<config, now, lastId, given>>

PostgresStep(p) ==
    PostgresSet(p) \/ PostgresSelect(p) \/ PostgresDelete(p) \/ PostgresUpdate(p)
=============================================================================
