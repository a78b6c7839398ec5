---------------------------- MODULE FileStorage ----------------------------
(* internal/storage/file.go: one file per key, truncated and then written.  *)
EXTENDS Storage

LongerOf(a, b) == IF a >= b THEN a ELSE b

\* What is left when v is written, from its first position on, over old: a
\* longer file keeps its tail.  Read the other way round, what a reader that
\* holds v has after it has read the file old to its end.
Overlay(v, old) ==
    [i \in 1..LongerOf(Len(v), Len(old)) |-> IF i <= Len(v) THEN v[i] ELSE old[i]]

\* os.Create truncates an existing file; there is no rename into place.
FileCreate(p) ==
    /\ At(p, "set", "called")
    /\ Store(call[p].key, Row(Empty, 0))
    /\ call' = [call EXCEPT ![p].pc = "opened"]
    /\ UNCHANGED <<config, now, lastId, given>>

\* Mutant of FileWrite: the file was opened for appending.
FileAppend(p) ==
    LET k == call[p].key IN
    /\ At(p, "set", "opened")
    /\ Store(k, Row(rows[k].val \o call[p].val, 0))
    /\ Answer(p, Empty, FALSE)
    /\ UNCHANGED <<config, now, lastId, given>>

\* file.WriteString; the deferred Close returns nothing to the caller.
FileWrite(p) ==
    LET k == call[p].key IN
    /\ At(p, "set", "opened")
    /\ Store(k, Row(Overlay(call[p].val, rows[k].val), 0))
    /\ Answer(p, Empty, FALSE)
    /\ UNCHANGED <<config, now, lastId, given>>

\* A full disk: some first chunks are written and the error is returned.
FileWriteShort(p) ==
    LET k == call[p].key IN
    /\ At(p, "set", "opened")
    /\ \E n \in 0..Len(call[p].val) - 1 :
          Store(k, Row(Overlay(SubSeq(call[p].val, 1, n), rows[k].val), 0))
    /\ Answer(p, Empty, TRUE)
    /\ UNCHANGED <<config, now, lastId, given>>

\* os.ReadFile opens the file and reads what is there ...
FileOpen(p) ==
    LET k == call[p].key IN
    /\ At(p, "get", "called")
    /\ IF rows[k] = None THEN Answer(p, Empty, TRUE)
       ELSE call' = [call EXCEPT ![p].pc = "opened", ![p].val = rows[k].val]
    /\ UNCHANGED <<config, now, rows, lastId, given>>

\* ... and goes on reading while the file is longer than what it holds.
FileReadMore(p) ==
    LET file == rows[call[p].key].val IN
    /\ At(p, "get", "opened")
    /\ Len(file) > Len(call[p].val)
    /\ call' = [call EXCEPT ![p].val = Overlay(@, file)]
    /\ UNCHANGED <<config, now, rows, lastId, given>>

FileReadEnd(p) ==
    /\ At(p, "get", "opened")
    /\ Len(rows[call[p].key].val) <= Len(call[p].val)
    /\ Answer(p, call[p].val, FALSE)
    /\ UNCHANGED <<config, now, rows, lastId, given>>

FileStep(p) ==
    \/ FileCreate(p) \/ FileWrite(p) \/ FileWriteShort(p)
    \/ FileOpen(p) \/ FileReadMore(p) \/ FileReadEnd(p)
=============================================================================
