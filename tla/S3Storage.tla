----------------------------- MODULE S3Storage -----------------------------
(* internal/storage/s3.go: one object per key and no expiry.  The client's  *)
(* retryer makes up to three attempts at a request.                         *)
EXTENDS Storage

MaxAttempts == 3

\* An attempt fails or its reply is lost: the client tries again or gives up.
TryAgain(p) ==
    IF call[p].tries + 1 < MaxAttempts
    THEN call' = [call EXCEPT ![p].tries = @ + 1]
    ELSE Answer(p, Empty, TRUE)

S3Put(p) ==
    /\ At(p, "set", "called")
    /\ Store(call[p].key, Row(call[p].val, 0))
    /\ Answer(p, Empty, FALSE) \/ TryAgain(p)
    /\ UNCHANGED <<config, now, lastId, given>>

S3Get(p) ==
    LET row == rows[call[p].key] IN
    /\ At(p, "get", "called")
    /\ IF row = None THEN Answer(p, Empty, TRUE) ELSE Answer(p, row.val, FALSE)
    /\ UNCHANGED <<config, now, rows, lastId, given>>

S3Unanswered(p) ==
    /\ call[p].pc = "called"
    /\ TryAgain(p)
    /\ UNCHANGED <<config, now, rows, lastId, given>>

S3Step(p) == S3Put(p) \/ S3Get(p) \/ S3Unanswered(p)
=============================================================================
