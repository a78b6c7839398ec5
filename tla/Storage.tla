------------------------------ MODULE Storage ------------------------------
(***************************************************************************)
(* The storage interface of internal/storage/storage.go and the state its  *)
(* six adapters act on.  A goroutine p that serves a request makes one     *)
(* Set or Get at a time; call[p] is that call, and each adapter moves it   *)
(* through the exchanges the Go code has with the file system or with the  *)
(* external server.  rows is what that file system or server holds.        *)
(*                                                                         *)
(* Time is counted in ticks: TicksPerMilli of them make a millisecond and  *)
(* TicksPerSecond a second.  In the program a tick is a nanosecond, the    *)
(* unit of time.Duration.                                                  *)
(***************************************************************************)
EXTENDS Integers, Sequences

CONSTANTS
    Procs,           \* goroutines that may be inside a Set or a Get
    Keys,
    Values,          \* contents of pastes: sequences of chunks
    None,            \* no row, no key
    Backends,        \* the storage types a configuration may name
    Rewritable,      \* the types on which a key may be Set a second time
    Expirations,     \* the values cfg.Expiration may have
    Skips,           \* the values of skip_expiration that callers pass
    TicksPerMilli, TicksPerSecond,
    StartTime, MaxTime,      \* bound: the clock stops at MaxTime
    MaxRows                  \* bound: rows a SERIAL column ever numbers

StorageTypes == {"file", "redis", "memcached", "mongodb", "postgres", "s3"}

Chunks == UNION {{v[i] : i \in 1..Len(v)} : v \in Values}
Contents == Seq(Chunks)
RowType == [val : Contents, exp : Int, id : Nat]

ASSUME StorageConstants ==
    /\ None \notin Keys /\ None \notin RowType
    /\ Values \subseteq Contents
    /\ Backends \subseteq StorageTypes /\ Rewritable \subseteq Backends
    /\ Expirations \subseteq Int      \* config.go:94: an int nobody checks
    /\ Skips \subseteq BOOLEAN
    /\ TicksPerMilli \in Nat \ {0} /\ TicksPerSecond \in Nat \ {0}
    /\ StartTime \in Nat \ {0} /\ MaxTime \in Nat
    /\ MaxRows \in Nat

ASSUME MilliInSecond == TicksPerMilli <= TicksPerSecond

\* No deadline falls in the first second of 1970 or before it, so that a row
\* whose exp is 0 is one that has none.
ASSUME DeadlinesAfterEpoch ==
    \A e \in Expirations : StartTime + e >= TicksPerSecond

VARIABLES
    config,   \* what handleConfig read: the storage type, the expiration
    now,      \* the clock
    rows,     \* [Keys -> row or None]; a row's exp is 0 when it never expires
    lastId,   \* the SERIAL sequence of the entries table
    call,     \* [Procs -> the Set or Get in progress]
    given     \* history: the values handed to Set, by key

storageVars == <<config, now, rows, lastId, call, given>>

Empty == <<>>        \* the Go string ""

IdleCall == [pc |-> "idle", op |-> "get", key |-> None, val |-> Empty,
             skip |-> FALSE, at |-> 0, row |-> None, tries |-> 0, err |-> FALSE]

Init ==
    /\ config \in [type : Backends, expiration : Expirations]
    /\ now = StartTime
    /\ rows = [k \in Keys |-> None]
    /\ lastId = 0
    /\ call = [p \in Procs |-> IdleCall]
    /\ given = [k \in Keys |-> {}]

Expiration == config.expiration
Second(t) == t \div TicksPerSecond          \* time.Time.Unix()

\* time.Now(), taken by the two adapters that compute deadlines themselves
\* and sent to the server in a later exchange.
Stamp == IF config.type \in {"mongodb", "postgres"} THEN now ELSE 0

At(p, op, pc) == call[p].op = op /\ call[p].pc = pc
Row(v, exp) == [val |-> v, exp |-> exp, id |-> 0]
Store(k, row) == rows' = [rows EXCEPT ![k] = row]

\* The row of a key the server still shows at the current time: Redis and
\* memcached hide a row from the tick it expires on.
Live(k) == rows[k] # None /\ (rows[k].exp = 0 \/ now < rows[k].exp)

-----------------------------------------------------------------------------
(* The callers' side of a call. *)

CallSet(p, k, v, skip) ==
    /\ call[p].pc = "idle"
    /\ config.type \in Rewritable \/ given[k] = {}
    /\ call' = [call EXCEPT ![p] = [IdleCall EXCEPT !.pc = "called", !.op = "set",
                    !.key = k, !.val = v, !.skip = skip, !.at = Stamp]]
    /\ given' = [given EXCEPT ![k] = @ \cup {v}]
    /\ UNCHANGED <<config, now, rows, lastId>>

CallGet(p, k, skip) ==
    /\ call[p].pc = "idle"
    /\ call' = [call EXCEPT ![p] = [IdleCall EXCEPT !.pc = "called", !.op = "get",
                    !.key = k, !.skip = skip]]
    /\ UNCHANGED <<config, now, rows, lastId, given>>

\* Mutant of Answer: the caller is not told which call this was.
AnswerForgetsKey(p, val, err) ==
    call' = [call EXCEPT ![p] = [IdleCall EXCEPT !.pc = "returned",
                !.op = call[p].op, !.val = val, !.err = err]]

\* The adapter returns (val, err): a Set returns err alone.
Answer(p, val, err) ==
    call' = [call EXCEPT ![p] = [IdleCall EXCEPT !.pc = "returned",
                !.op = call[p].op, !.key = call[p].key, !.val = val, !.err = err]]

\* A Get keeps the content it has read and goes on to another exchange.
GoOn(p, pc, row) ==
    call' = [call EXCEPT ![p].pc = pc, ![p].val = row.val, ![p].row = row,
                         ![p].at = Stamp]

Return(p) ==
    /\ call[p].pc = "returned"
    /\ call' = [call EXCEPT ![p] = IdleCall]
    /\ UNCHANGED <<config, now, rows, lastId, given>>

\* Where an adapter stops at a failed exchange and returns its error.  Redis
\* and memcached ignore that of their second exchange, S3 tries again, and a
\* file that is open may be written short (see FileWriteShort).
FailPoints(p) ==
    CASE config.type \in {"mongodb", "postgres"} -> {"called", "fetched", "overdue"}
      [] config.type \in {"redis", "memcached"} -> {"called"}
      [] config.type = "file" /\ call[p].op = "get" -> {"called", "opened"}
      [] config.type = "file" /\ call[p].op = "set" -> {"called"}
      [] config.type = "s3" -> {}

\* The exchange fails before it has any effect: a refused connection, an
\* error reply, a closed client.
Fail(p) ==
    /\ call[p].pc \in FailPoints(p)
    /\ Answer(p, Empty, TRUE)
    /\ UNCHANGED <<config, now, rows, lastId, given>>

-----------------------------------------------------------------------------
(* The environment. *)

Tick ==
    /\ now < MaxTime
    /\ now' = now + 1
    /\ UNCHANGED <<config, rows, lastId, call, given>>

\* The process dies with its calls, wherever they are; what the file system
\* or the server holds stays.
Crash ==
    /\ call # [p \in Procs |-> IdleCall]
    /\ call' = [p \in Procs |-> IdleCall]
    /\ UNCHANGED <<config, now, rows, lastId, given>>
=============================================================================
