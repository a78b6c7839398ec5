------------------------- MODULE MemcachedStorage --------------------------
(* internal/storage/memcached.go over gomemcache.  cfg.Expiration is a      *)
(* number of seconds here, cut to an int32.                                 *)
EXTENDS Storage

CONSTANTS
    Int32Half,           \* 2^31: int32 wraps around at this number
    MaxRelative          \* 30 days: the server reads more as a date

ASSUME MemcachedConstants == Int32Half \in Nat \ {0} /\ MaxRelative \in Nat

Int32(n) == ((n + Int32Half) % (2 * Int32Half)) - Int32Half

\* The tick an item stored with this exptime is hidden from: never (0), at
\* once, after so many seconds, or at that date counted in seconds.
ItemExpiry(exptime) ==
    CASE exptime = 0 -> 0
      [] exptime < 0 -> now
      [] exptime \in 1..MaxRelative -> (Second(now) + exptime) * TicksPerSecond
      [] exptime > MaxRelative -> exptime * TicksPerSecond

MemcachedSet(p) ==
    LET c == call[p]
        exptime == IF c.skip THEN 0 ELSE Int32(Expiration)
    IN
    /\ At(p, "set", "called")
    /\ Store(c.key, Row(c.val, ItemExpiry(exptime)))
    /\ \E replyLost \in BOOLEAN : Answer(p, Empty, replyLost)
    /\ UNCHANGED <<config, now, lastId, given>>

MemcachedGet(p) ==
    LET c == call[p] IN
    /\ At(p, "get", "called")
    /\ \/ ~Live(c.key) /\ Answer(p, Empty, TRUE)
       \/ Live(c.key) /\ c.skip /\ Answer(p, rows[c.key].val, FALSE)
       \/ Live(c.key) /\ ~c.skip /\ GoOn(p, "fetched", rows[c.key])
    /\ UNCHANGED <<config, now, rows, lastId, given>>

\* s.client.Replace stores the value the Get has read once more, with a new
\* expiry, if the key is still there; its error is dropped.
MemcachedReplace(p) ==
    LET c == call[p] IN
    /\ At(p, "get", "fetched")
    /\ \/ UNCHANGED rows                            \* the command got lost
       \/ /\ Live(c.key)
          /\ Store(c.key, Row(c.val, ItemExpiry(Int32(Expiration))))
    /\ Answer(p, c.val, FALSE)
    /\ UNCHANGED <<config, now, lastId, given>>

MemcachedStep(p) == MemcachedSet(p) \/ MemcachedGet(p) \/ MemcachedReplace(p)
=============================================================================
