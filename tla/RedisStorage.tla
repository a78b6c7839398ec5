--------------------------- MODULE RedisStorage ----------------------------
(* internal/storage/redis.go over go-redis.  cfg.Expiration becomes a       *)
(* time.Duration without a unit, so it counts ticks, not seconds.           *)
EXTENDS Storage

AtLeastOne(n) == IF n = 0 THEN 1 ELSE n

\* The client rounds a duration below a millisecond up to one.
PxTicks(duration) ==
    AtLeastOne(duration \div TicksPerMilli) * TicksPerMilli

KeepTTL == -1        \* redis.KeepTTL: a SET that leaves the key its deadline

\* SET key value PX ms, SET key value KEEPTTL, or a SET without an option that
\* drops the deadline the key has, for 0 and for the other negative durations.
SetExpiry(k, duration) ==
    IF duration > 0 THEN now + PxTicks(duration)
    ELSE IF duration = KeepTTL /\ Live(k) THEN rows[k].exp
    ELSE 0

\* Mutant of ExpireTicks: a duration below a second is cut to no time at all.
ExpireTicksTruncated(duration) ==
    IF duration <= 0 THEN 0 ELSE (duration \div TicksPerSecond) * TicksPerSecond

\* EXPIRE key s: whole seconds, at least one for a positive duration.
ExpireTicks(duration) ==
    IF duration <= 0 THEN 0
    ELSE AtLeastOne(duration \div TicksPerSecond) * TicksPerSecond

MaxRetries == 3      \* the default of go-redis

\* The reply is lost, and go-redis sends the command again.
SendAgain(p) ==
    /\ call[p].tries < MaxRetries
    /\ call' = [call EXCEPT ![p].tries = @ + 1]

RedisSet(p) ==
    LET c == call[p] IN
    /\ At(p, "set", "called")
    /\ Store(c.key, Row(c.val, SetExpiry(c.key, IF c.skip THEN 0 ELSE Expiration)))
    /\ (\E gaveUp \in BOOLEAN : Answer(p, Empty, gaveUp)) \/ SendAgain(p)
    /\ UNCHANGED <<config, now, lastId, given>>

RedisGet(p) ==
    LET c == call[p] IN
    /\ At(p, "get", "called")
    /\ \/ ~Live(c.key) /\ Answer(p, Empty, TRUE)
       \/ Live(c.key) /\ c.skip /\ Answer(p, rows[c.key].val, FALSE)
       \/ Live(c.key) /\ ~c.skip /\ GoOn(p, "fetched", rows[c.key])
    /\ UNCHANGED <<config, now, rows, lastId, given>>

\* s.client.Expire: its result is dropped.  The server ignores a key that is
\* gone by now, and deletes the key when the time to live is not positive.
RedisExpire(p) ==
    LET k == call[p].key
        ttl == ExpireTicks(Expiration)
    IN
    /\ At(p, "get", "fetched")
    /\ \/ UNCHANGED rows                \* the key is gone, or the command got lost
       \/ Live(k) /\ ttl = 0 /\ Store(k, None)
       \/ Live(k) /\ ttl > 0 /\ Store(k, [rows[k] EXCEPT !.exp = now + ttl])
    /\ Answer(p, call[p].val, FALSE) \/ SendAgain(p)
    /\ UNCHANGED <<config, now, lastId, given>>

RedisStep(p) == RedisSet(p) \/ RedisGet(p) \/ RedisExpire(p)
=============================================================================
