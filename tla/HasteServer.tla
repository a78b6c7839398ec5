---------------------------- MODULE HasteServer ----------------------------
(***************************************************************************)
(* One life of the server process: cmd/main.go, internal/server/server.go  *)
(* and handler/document.go over the storage that PasteStore abstracts.     *)
(* The main goroutine stores the static documents, starts the listener,    *)
(* waits for a signal and shuts down; every accepted request has its own   *)
(* goroutine, which makes one Set or Get and answers.  A request of the    *)
(* model is sent once.                                                     *)
(***************************************************************************)
EXTENDS Integers, Sequences, FiniteSets

CONSTANTS
    Requests,
    Main,              \* the main goroutine, as a caller of the storage
    None,
    Keys,              \* keys: the segments between the dots of a string
    Ids,               \* what clients ask for, segmented alike
    GeneratedKeys,     \* what KeyGenerator.Generate may return
    Chunks,            \* what texts consist of
    Bodies,            \* what clients send: sequences of chunks
    MaxLength,         \* config.MaxLength, in chunks; 0 is no limit
    StaticDocs,        \* config.Documents: a sequence of [key, content]
    Kinds,             \* the kinds of requests that are sent
    RateLimiting,      \* config.RateLimiting.Enable
    Backends,          \* the storage types a configuration may name
    StorageFails       \* whether the storage ever fails of its own accord

Lookup(id) == <<id[1]>>             \* strings.Split(id, ".")[0]
TooLong(content) == MaxLength > 0 /\ Len(content) > MaxLength
Contents == {b \in Bodies : ~TooLong(b)} \cup {<<>>}
                \cup {StaticDocs[i].content : i \in 1..Len(StaticDocs)}

ASSUME ServerConstants ==
    /\ IsFiniteSet(Requests) /\ Requests \cap 1..Len(StaticDocs) = {}
    /\ Main \notin Requests /\ None \notin Keys
    /\ \A id \in Ids : id # <<>> /\ Lookup(id) \in Keys
    /\ GeneratedKeys \subseteq Keys
    /\ Bodies \subseteq Seq(Chunks)
    /\ StaticDocs \in Seq([key : Keys, content : Seq(Chunks)])
    /\ MaxLength \in Int
    /\ Kinds \subseteq {"get", "head", "post", "log", "page"}
    /\ RateLimiting \in BOOLEAN
    /\ Backends \subseteq {"file", "redis", "memcached", "mongodb", "postgres", "s3"}
    /\ StorageFails \in BOOLEAN

VARIABLES
    docs, calls,       \* the storage and the calls into it
    backend,           \* the storage type
    storeOpen,         \* Close has not been called
    late,              \* the callers whose call began after Close
    phase,             \* where the main goroutine is
    loaded,            \* static documents stored so far
    listener,          \* the goroutine in Start: "off" until it is launched
    expired,           \* the five seconds of Shutdown's context are over
    req,               \* [Requests -> the request]
    created, read      \* the two Prometheus counters

storeVars == <<docs, calls, late>>
mainVars == <<phase, loaded>>
closing == <<backend, storeOpen>>
counters == <<created, read>>
vars == <<docs, calls, backend, storeOpen, late, phase, loaded, listener,
          expired, req, created, read>>

Callers == Requests \cup {Main}
Store == INSTANCE PasteStore WITH Procs <- Callers, Values <- Contents

NewRequest == [st |-> "new", kind |-> "get", id |-> None, body |-> <<>>,
               key |-> None, code |-> 0, data |-> <<>>]

Init ==
    /\ Store!Init
    /\ backend \in Backends
    /\ storeOpen = TRUE
    /\ late = {}
    /\ phase = "loading"
    /\ loaded = 0
    /\ listener = "off"
    /\ expired = FALSE
    /\ req = [r \in Requests |-> NewRequest]
    /\ created = 0
    /\ read = 0

Alive == phase \notin {"killed", "exited"}
InProgress(r) == req[r].st \in {"accepted", "storing", "loading"}

-----------------------------------------------------------------------------
(* The storage, as its callers meet it. *)

\* What Close does: nothing that later calls would notice (the memcached client
\* connects anew), drop the connections, or refuse to hand out connections and
\* wait for those in use.
CloseKind ==
    CASE backend \in {"file", "s3", "memcached"} -> "nothing"
      [] backend = "redis" -> "drops"
      [] backend \in {"mongodb", "postgres"} -> "waits"

\* A write may be torn, sent again by the client, or vanish.
Tears == StorageFails /\ backend = "file"
Resends == StorageFails /\ backend \in {"redis", "s3"}
Loses == StorageFails /\ backend \notin {"file", "s3"}

Begin(p, op, k, v) ==
    /\ Store!Call(p, op, k, v)
    /\ late' = IF storeOpen THEN late ELSE late \cup {p}

\* A closed store refuses what begins later, unless its Close did nothing.
Reachable(p) == p \notin late \/ CloseKind = "nothing"

\* A call that began in time may fail: because the storage does, or because
\* Close takes its connection away or does not let it have another one.
MayFail == StorageFails \/ (CloseKind # "nothing" /\ ~storeOpen)

\* A call takes effect; its reply may be lost, and it may be sent again.
StoreWorks(p) ==
    /\ Reachable(p)
    /\ \/ Store!Read(p)
       \/ /\ Store!Apply(p)
          /\ calls'[p].err => MayFail
          /\ calls'[p].st = "pending" => Resends

StoreFails(p) ==
    \/ (~Reachable(p) \/ MayFail) /\ Store!Refuse(p)
    \/ Reachable(p) /\ Tears /\ Store!Tear(p)
    \/ Reachable(p) /\ Loses /\ Store!Miss(p)
    \/ MayFail /\ Store!Spoil(p)

StoreStep(p) ==
    /\ StoreWorks(p) \/ StoreFails(p)
    /\ UNCHANGED <<closing, late, mainVars, listener, expired, req, counters>>

\* Pastes expire, or the storage loses them.
Lose(k) ==
    /\ Loses
    /\ Store!Vanish(k)
    /\ UNCHANGED <<closing, late, mainVars, listener, expired, req, counters>>

-----------------------------------------------------------------------------
(* server.go: the routes.  Every request is served in its own goroutine. *)

\* The listener hands a connection over; the handler has not read the body.
Accept(r) ==
    /\ listener = "on"
    /\ req[r].st = "new"
    /\ \/ \E kind \in Kinds \cap {"get", "head"}, id \in Ids :
             req' = [req EXCEPT ![r].st = "accepted", ![r].kind = kind, ![r].id = id]
       \/ \E kind \in Kinds \cap {"post", "log"}, body \in Bodies :
             req' = [req EXCEPT ![r].st = "accepted", ![r].kind = kind, ![r].body = body]
       \/ "page" \in Kinds /\ req' = [req EXCEPT ![r].st = "accepted", ![r].kind = "page"]
    /\ UNCHANGED <<storeVars, closing, mainVars, listener, expired, counters>>

Reply(r, code, data) ==
    req' = [req EXCEPT ![r].st = "answered", ![r].code = code, ![r].data = data]

\* The rate limiter, which is before all routes, has counted too many requests.
Limit(r) ==
    /\ RateLimiting /\ req[r].st = "accepted"
    /\ Reply(r, 429, <<>>)
    /\ UNCHANGED <<storeVars, closing, mainVars, listener, expired, counters>>

\* /metrics, /health, and "/*": a static file, or index.html for any other
\* path.  None of them asks the storage.
ServePage(r) ==
    /\ req[r].st = "accepted" /\ req[r].kind = "page"
    /\ Reply(r, 200, <<>>)
    /\ UNCHANGED <<storeVars, closing, mainVars, listener, expired, counters>>

-----------------------------------------------------------------------------
(* handler/document.go: the handlers. *)

\* HandleGet and HandleRawGet up to their Store.Get.
StartGet(r) ==
    LET key == Lookup(req[r].id) IN
    /\ req[r].st = "accepted" /\ req[r].kind \in {"get", "head"}
    /\ Begin(r, "get", key, <<>>)
    /\ req' = [req EXCEPT ![r].st = "loading", ![r].key = key]
    /\ UNCHANGED <<closing, mainVars, listener, expired, counters>>

\* ... and after it: a HEAD is not counted, and "" is "not found".
FinishGet(r) ==
    LET data == calls[r].val IN
    /\ req[r].st = "loading"
    /\ Store!Return(r)
    /\ \/ /\ data = <<>> \/ calls[r].err
          /\ Reply(r, 404, <<>>)
          /\ UNCHANGED read
       \/ /\ data # <<>> /\ ~calls[r].err
          /\ IF req[r].kind = "head" THEN Reply(r, 200, <<>>) /\ UNCHANGED read
             ELSE Reply(r, 200, data) /\ read' = read + 1
    /\ UNCHANGED <<closing, late, mainVars, listener, expired, created>>

\* readBody: a body that cannot be read is an error, but a form that cannot be
\* parsed, or that has no "data", is the empty paste.
ReadableAs(r) == {req[r].body, <<>>}

RejectBody(r) ==
    /\ req[r].st = "accepted" /\ req[r].kind \in {"post", "log"}
    /\ \/ Reply(r, 500, <<>>)
       \/ \E content \in ReadableAs(r) : TooLong(content) /\ Reply(r, 400, <<>>)
    /\ UNCHANGED <<storeVars, closing, mainVars, listener, expired, counters>>

\* Mutant of StartSet: the length is not checked before the Set.
StartSetUnchecked(r) ==
    /\ req[r].st = "accepted" /\ req[r].kind \in {"post", "log"}
    /\ \E content \in ReadableAs(r), key \in GeneratedKeys :
          /\ Begin(r, "set", key, content)
          /\ req' = [req EXCEPT ![r].st = "storing", ![r].key = key, ![r].body = content]
    /\ UNCHANGED <<closing, mainVars, listener, expired, counters>>

\* HandlePost and HandlePutLog up to their Store.Set.
StartSet(r) ==
    /\ req[r].st = "accepted" /\ req[r].kind \in {"post", "log"}
    /\ \E content \in ReadableAs(r), key \in GeneratedKeys :
          /\ ~TooLong(content)
          /\ Begin(r, "set", key, content)
          /\ req' = [req EXCEPT ![r].st = "storing", ![r].key = key, ![r].body = content]
    /\ UNCHANGED <<closing, mainVars, listener, expired, counters>>

\* Mutant of FinishSet: the handler does not wait for Set.
FinishSetEarly(r) ==
    /\ req[r].st = "storing"
    /\ Reply(r, 200, <<>>)
    /\ created' = IF req[r].kind = "post" THEN created + 1 ELSE created
    /\ UNCHANGED <<storeVars, closing, mainVars, listener, expired, read>>

\* Mutant of FinishSet: a Set that has failed is called again.
FinishSetRetries(r) ==
    /\ req[r].st = "storing" /\ calls[r].st = "done"
    /\ IF calls[r].err
       THEN /\ calls' = [calls EXCEPT ![r].st = "pending", ![r].val = req[r].body]
            /\ UNCHANGED <<docs, req, created>>
       ELSE /\ Store!Return(r)
            /\ Reply(r, 200, <<>>)
            /\ created' = IF req[r].kind = "post" THEN created + 1 ELSE created
    /\ UNCHANGED <<closing, late, mainVars, listener, expired, read>>

\* ... and after it: the error of Set is dropped and the key is sent back.
FinishSet(r) ==
    /\ req[r].st = "storing"
    /\ Store!Return(r)
    /\ Reply(r, 200, <<>>)
    /\ created' = IF req[r].kind = "post" THEN created + 1 ELSE created
    /\ UNCHANGED <<closing, late, mainVars, listener, expired, read>>

HandlerStep(r) ==
    \/ Limit(r) \/ ServePage(r)
    \/ StartGet(r) \/ FinishGet(r) \/ RejectBody(r) \/ StartSet(r) \/ FinishSet(r)

-----------------------------------------------------------------------------
(* cmd/main.go and server.go: the main goroutine and the one it starts. *)

\* The process ends, with its goroutines wherever they are.
End(how) ==
    /\ phase' = how
    /\ listener' = "off"
    /\ calls' = [p \in Callers |-> Store!Idle]
    /\ late' = {}
    /\ UNCHANGED <<docs, loaded>>

\* The loop over cfg.Documents.
LoadDocument ==
    /\ phase = "loading" /\ loaded < Len(StaticDocs)
    /\ Begin(Main, "set", StaticDocs[loaded + 1].key, StaticDocs[loaded + 1].content)
    /\ UNCHANGED <<closing, mainVars, listener, expired, req, counters>>

DocumentLoaded ==
    /\ phase = "loading" /\ ~calls[Main].err
    /\ Store!Return(Main)
    /\ loaded' = loaded + 1
    /\ UNCHANGED <<closing, late, phase, listener, expired, req, counters>>

\* log.Fatal: a document that cannot be read or stored, an unknown key
\* generator or log level.
BootFails ==
    /\ phase = "loading"
    /\ calls[Main].st = "idle" \/ (calls[Main].st = "done" /\ calls[Main].err)
    /\ End("killed")
    /\ UNCHANGED <<closing, expired, req, counters>>

\* go srv.Start()
Launch ==
    /\ phase = "loading" /\ loaded = Len(StaticDocs)
    /\ calls[Main].st = "idle"
    /\ phase' = "starting"
    /\ listener' = "starting"
    /\ UNCHANGED <<storeVars, closing, loaded, expired, req, counters>>

\* ListenAndServe: it cannot bind (fatal), it listens, or it finds that
\* Shutdown has already been called.
Listen ==
    /\ listener = "starting"
    /\ \/ End("killed")
       \/ /\ listener' = IF phase = "draining" THEN "closed" ELSE "on"
          /\ UNCHANGED <<storeVars, mainVars>>
    /\ UNCHANGED <<closing, expired, req, counters>>

\* signal.Notify
Notify ==
    /\ phase = "starting"
    /\ phase' = "serving"
    /\ UNCHANGED <<storeVars, closing, loaded, listener, expired, req, counters>>

\* SIGTERM or SIGINT: before Notify it ends the process where it stands.
\* Afterwards main makes a context of five seconds and calls Shutdown, which
\* closes the storage first.
Signal ==
    \/ /\ phase \in {"loading", "starting"}
       /\ End("killed")
       /\ UNCHANGED <<closing, expired, req, counters>>
    \/ /\ phase = "serving"
       /\ phase' = "closing"
       /\ storeOpen' = FALSE
       /\ UNCHANGED <<storeVars, backend, loaded, listener, expired, req, counters>>

\* s.storage.Close() returns.  It has no deadline.
StorageClosed ==
    /\ phase = "closing"
    /\ CloseKind = "waits" =>
          \A p \in Callers \ late : calls[p].st # "pending"
    /\ phase' = "draining"
    /\ listener' = IF listener = "on" THEN "closed" ELSE listener
    /\ UNCHANGED <<storeVars, closing, loaded, expired, req, counters>>

DeadlinePasses ==
    /\ phase \in {"closing", "draining"} /\ ~expired
    /\ expired' = TRUE
    /\ UNCHANGED <<storeVars, closing, mainVars, listener, req, counters>>

\* Mutant of Drained: server.Close instead of server.Shutdown.
DrainedAtOnce ==
    /\ phase = "draining"
    /\ End("exited")
    /\ UNCHANGED <<closing, expired, req, counters>>

\* Mutant of Drained: Shutdown gets a context without a deadline.
DrainedPatiently ==
    /\ phase = "draining"
    /\ \A r \in Requests : ~InProgress(r)
    /\ End("exited")
    /\ UNCHANGED <<closing, expired, req, counters>>

\* s.server.Shutdown(ctx) returns: no request is in progress, or the context
\* is done and those that are get cut off with the process.
Drained ==
    /\ phase = "draining"
    /\ (\A r \in Requests : ~InProgress(r)) \/ expired
    /\ End("exited")
    /\ UNCHANGED <<closing, expired, req, counters>>

MainStep ==
    \/ LoadDocument \/ DocumentLoaded \/ BootFails \/ Launch \/ Listen \/ Notify
    \/ Signal \/ StorageClosed \/ DeadlinePasses \/ Drained

Next ==
    \/ /\ Alive
       /\ \/ \E r \in Requests : Accept(r) \/ HandlerStep(r)
          \/ \E p \in Callers : StoreStep(p)
          \/ MainStep
    \/ \E k \in Keys : Lose(k)

Spec == Init /\ [][Next]_vars

\* The scheduler runs the main goroutine, and time passes.  Where Close waits
\* for the calls in progress, the connections they use answer or break.
Fairness ==
    /\ WF_vars(StorageClosed) /\ WF_vars(DeadlinePasses) /\ WF_vars(Drained)
    /\ WF_vars(CloseKind = "waits" /\ \E p \in Callers : StoreStep(p))

\* The goroutines of the requests, and the storage they call.  Each takes a few
\* steps, so that to run one of them whenever one can be is to run them all.
Progress ==
    Alive /\ (\E r \in Requests : HandlerStep(r) \/ \E p \in Callers : StoreStep(p))

FairSpec == Spec /\ Fairness

-----------------------------------------------------------------------------
(* The type invariant. *)

RequestType ==
    [st : {"new", "accepted", "storing", "loading", "answered"},
     kind : {"get", "head", "post", "log", "page"}, id : Ids \cup {None},
     body : Bodies \cup {<<>>}, key : Keys \cup {None}, code : {0, 200, 400, 404, 429, 500},
     data : Seq(Chunks)]

\* Every variable has its type, a request that is being served has the call its
\* handler waits for, and no other goroutine is inside the storage.
TypeOK ==
    /\ backend \in Backends /\ storeOpen \in BOOLEAN /\ expired \in BOOLEAN
    /\ late \subseteq Callers
    /\ phase \in {"loading", "starting", "serving", "closing", "draining",
                  "killed", "exited"}
    /\ loaded \in 0..Len(StaticDocs)
    /\ listener \in {"off", "starting", "on", "closed"}
    /\ req \in [Requests -> RequestType]
    /\ created \in 0..Cardinality(Requests) /\ read \in 0..Cardinality(Requests)
    /\ Alive => \A r \in Requests :
          calls[r].st # "idle" <=> req[r].st \in {"storing", "loading"}

-----------------------------------------------------------------------------
(* Properties. *)

Posted(r) == req[r].kind \in {"post", "log"} /\ req[r].key # None
Served(r) == req[r].kind = "get" /\ req[r].code = 200

\* Who has ever called Set for key k: requests and the static documents.
Writers(k) ==
    {r \in Requests : Posted(r) /\ req[r].key = k}
        \cup {i \in 1..loaded + 1 : i <= Len(StaticDocs) /\ StaticDocs[i].key = k}

ContentOf(w) == IF w \in Requests THEN req[w].body ELSE StaticDocs[w].content

\* What a client is shown under an id is, up to a torn write of the storage, a
\* paste within the limit that was posted under the key in front of the id's
\* first dot, or that key's static document: never another paste, never a paste
\* that was refused.  Only a file that two Sets have written may mix them.
ReadsComeFromPosts ==
    \A r \in Requests :
        Served(r) /\ (backend = "file" => Cardinality(Writers(Lookup(req[r].id))) <= 1) =>
        \E w \in Writers(Lookup(req[r].id)) :
            /\ w \in Requests => ~TooLong(ContentOf(w))
            /\ \E n \in 1..Len(ContentOf(w)) : req[r].data = SubSeq(ContentOf(w), 1, n)
            /\ ~StorageFails => req[r].data = ContentOf(w)

\* A paste does not change: two clients that are shown something under a key
\* that was generated once are shown the same, whatever extension each asked
\* for and however long the storage takes.
ReadsAgree ==
    \A r1, r2 \in Requests :
        /\ Served(r1) /\ Served(r2)
        /\ Lookup(req[r1].id) = Lookup(req[r2].id)
        /\ Cardinality(Writers(Lookup(req[r1].id))) = 1
        => req[r1].data = req[r2].data

\* While the storage is healthy and open, what the server has acknowledged is
\* there in full, as long as the generator has not repeated the key.
AckedIsKept ==
    ~StorageFails /\ storeOpen =>
        /\ \A r \in Requests :
              Posted(r) /\ req[r].code = 200 /\ Writers(req[r].key) = {r}
                  => docs[req[r].key] = req[r].body
        /\ \A i \in 1..loaded :
              Writers(StaticDocs[i].key) = {i}
                  => docs[StaticDocs[i].key] = StaticDocs[i].content

\* A request that has been accepted is answered if the goroutines run and the
\* storage answers, though a shutdown begins meanwhile, or the listener comes up
\* only after the signal: unless the five seconds pass, or the signal comes
\* before main waits for it.
AcceptedIsAnswered ==
    WF_vars(Progress) =>
        \A r \in Requests :
            InProgress(r) ~> ~InProgress(r) \/ expired \/ phase = "killed"

\* A shutdown ends the process: after the five seconds even a handler that is stuck in the
\* storage does not hold it up, unless Close waits for that very call.
ShutdownCompletes == phase = "closing" ~> ~Alive

\* README.md:27, the URL that is sent back is one "containing the contents".
\* The error of Set is ignored (document.go:118 and 142), and server.go:105
\* closes the storage while requests are still accepted and served.
AckedIsStored ==
    \A r \in Requests :
        Posted(r) /\ req[r].code = 200 /\ ~StorageFails
            /\ Writers(req[r].key) = {r} => docs[req[r].key] = req[r].body
=============================================================================
