# Formal model of hastebin-ansi

TLA+ models of the paste server in this repository, the TLC configurations that
check them, and proofs that TLAPS checks. Sources are named by their path under
the repository; `document.go` is `handler/document.go`, `server.go` is
`internal/server/server.go`, `main.go` is `cmd/main.go`, and the adapters are the
files of `internal/storage`.

## 1. Inventory

| Component | State it keeps | Operations | Talks to |
|---|---|---|---|
| Storage interface, `storage.go` | none | `Set(key, value, skip_expiration)`, `Get(key, skip_expiration)`, `Close` | called by the handlers, by `main.go` for static documents, by `Server.Shutdown` |
| File, `file.go` | one file per hashed key | create and write; read to the end | the file system |
| Redis, `redis.go` | client; keys with a TTL on the server | `SET PX`; `GET` then `EXPIRE` | Redis |
| Memcached, `memcached.go` | client; items with an exptime | `set`; `get` then `replace` | memcached |
| MongoDB, `mongodb.go` | client; documents with a unique key and a date, TTL index | `InsertOne`; `FindOne` then `DeleteOne` or `UpdateOne` | MongoDB |
| PostgreSQL, `postgres.go` | pool; table `entries` with a serial id | upsert; `SELECT` then `DELETE` or `UPDATE` by id | PostgreSQL |
| S3, `s3.go` | uploader, downloader with a retryer; objects | upload; download | S3 |
| Document handlers, `document.go` | two Prometheus counters | `HandleGet`, `HandleRawGet`, `HandlePost`, `HandlePutLog`, `readBody` | one storage call and one key per request |
| HTTP server, `server.go` | router, `http.Server`, the storage | the routes with rate limiter, health, metrics and static files; `Start`, `Shutdown` | handlers, storage |
| Main program, `main.go` | configuration, the storage, the signal channel | load the configuration, store the static documents, start, wait for a signal, shut down | everything above |
| Key generators, `internal/keygenerator` | none | `Generate` (random, phonetic) | the random source |
| Configuration, `config/config.go` | the `Config` value | defaults, file, environment | environment, file |
| Browser application, `static/application.js`, `index.html` | the present `haste_document`, text area, shown box, address and history | new, load, save, duplicate, raw, pop | the handlers, by Ajax |
| ANSI filter, `static/ansi-to-html.js` | a stack of open tags, sticky over lines | `toHtml` | the browser application |
| Assets and packaging | none | none | none |

How they interact. `main` builds one storage and one handler, stores the static
documents itself, and starts the HTTP server in a second goroutine. Every request
has a goroutine that makes at most one `Set` or `Get`. The adapters share nothing
but their client; what two calls share is the external store, and several of the
calls are two exchanges with it without a transaction. On a signal the main
goroutine closes the storage first and the listener second.

What is hard here, and what makes each part correct:

- **Adapters.** A `Get` that reads, decides and then refreshes, writes back or
  deletes; clocks that are read before they are used; units of time that differ by
  adapter; retries by the client libraries; a crash half way. Correct: a key never
  shows what was not given to it; nothing that is current is removed but by a race
  that can be named; a successful `Get` answers what was there at some instant of
  the call, and a `Set` takes effect at some instant of the call.
- **Handlers and server.** Requests race with each other, with the launch of the
  listener and with the shutdown; the error of `Set` is dropped; keys are cut at a
  dot when read only. Correct: clients see only accepted pastes of the key they
  asked for, two readers agree, what is acknowledged is there, a shutdown ends and
  leaves nobody without an answer unless its deadline passes.
- **Browser application.** Answers to requests that were superseded. Correct:
  what is shown, the title, the address and the document agree.
- **ANSI filter.** A loop over fourteen patterns and a stack of open tags.
  Correct: the output is well nested, text reads as it was written, and only escape
  sequences are missing.
- **Configuration, key generators.** Pure. Correct: precedence of the sources,
  keys of the length and alphabet asked for.
- **Starts and restarts.** The constructors create what they need in a storage
  that an earlier life has used, documents are stored again at every start, and a
  start may fail half way. Correct: a start fails only for a reason an operator can
  know, it does no harm to what is stored, and the documents that were written down
  are there.

`PROJECT.json` lists these under `components`, and under `hazards` each place in
the code where one of the difficulties bites.

## 2. Plan

Most important behaviour first.

1. *Done.* `Storage` and the six adapter modules, composed by `Backends`; the
   abstract `PasteStore` and the refinement `Backends => PasteStore`; `HasteServer`
   over `PasteStore`; `HasteApp`, the browser application; the proofs of `Typing`
   and `NoForeignContent` for the storage, `AppTyping` and `ShownIsPosted` for the
   page.
2. *Done.* `Config` and `KeyGenerator`, the pure parts of a start; `Boot`, the lives
   of a server over a storage that persists; `AnsiFilter`, with the proofs of
   `OnlyEscapesAreLost` and `AllIsRead`; the routes and the rate limiter in
   `HasteServer`; `ViewsProlong`, what a refresh may do to a deadline.
3. *Done.* Proofs of what the runs check: every safety invariant of `Backends`,
   `HasteServer`, `HasteApp`, `Boot` and `AnsiFilter`, the action properties, and the
   refinement `Backends => PasteStore`.
4. *Next.* What `Config` and `KeyGenerator` compute, as lemmas of their own.

## 3. Modules

| Module | Stands for |
|---|---|
| `Storage` | the interface, the state the adapters act on, time, failures, crashes |
| `FileStorage` ... `S3Storage` | one adapter each, with the part of its server it depends on |
| `Backends` | the switch of `handleConfig` over the adapters, expiry in the servers, all properties of the storage |
| `PasteStore` | abstract: what a caller of the interface may rely on |
| `HasteServer` | routes, handlers, listener and shutdown over an `INSTANCE` of `PasteStore` |
| `Config` | `NewConfig`, as a function of what a process finds |
| `KeyGenerator` | the keys that `Generate` may return |
| `Boot` | `handleConfig` and the constructors, over the lives of a server; extends `Config` and `KeyGenerator` |
| `AnsiFilter` | the filter that makes tags of escape sequences |
| `HasteApp` | one page of the browser application, with the server it asks |
| `Backends_proofs`, `BackendsSteps_proofs` | theorems about the storage: its invariants; its action properties and the refinement |
| `HasteServer_proofs`, `HasteContents_proofs` | theorems about the server: its types; what is stored and shown |
| `Boot_proofs`, `HasteApp_proofs`, `AnsiFilter_proofs` | theorems about the start, the page and the filter |
| `Induction` | induction over numbers and sequences, and lemmas about folds and `FlattenSeq` |
| `MCBackends`, `MCHasteServer`, `MCHasteApp`, `MCBoot`, `MCAnsiFilter` | instances for TLC |

**Storage state.** `rows[k]` is what the file system or server holds under a key:
its content, its deadline (0 for none) and, for PostgreSQL, its id. `call[p]` is
the call goroutine `p` is in: `pc` says which exchange comes next (`called`: the
first; `opened`: a file is open; `fetched`: a `Get` has read a current row and
goes on to refresh it; `overdue`: it has read an expired one and goes on to
delete it; `returned`), `val` and `row` what it has read, and `at` the clock
reading it took for a later exchange. One exchange is one action, so every
interleaving of two adapters' exchanges is a behaviour. `given` is a history
variable, the values handed to `Set` by key.

**Time.** The program's unit is the nanosecond. A tick stands for it, and
`TicksPerMilli` and `TicksPerSecond` for the roundings of go-redis, of BSON dates
and of Unix seconds. `cfg.Expiration` is used in the unit each adapter really
uses: ticks in Redis, MongoDB and PostgreSQL, seconds in memcached, none in
file and S3. The int32 of memcached wraps at `2 * Int32Half`. An expiration may be
negative, which nothing in the code excludes: go-redis takes -1 for `KeepTTL` and other
negative durations for none, and EXPIRE deletes; MongoDB and PostgreSQL get a deadline
in the past, memcached an item that is expired at once.

**Failures.** `Fail` is an exchange that fails without effect at the places where
the adapter returns its error; lost replies are the choice of the answer in each
`Set`; `FileWriteShort` is a full disk; go-redis (`SendAgain`: SET, and EXPIRE, which
may take effect several times) and the S3 client (`TryAgain`) send a command again, as
often as their defaults allow. `Crash` loses the calls and keeps the rows. Memcached evicts.

**The abstract store.** `PasteStore` is one lossy register per key: a `Set` takes
effect between its call and its return (several times if it is resent), may be
torn, may report an error though it took effect; a `Get` returns what the
register held, or nothing. The refinement maps `call` by `SettledCall`: a call is
pending until the exchange that settles what it answers, after which refreshes
are stutters (or, where they take the content away, `Vanish`).

**Server state.** `phase` is the main goroutine (`loading` the static documents,
`starting`, `serving` once `signal.Notify` is called, `closing` inside
`storage.Close`, `draining` inside `http.Server.Shutdown`, then `exited`, or
`killed` by a signal or `log.Fatal`). `listener` is the goroutine of `Start`.
`req[r]` is a request: the handler's position, what was asked, the answer.
`docs` and `calls` are the abstract store's. `late` are the callers whose call
began after `Close`, which every adapter but file, S3 and memcached refuses;
`CloseKind` gives each adapter's `Close`. The storage fails only as its type can:
`Tears` (file), `Resends` (Redis, S3), `Loses` (the four servers that expire).

**Boot state.** A `Deployment` is what a starting process finds: the file, the
environment, the list of documents, the `DOCUMENTS_` variables with their paths cut
at every `=`, and what is at each path. `deployment` is what the next start will
find and `asked` what the present life has found; `cfg`, `type` and `docs` are
computed from `asked` by `Config`. `phase` is the place in `handleConfig`:
`constructing`, `indexing` (MongoDB, between the collection and its indexes),
`loading` the document after the `loaded` ones that are stored, `serving`; `down`
after a signal or crash and `fatal` after `log.Fatal` or a panic. `rows` is what
each place holds, a place being a storage type with its host and its database,
bucket or path; `made` are the places whose directory, collection, table or bucket
exists. `mortal` rows may be lost, by their deadline or by eviction. `strict` is a
server that refuses to create what exists: a MongoDB server before 7.0, and S3
outside us-east-1. `posted`, `gone` and `owed` are history variables. An operator
changes one deployment for another of the same plan (`Plans`). A document's `Set`
is one step here, since `Backends` has its exchanges; what the process does in
service is reduced to the pastes it stores, which the next life meets.

**Filter state.** `at` is how much of the paste the loop of `tokenize` has removed,
`stack` the open tags, `buf` the pieces of the output, `shown` (history) the
positions that were handed to the callback as text. A turn of the loop is one step:
the first of the fourteen handlers whose pattern matches a prefix of what is left
takes the longest one. A pattern is a predicate on texts. Characters that HTML or
the patterns tell apart are kept, all others are `Letters`, and the name of an
entity (`amp;`) is one character, which a paste may contain too.

**Page state.** `doc` is the present `haste_document`, `view` what the page shows
(`area`, `box`, or `blank` before the first answer), `history` and `pos` the
tab's addresses. A JavaScript handler or callback runs to its end, so each is one
action; the interleaving is that of handlers with answers. `ajax` holds the
requests under way. An object that is no longer `app.doc` is never read again, so
a request only remembers whether its object still is (`mine`); the callbacks
change the page either way, as in the code. `upset` is a history variable: it is
set when the user goes on before an answer, by back and forward in the first
second (`index.html:45`), and when highlight.js throws; a reload clears it. The
server of this module is reduced to what `HasteServer` shows of it. `posted` is a
history variable, the texts it was given under each key: a save may draw any key, used
or not, and a 200 does not mean that the text is stored, in full or at all (`Torn`). A
load is answered with some text that was posted under the key
(`ReadsComeFromPosts` of `HasteServer`), or with an error, whatever was posted, since
pastes expire and are lost. Files that two writers have mixed, which that property
excepts, are excepted here too.

## 4. Runs

| Run | Question | Bounds |
|---|---|---|
| `storage` | Do all six adapters keep contents genuine, delete early only by a race, shorten a life by a view only where it is named, and implement `PasteStore`? | 1 key, 2 callers, 2 contents, clock 8..11 with a second of 2 ticks, expirations of -1, 0, below and above a second, and one above the int32 |
| `storage_rewritten` | Do file and memcached keep keys apart when keys are set again? | 2 keys, 2 callers, clock 8..9 |
| `server` | Do clients see accepted pastes only, and agree, over a store that fails in its own ways? | 3 requests, one dotted key, a body over the limit, a static document, file and Redis |
| `server_shutdown` | Is what was acknowledged there until `Close`, does a shutdown end, and is what was accepted answered? | 2 requests of all five kinds, rate limiter on, all six types, healthy storage, fairness |
| `page` | Does the page show what its title names, do page, document and address agree, does a page come up? | 2 keys, 2 texts of which one may be torn, 2 requests under way, 2 entries of history, 5 first addresses, fairness |
| `boot` | Are documents where they should be and pastes safe over restarts, why may a start fail, does the server come into service? | 6 plans, one for each storage type, of two sound deployments and one to three others, one change of the configuration, 4 keys, 1 paste, any number of lives, fairness |
| `ansi` | Does the output nest, read as it was written, and lose nothing but escape sequences? | every paste of up to 3 of 24 pieces |
| `zero_expires`, `expire_unit`, `stale_delete`, `acked_lost`, `page_stale` | disagreements, section 6 | as above, smaller |

Why the bounds are enough. Two callers on one key make every race between two
calls, since an adapter looks at one key only; the second key of
`storage_rewritten` is there for answers that could be given under the wrong one.
The clock starts at 8 so that an expiration of 9 is an absolute date in the past
or, after the wrap, negative, for memcached, and runs over two full seconds, so a
row of 1 tick can be stored, be refreshed and expire, and one of 3 be refreshed or
expire. With 0 and -1 Redis stores for good, and the first view deletes.
`MaxRows` bounds the serial numbers: two rows are one deletion and one
reinsertion. Three requests are a write and two reads, or two writes and a read.
A second chunk in a content is enough for a torn or mixed file. For the page, two
requests under way are an answer and one that overtakes it, two keys that of a paste
that exists and one that is free, either of which a save may draw, and the first addresses are "/", a paste without an
extension, with one the map translates, with one highlight.js does not know, and
a missing paste. For `boot`, the deployments of a plan are: documents and storage type
given by the file; by the environment over a file of another type, with two
documents of one key; and edges, among them a length of 0 and of -1, a path with an
`=`, a variable that does not parse, a document that is not there, a parent directory
that is not there, and an unknown type, generator and log level. One change takes a
server from any of them to any other of its plan, with whatever the first has left
behind, and the number of lives is not bounded. The keys are the empty one, "a" and
"b", which are documents' keys and a generator's of one letter, and "ab", which one
of two letters makes. For `ansi`, the pieces are whole sequences, sequences
that are cut short, and single characters that can complete them, so that three of
them make each pattern match, fail at each place, and meet the next one.
Symmetry is over callers, keys and requests of the first three
runs, which nothing distinguishes; no liveness is checked with it.

`CHECK_DEADLOCK FALSE` is given for all but the page, which has no deadlock: the
clock stops at `MaxTime`, rows at `MaxRows`, the server's process ends, a server in
service that nobody posts to may rest, and the filter returns.

**Fairness.** `server_shutdown`, `page` and `boot` have it. In `server_shutdown`: Weak fairness of `StorageClosed`,
`Drained` and `DeadlinePasses`: the Go scheduler runs the main goroutine and the
timer of its context. Weak fairness of a storage step exists only where `Close`
waits for the calls in progress (PostgreSQL, MongoDB): the code has no deadline
there, so `ShutdownCompletes` holds only as far
as those connections answer or break, which is an assumption about the network
and is stated as such. For `ShutdownCompletes` no handler is assumed to make progress:
the five seconds end the process without it. `AcceptedIsAnswered` states what it
assumes beyond that, that goroutines run and the storage answers, in its own
antecedent. In `page`, a request is answered or the browser reports its failure;
`PageAppears` excludes a user who reloads for ever. In `boot`, a supervisor starts a
process that has ended again (the restart policy of a container) and `handleConfig`
runs; the TTL index of MongoDB removes, some time, a row nobody can view because
nobody is in service. `ComesIntoService` assumes in its antecedent that from some
time on the storage answers, and nobody stops the process or changes its
configuration (`settled`). The filter needs none: it is one call.

**Properties worth naming.** `OnlyStored`: whatever is stored under a key or
answered was handed to `Set` for that key. `EarlyDeletionIsARace`: a row that is
not overdue is removed only by a `Get` that found an earlier state of it overdue,
or by a view on a Redis without a positive expiration (`redis.go:59`).
`ImplementsPasteStore`: the refinement. `ReadsComeFromPosts`, `ReadsAgree`: what
clients see through the handlers. `AckedIsKept`: on a healthy open store an
acknowledged paste is there in full. `AcceptedIsAnswered`, `ShutdownCompletes`:
the end. `ShownUnderItsKey`: what is shown was posted under the key in the title,
whatever comes late. `PageAgrees`: buttons, address and content belong together unless the user
ran ahead, so the late answers are the only cause of disagreement.
`ViewsProlong`: a `Get` never brings a deadline forward, but by the fraction of a
second that EXPIRE drops, or when it writes a deadline it had computed before another
call wrote the row (`postgres.go:81`). `DocumentsAreThere`: in service, the last
document written down for a key is stored under it, but for the expiry and the `=`.
`PastesOutliveRestarts`: no start harms what an earlier life has stored.
`OnlyLeftoversStopAStart`: what makes a start fail with a sound configuration is
what an earlier one has left, and only in three ways. `TagsNest`,
`LostOnlyBehindEscapes`, `NothingIsLeft`, `ReadsAsWritten`: the filter.
Every property has a mutant of a modelled definition that breaks it.

## 5. Proofs

`Backends_proofs` proves, for every value of the constants that satisfies
`StorageConstants` and `MemcachedConstants`, over all adapters at once:

- `Typing`, `Spec => []TypeOK`. The inductive invariant is `TypeInv`, `TypeOK`
  and `OpenedExists`: a file that a call has open exists. Without it the
  content a write overlays would have no type. It holds because the adapter never
  removes a file.
- `NoForeignContent`, `Spec => []OnlyStored`. `GenuineInv` adds that the calls in
  flight hold genuine values too: the value a `Set` brings, the row a `Get` has
  read (which memcached writes back), the file read so far. Each adapter has its
  lemma, and `given` only grows.

`BackendsSteps_proofs` proves, over the same adapters and from the same
assumptions, with `MilliInSecond` (a second is no shorter than a millisecond) and for
every expiration, negative or not (`DeadlinesAfterEpoch`, section 7, is not used):

- `DeletionsAreRaces`, `Spec => EarlyDeletionIsARace`, and `ViewsDoNotShorten`,
  `Spec => ViewsProlong`. Both need `DeadlineInv`: a stored deadline is none that
  could only be computed later than now (`InTime`, adapter by adapter, with its
  roundings), the row a MongoDB or PostgreSQL `Get` has read is as old as the clock
  reading the `Get` has taken, and a row that was found overdue still is, since the
  clock does not go back. So when a deadline is shortened or a row goes early, the row is
  another than the one read.
- `AdaptersImplementPasteStore`, `Spec => ImplementsPasteStore`: every exchange of
  the six adapters, every crash, expiry and eviction is a step of `PasteStore` or a
  stutter. The theorem assumes `SetOnce`, that callers set a key once on file and
  memcached, which is as far as these two implement it (section 7). `OnceInv` then
  says that a key has one content, `FileInv` that a file is empty until its one `Set`
  writes it and that a reader holds nothing of it or all, and `ErrInv` that a call has
  no error before it returns. Each adapter has lemmas for its exchanges,
  which say to which abstract action an exchange maps.

`HasteServer_proofs` proves, from `ServerConstants`, which say that keys, bodies and
documents are what they are called and that the main goroutine is no request:

- `ServerTyping`, `Spec => [](TypeInv /\ TypeOK)`. `TypeInv` adds to the types what a
  handler knows where (`RequestOK`), that the call a goroutine is in is the one its
  handler waits for (`HandlersCall`, `MainCalls`), that there are no calls once
  the process has ended, and that the two counters count the answers.

`HasteContents_proofs` builds on it:

- `ShownWasPosted`, `Spec => []ReadsComeFromPosts`: `WrittenInv` carries it through
  the store and the answers on their way. A torn write leaves the beginning of a
  text, and the first beginning is not the end of it.
- `PastesDoNotChange`, `Spec => []ReadsAgree`. `AgreeInv` follows all that can be seen
  of a key with one writer, in the store, in calls that have read it and at clients:
  it is one text; and as long as its `Set` is in progress there is none, or, where the
  client of a server sends a command again, only that `Set`'s.
- `AcknowledgedIsKept`, `Spec => []AckedIsKept`. `KeptInv` is about the `Set`s that
  have returned, whether or not their handler has taken notice, and needs that the
  main goroutine ends the process when it fails to store a document.

`Boot_proofs` proves, from `BootConstants`, which say that a deployment is what its
description says, for deployments of any number of documents and variables:

- `BootTyping`, `Spec => []TypeOK`. The list of documents a start arrives at is
  computed by a loop over the variables, in the code and as a recursive function here;
  that each round leaves a list of documents is `AllNumbers` of `Induction`, the
  induction principle as a lemma about a set of numbers.
- `PastesOutlive`, `Spec => []PastesOutliveRestarts`, which is inductive together with
  the types, and `NoEmptyKeys`, `Spec => []KeysAreNotEmpty`, which is about what
  `Config` and `KeyGenerator` compute.
- `DocumentsThere`, `Spec => []DocumentsAreThere`. `LoadingInv` is the loop invariant
  of `handleConfig`: of the documents stored so far the last of each key is there,
  unless a paste of that key has come or the row has expired since.
- `LeftoversStopAStart`, `Spec => OnlyLeftoversStopAStart`, by the places where a
  start can fail; `AskedInv` says that a start uses the configuration that is there.

`HasteApp_proofs` proves, from `AppConstants`, which only say that keys, texts,
names and bounds are what they are called, and `LanguageNames`:

- `AppTyping`, `Spec => []TypeOK`. `TypeOK` is inductive: what matters is that a
  pushed address is one that can be asked for (`ExtensionIsName`, for which the
  first entry of the map has to exist) and that the place in the history stays
  inside it when the oldest entry is forgotten (`PushTyped`).
- `ShownIsPosted`, `Spec => []ShownUnderItsKey`, which is inductive together with the
  types, since `posted` only grows (`PostsGrow`). It assumes nothing of the keys the
  server draws and nothing of what it keeps.
- `PageAndAddressAgree`, `Spec => []PageAgrees`. `AgreeInv` says that as long as
  the user waits for answers there is one request at most, and that it belongs to what is
  on the page, so that its answer, its failure and its retry lead back to agreement.
  A save pushes the address that its document will be found under. For that the
  extension has to be read back as the language it came from (`LanguageComesBack`),
  which is what `LanguageNames` assumes of the map in `application.js` and of the names
  highlight.js answers with: a name among them is no extension of another language.

`AnsiFilter_proofs` proves, for pastes of any length, from `PastesAreTexts`, which
only says that pastes consist of the characters the module names and of `Letters`:

- `OnlyEscapesAreLost`, `Spec => []LostOnlyBehindEscapes`, and `AllIsRead`,
  `Spec => []NothingIsLeft`. Both follow from `ScanInv`, which adds that the loop is
  inside the paste and that nothing it has not passed is shown. `WhatIsTaken` goes
  through the handlers: what is taken and not shown is backspaces, or an ESC and
  characters of a sequence. `EveryCharacterMatches` is why the loop cannot give up:
  each character is matched by some handler, if only alone.

- `FilterTyping`, `Spec => []TypeOK`, `TagsAreNested`, `Spec => []TagsNest`, and
  `TextReadsAsWritten`, `Spec => []ReadsAsWritten`, from `OutputInv`, which rests on
  `ScanInv`. It says that the output is one of `Good(html)`, the outputs that are typed,
  nest as their stack says and have the text `html` in them, and that `html` is `Safe`:
  no markup, and a name behind every ampersand. A handler of a sequence stays within
  `Good(html)` (`HandleKeeps`), `AnsiMess` because every step of its fold does and
  `ResetStyles` by induction over the stack (`ClosesAll`); a handler of text leads to
  `Good(html \o Escaped(s))` (`HandleWrites`). That a text is safe is more than that it
  is read as it was, and is needed because what comes next could complete a name:
  safe outputs can be put together (`SafeConcat`, `DecodedConcat`). `EscapedReads` is
  the four replacements of `pushText` for a text of any length.
- What folds and `FlattenSeq` make of one more element is in `Induction`. Both are a
  function that is chosen by its recursive equation; `IterateExists` and
  `FlattenExists` show that there is one, and `IterateIsFold` and `FlattenAgree` that
  all of them agree. `AllSequences` is induction over sequences, as a lemma about a
  set of sequences.

Checked by TLC only is what is out of the prover's reach, liveness under fairness
(`AcceptedIsAnswered`, `ShutdownCompletes`, `ComesIntoService`, `PageAppears`). No module
here declares a RECURSIVE operator.

## 6. Disagreements found

- `zero_expires`: `config.go:92` says 0 means no expiration; on Redis the first
  view deletes the paste (`redis.go:59`).
- `expire_unit`: `README.md:132` gives the expiry in seconds; `main.go:22` makes it
  nanoseconds.
- `stale_delete`: `postgres.go:70` "Delete if expired" deletes a row that was
  stored or refreshed since.
- `acked_lost`: the key of a paste that was not stored is sent back with a 200, for
  instance during the shutdown, where the storage is closed first.
- `page_stale`: `application.js:145` "Remove the current document (if there is one)"; an
  answer that comes after New is shown over the new document, which it does not belong
  to.

Met on the way, in the model or built into the properties as named exceptions, without
a run of their own: `README.md:54-55` says of the static documents "These will never
expire", and they are stored like any paste (`main.go:56`); `README.md:205-207` says of
memcached that `expire` is in seconds, where more than thirty days are read as a date
that has passed (`memcached.go:32`), and that it "does not push expirations forward on
GETs", which `memcached.go:47` does; `application.js:61` "Save this document to the
server and lock it here", where a second save before the first answer, if it fails,
leaves the document locked under the key of one text with the other in it (66, 70);
`application.js:236` "Load a document and show it", where an extension that highlight.js
does not know leaves the page blank (38); `s3.go:54` and `mongodb.go:65` say
"if not exists" of what is created in any case; `README.md:352` describes one variable `DOCUMENTS` with a
list, and the code reads variables that begin with `DOCUMENTS_`.

## 7. Not modelled, and why

- Commands that a server executes after the client has given up on them, and
  replies so slow that the clock moves between the server's answer and the
  adapter's own expiry check: both are one action here.
- One write(2) is taken to be atomic to readers of the file, as POSIX has it; Linux file
  systems such as ext4 do not ensure it. The parts of a paste a reader may meet here come
  from short writes, crashes and a second `Set`, not from a write half done; with the
  latter a successful `Get` could answer a part although nothing has failed.
- Deadlines in the first second of 1970 or before (an expiration of minus fifty years):
  an `exp` of 0 means that there is none (`DeadlinesAfterEpoch`). Sums that overflow the
  64 bits of a duration or a date.
- A DSN that does not parse (`postgres.go:26`) is part of a storage that is not reached
  (`Reached`): both end the start in the same place.
- S3 uploads in several parts (pastes over 5 MB); hash collisions of file names.
- The file and memcached adapters implement `PasteStore` only for keys that are
  set once (`Rewritable` in the run, `SetOnce` in the theorem): a file written by two `Set`s may mix them, and a
  write-back may undo a `Set`. `HasteServer` composes `PasteStore` for repeated
  keys too, so its properties say nothing of a repeated key on these two that
  depends on it: `ReadsComeFromPosts` excepts files with two writers (a
  write-back of memcached is still a paste of that key), `ReadsAgree` and
  `AckedIsKept` are about keys with one writer, and `storage_rewritten` covers
  repeated keys on the adapters themselves.
- The counters of the rate limiter (httprate): it refuses a request or does not.
  Which file a path names, and the contents of `/metrics`.
- Replies to the `Set` of a document that are lost at a start, and what a server
  refuses by itself: keys of more than 250 or 255 bytes, items over a megabyte
  (memcached). A generator with a key space of several-byte letters makes keys that
  are no UTF-8; what JSON makes of them is not modelled.
- `config.yaml` as text, and YAML's own conversions.
- Of the filter: colors, styles, `<br/>` and the sticky stack, which
  `new Filter({})` never uses. A color inside a longer sequence
  (`ESC[1;38;5;9m`) is read as the codes 1, 38, 5 and 9, so as bold, blinking and
  struck out; the model does the same, and nothing in the repository says what it
  should be.
- Of the page: the tab key, labels, messages, line numbers, which buttons are lit
  (the shortcuts reach every action), and Just Text, which leaves the page.
