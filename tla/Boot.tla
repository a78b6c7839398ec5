-------------------------------- MODULE Boot -------------------------------
(***************************************************************************)
(* The lives of a server: handleConfig of cmd/main.go, with NewConfig, the *)
(* constructors of internal/storage and the static documents, over storage *)
(* that outlives the process.  An operator changes the configuration, the  *)
(* storage comes and goes, and a process that has ended is started again.  *)
(*                                                                         *)
(* A Set is one step here, and it works or it has no effect: Backends has  *)
(* its exchanges.  What follows handleConfig is HasteServer's; of a server *)
(* in service only the pastes it stores are kept, since they meet the next *)
(* life.                                                                   *)
(***************************************************************************)
EXTENDS Config, KeyGenerator

CONSTANTS
    Plans,             \* sets of deployments: an operator changes one for another
    Keys,              \* keys of documents and pastes
    Pastes, None,
    Orphans,           \* file paths whose parent directory does not exist
    Levels,            \* the log levels zerolog knows
    MaxChanges         \* bound: changes of the configuration

Deployments == UNION Plans
StorageTypes == {"file", "redis", "memcached", "mongodb", "postgres", "s3"}

\* What may be stored.
Contents == Pastes \cup UNION {{d.content[x] : x \in DOMAIN d.content} : d \in Deployments}
RowType == [val : Contents, mortal : BOOLEAN]

\* What a deployment may be: content is of all paths, None where nothing can be
\* read, and what is not a number does not get through YAML.
Described(d) ==
    /\ d.documents \in Seq([key : Keys, path : DOMAIN d.content])
    /\ d.variables \in Seq([key : Keys, path : Seq(DOMAIN d.content)])
    /\ \A s \in Numbers : /\ s \in DOMAIN d.env => d.env[s] \in Int \cup {Bad}
                          /\ s \in DOMAIN d.file => d.file[s] \in Int

ASSUME BootConstants ==
    /\ None \notin Pastes /\ None \notin RowType
    /\ MaxChanges \in Nat
    /\ \A d \in Deployments : Described(d)

VARIABLES
    deployment,        \* what the next start finds
    asked,             \* what this life, or the last one, has found
    phase,             \* where handleConfig is; "down" or "fatal" without a process
    loaded,            \* static documents stored in this life
    rows,              \* [places -> [Keys -> row or None]]
    made,              \* places whose directory, collection, table or bucket exists
    up,                \* the storage, or its disk, answers
    strict,            \* the server refuses to create what exists
    posted, gone,      \* history: keys of pastes stored, and of rows lost, in this life
    owed,              \* history: [places -> [Keys -> a paste that is to be kept]]
    changes, settled   \* bound; whether the operator has left the server alone

world == <<rows, made, owed>>
operator == <<deployment, up, strict, changes, settled>>
vars == <<deployment, asked, phase, loaded, rows, made, up, strict, posted,
          gone, owed, changes, settled>>

-----------------------------------------------------------------------------
(* What a configuration asks for. *)

cfg == NewConfig(asked)
type == cfg.storage_type
docs == Documents(asked)

\* Where a configuration keeps its pastes.
PlaceOf(c) ==
    <<c.storage_type,
      IF c.storage_type = "file" THEN "" ELSE c.storage_host,
      CASE c.storage_type = "file" -> c.storage_file_path
        [] c.storage_type \in {"mongodb", "postgres"} -> c.storage_database
        [] c.storage_type = "s3" -> c.storage_bucket
        [] OTHER -> "">>
Places == {PlaceOf(NewConfig(d)) : d \in Deployments}
place == PlaceOf(cfg)

Init ==
    /\ deployment \in Deployments
    /\ asked = deployment
    /\ phase = "down"
    /\ loaded = 0
    /\ rows = [p \in Places |-> [k \in Keys |-> None]]
    /\ made = {}
    /\ up \in BOOLEAN
    /\ strict \in BOOLEAN
    /\ posted = {} /\ gone = {}
    /\ owed = [p \in Places |-> [k \in Keys |-> None]]
    /\ changes = 0
    /\ settled = FALSE

-----------------------------------------------------------------------------
(* The storage. *)

\* Mutant of Inserts: the INSERT of PostgreSQL without its ON CONFLICT.
InsertsToo == {"mongodb", "postgres"}

\* The types that refuse a key that is taken: collection.InsertOne.
Inserts == {"mongodb"}

\* The types that drop rows by their deadline, or for want of memory.
Lossy == {"redis", "memcached", "mongodb", "postgres"}

Works(k) ==
    /\ up
    /\ type = "file" => place \in made
    /\ type \in Inserts => rows[place][k] = None

Put(k, val, skip) ==
    rows' = [rows EXCEPT ![place][k] = [val |-> val, mortal |-> ~skip /\ type \in Lossy]]

-----------------------------------------------------------------------------
(* One life. *)

Running == phase \notin {"down", "fatal"}

\* Mutant of Start: an entry that does not parse is passed over.
StartAnyway ==
    /\ ~Running
    /\ asked' = deployment
    /\ phase' = "constructing"
    /\ loaded' = 0
    /\ posted' = {} /\ gone' = {}
    /\ UNCHANGED <<world, operator>>

\* NewConfig, with which every life begins.
Start ==
    /\ ~Running
    /\ asked' = deployment
    /\ phase' = IF Rejected(deployment) THEN "fatal" ELSE "constructing"
    /\ loaded' = 0
    /\ posted' = {} /\ gone' = {}
    /\ UNCHANGED <<world, operator>>

\* Whether a constructor that needs its server reaches it: Ping, ListBuckets.
\* NewFileStorage and NewMemcachedStorage go on without.
Reached == up \/ type \in {"file", "memcached"}

\* RunCommand "create" and CreateBucket, where there is one already.
Refused == strict /\ type \in {"mongodb", "s3"} /\ place \in made

Ensured == IF up /\ ~(type = "file" /\ cfg.storage_file_path \in Orphans)
           THEN made \cup {place} ELSE made

\* Mutant of Construct: the collection is dropped and created again.
ConstructAnew ==
    /\ phase = "constructing"
    /\ type \in StorageTypes /\ Reached
    /\ phase' = IF type = "mongodb" THEN "indexing" ELSE "loading"
    /\ made' = Ensured
    /\ rows' = IF type = "mongodb" THEN [rows EXCEPT ![place] = [k \in Keys |-> None]]
               ELSE rows
    /\ UNCHANGED <<asked, loaded, owed, posted, gone, operator>>

\* The constructor of the storage type: os.Mkdir, whose error is dropped,
\* CREATE TABLE IF NOT EXISTS, or "create" and CreateBucket.
Construct ==
    /\ phase = "constructing"
    /\ type \in StorageTypes /\ Reached /\ ~Refused
    /\ phase' = IF type = "mongodb" THEN "indexing" ELSE "loading"
    /\ made' = Ensured
    /\ UNCHANGED <<asked, loaded, rows, owed, posted, gone, operator>>

\* The two indexes of NewMongoDBStorage, where they exist already or not.
CreateIndexes ==
    /\ phase = "indexing" /\ up
    /\ phase' = "loading"
    /\ UNCHANGED <<asked, loaded, world, posted, gone, operator>>

Content(doc) == asked.content[doc.path]

Loads(skip) ==
    LET doc == docs[loaded + 1] IN
    /\ phase = "loading" /\ loaded < Len(docs)
    /\ Content(doc) # None /\ Works(doc.key)
    /\ Put(doc.key, Content(doc), skip)
    /\ loaded' = loaded + 1
    /\ owed' = [owed EXCEPT ![place][doc.key] = None]
    /\ gone' = gone \ {doc.key}
    /\ UNCHANGED <<asked, phase, made, posted, operator>>

\* Mutant of LoadDocument: the documents are stored without an expiration.
LoadDocumentForGood == Loads(TRUE)

\* Mutant of LoadDocument: the error of Set is dropped, as the handlers do.
LoadDocumentAnyway ==
    \/ Loads(FALSE)
    \/ /\ phase = "loading" /\ loaded < Len(docs)
       /\ Content(docs[loaded + 1]) # None /\ ~Works(docs[loaded + 1].key)
       /\ loaded' = loaded + 1
       /\ UNCHANGED <<asked, phase, world, posted, gone, operator>>

\* A static document is read and stored, with skip_expiration FALSE.
LoadDocument == Loads(FALSE)

\* The switch over cfg.KeyGenerator and zerolog.ParseLevel.
Serve ==
    /\ phase = "loading" /\ loaded = Len(docs)
    /\ cfg.key_generator \in Generators /\ cfg.logging_level \in Levels
    /\ phase' = "serving"
    /\ UNCHANGED <<asked, loaded, world, posted, gone, operator>>

\* log.Fatal, or the panic of NewMongoDBStorage.
Fatal ==
    /\ \/ /\ phase = "constructing"
          /\ type \notin StorageTypes \/ ~Reached \/ Refused
       \/ phase = "indexing" /\ ~up
       \/ /\ phase = "loading" /\ loaded < Len(docs)
          /\ Content(docs[loaded + 1]) = None \/ ~Works(docs[loaded + 1].key)
       \/ /\ phase = "loading" /\ loaded = Len(docs)
          /\ cfg.key_generator \notin Generators \/ cfg.logging_level \notin Levels
    /\ phase' = "fatal"
    /\ UNCHANGED <<asked, loaded, world, posted, gone, operator>>

\* A paste is stored under a generated key.
Post(k, val) ==
    /\ phase = "serving"
    /\ k \in GeneratedKeys(cfg.key_generator, cfg.key_space, cfg.key_length)
    /\ Works(k)
    /\ Put(k, val, FALSE)
    /\ posted' = posted \cup {k}
    /\ owed' = [owed EXCEPT ![place][k] = val]
    /\ UNCHANGED <<asked, phase, loaded, made, gone, operator>>

\* A signal, or a crash.
Stop ==
    /\ Running /\ ~settled
    /\ phase' = "down"
    /\ UNCHANGED <<asked, loaded, world, posted, gone, operator>>

-----------------------------------------------------------------------------
(* The environment. *)

\* A row passes its deadline and is removed, or is evicted.
Lose(p, k) ==
    /\ rows[p][k] # None /\ rows[p][k].mortal
    /\ rows' = [rows EXCEPT ![p][k] = None]
    /\ owed' = [owed EXCEPT ![p][k] = None]
    /\ gone' = IF p = place THEN gone \cup {k} ELSE gone
    /\ UNCHANGED <<asked, phase, loaded, made, posted, operator>>

\* The operator changes the file, the environment or the documents, but not
\* in the middle of a start.
Change(d) ==
    /\ ~settled /\ changes < MaxChanges
    /\ phase \in {"down", "fatal", "serving"}
    /\ \E plan \in Plans : {deployment, d} \subseteq plan
    /\ deployment' = d
    /\ changes' = changes + 1
    /\ UNCHANGED <<asked, phase, loaded, world, up, strict, posted, gone, settled>>

ComeOrGo ==
    /\ ~settled
    /\ up' = ~up
    /\ UNCHANGED <<deployment, asked, phase, loaded, world, strict, posted, gone,
                   changes, settled>>

\* From some time on the storage answers and nobody stops the process.
Settle ==
    /\ ~settled
    /\ settled' = TRUE /\ up' = TRUE
    /\ UNCHANGED <<deployment, asked, phase, loaded, world, strict, posted, gone,
                   changes>>

HandleConfig == Construct \/ CreateIndexes \/ LoadDocument \/ Serve \/ Fatal

Next ==
    \/ Start \/ HandleConfig \/ Stop
    \/ \E k \in Keys, val \in Pastes : Post(k, val)
    \/ \E p \in Places, k \in Keys : Lose(p, k)
    \/ \E d \in Deployments : Change(d)
    \/ ComeOrGo \/ Settle

Spec == Init /\ [][Next]_vars

\* A supervisor starts the process again, the process runs, and the TTL index
\* of MongoDB removes what nobody views meanwhile.
Fairness ==
    /\ WF_vars(Start) /\ WF_vars(HandleConfig)
    /\ \A k \in Keys :
          WF_vars(phase # "serving" /\ type = "mongodb" /\ Lose(place, k))

FairSpec == Spec /\ Fairness

-----------------------------------------------------------------------------
(* The type invariant. *)

\* Every variable has its type, a life that has begun has a configuration, and
\* only the types that lose rows hold mortal ones.
TypeOK ==
    /\ deployment \in Deployments /\ asked \in Deployments
    /\ phase \in {"down", "fatal", "constructing", "indexing", "loading", "serving"}
    /\ loaded \in 0..Len(docs)
    /\ rows \in [Places -> [Keys -> RowType \cup {None}]]
    /\ made \subseteq Places
    /\ up \in BOOLEAN /\ strict \in BOOLEAN /\ settled \in BOOLEAN
    /\ posted \subseteq Keys /\ gone \subseteq Keys
    /\ owed \in [Places -> [Keys -> Pastes \cup {None}]]
    /\ changes \in 0..MaxChanges
    /\ Running => ~Rejected(asked)
    /\ \A p \in Places, k \in Keys :
          rows[p][k] # None /\ p[1] \notin Lossy => ~rows[p][k].mortal

-----------------------------------------------------------------------------
(* Properties. *)

\* What the operator wrote down: the entries of the file and the DOCUMENTS_
\* variables, the later ones counting.
Wanted(d) == [i \in 1..Len(d.documents) |-> [key |-> d.documents[i].key,
                                            path |-> <<d.documents[i].path>>]]
             \o d.variables

\* While the server is in service, the last document that was written down
\* for a key is what the storage holds under it, unless its path has an "=" in
\* it (config.go:287), a paste has been stored under its key, or the row has
\* expired: documents are stored like pastes (main.go:56), and not again before
\* the next start.
DocumentsAreThere ==
    phase = "serving" =>
        LET wanted == Wanted(asked) IN
        \A i \in 1..Len(wanted) :
            LET k == wanted[i].key IN
            /\ Len(wanted[i].path) = 1
            /\ \A j \in i + 1..Len(wanted) : wanted[j].key = k => Len(wanted[j].path) > 1
            => \/ k \in posted \cup gone
               \/ /\ rows[place][k] # None
                  /\ rows[place][k].val = asked.content[wanted[i].path[1]]

\* A paste that has been stored outlives the process: whatever the following
\* lives create, fail at or load, it is there until it expires, or another
\* paste or a document is stored under its key.
PastesOutliveRestarts ==
    \A p \in Places, k \in Keys :
        owed[p][k] # None => rows[p][k] # None /\ rows[p][k].val = owed[p][k]

\* Nobody is given the empty key, under which all pastes would be one, unless
\* the length asked for is negative: an explicit 0 is replaced by the default,
\* wherever it is given (config.go:305).
KeysAreNotEmpty == <<>> \in posted => Read(asked).key_length < 0

\* A configuration with which a start can succeed.
Sound(d) ==
    LET c == NewConfig(d) IN
    /\ ~Rejected(d)
    /\ c.storage_type \in StorageTypes
    /\ c.key_generator \in Generators /\ c.logging_level \in Levels
    /\ \A i \in 1..Len(Documents(d)) : d.content[Documents(d)[i].path] # None
    /\ c.storage_type = "file" /\ Documents(d) # <<>> => c.storage_file_path \notin Orphans

\* With a sound configuration and a storage that answers, a start fails only
\* because of what an earlier life, or this one, has left: a collection or
\* bucket that the server refuses to create a second time (mongodb.go:59,
\* s3.go:55), on MongoDB a document under the key of one to be stored, or the
\* directory that could not be made when it was tried (file.go:26).
OnlyLeftoversStopAStart ==
    [][phase' = "fatal" /\ phase # "fatal" /\ up /\ Sound(deployment) =>
          \/ Refused
          \/ type = "mongodb" /\ rows[place][docs[loaded + 1].key] # None
          \/ type = "file" /\ place \notin made]_vars

\* A sound configuration comes into service in the end, if the storage answers
\* and a supervisor goes on starting the process: also on MongoDB, where a start
\* may fail at its own documents until the TTL index has removed them.  Not
\* where the server refuses to create what exists, nor on MongoDB with two
\* documents of one key.
Bootable(d) ==
    LET c == NewConfig(d) IN
    /\ Sound(d)
    /\ strict => c.storage_type \notin {"mongodb", "s3"}
    /\ c.storage_type = "mongodb" =>
          \A i, j \in 1..Len(Documents(d)) :
              Documents(d)[i].key = Documents(d)[j].key => i = j

ComesIntoService == settled /\ Bootable(deployment) ~> phase = "serving"
=============================================================================
