------------------------------- MODULE MCBoot ------------------------------
(* Instances of Boot for TLC: one vowel and one consonant, documents under   *)
(* the keys "a" and "b", which a generator of one letter makes too.          *)
EXTENDS Boot, TLC

A == <<"a">>
B == <<"b">>
MCKeys == {<<>>, A, B, <<"a", "b">>}
Disk == [one |-> "x", two |-> "y"] @@ ("lost" :> None)

Doc(key, path) == [key |-> key, path |-> path]
Var(key, path) == [key |-> key, path |-> path]

\* Two sound configurations of each type, given by the file or, over another
\* one, by the environment; and some a start fails at, or that sit on an edge.
Typed(t) == [storage_type |-> t, key_length |-> 1]
ByFile(t) == Deployment(Typed(t), <<>>, <<Doc(A, "one"), Doc(B, "two")>>, <<>>, Disk)
ByEnv(t) == Deployment(Typed("file"), [storage_type |-> t], <<Doc(A, "one")>>,
                       <<Var(A, <<"two">>)>>, Disk)
Others(t) ==
    CASE t = "file" ->
            {Deployment(Typed(t), [key_length |-> 0, storage_file_path |-> "other"], <<Doc(A, "two")>>,
                        <<Var(A, <<"one", "two">>)>>, Disk),
             Deployment(<<>>, [key_length |-> -1, key_generator |-> "random"],
                        <<Doc(A, "two")>>, <<>>, Disk),
             Deployment(Typed(t), [storage_file_path |-> "no/parent"], <<>>, <<>>, Disk)}
      [] t = "redis" ->
            {[Deployment(Typed(t), <<>>, <<>>, <<>>, Disk) EXCEPT !.readable = FALSE],
             Deployment(Typed(t), <<>>, <<Doc(A, "lost")>>, <<>>, Disk)}
      [] t = "memcached" -> {Deployment(Typed("sqlite"), <<>>, <<>>, <<>>, Disk)}
      [] t = "mongodb" ->
            {Deployment(Typed(t), [key_generator |-> "uuid"], <<Doc(A, "two")>>, <<>>, Disk)}
      [] t = "postgres" ->
            {Deployment(Typed(t), [port |-> Bad], <<>>, <<>>, Disk),
             Deployment([storage_type |-> t, key_generator |-> "random",
                         key_space |-> <<"b", "b">>], <<>>, <<>>, <<>>, Disk)}
      [] t = "s3" ->
            {Deployment(Typed(t), [logging_level |-> "loud"], <<>>,
                        <<Var(B, <<"one", "two">>)>>, Disk)}
MCPlans == {{ByFile(t), ByEnv(t)} \cup Others(t) : t \in StorageTypes}
=============================================================================
