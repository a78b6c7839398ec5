---------------------------- MODULE KeyGenerator ---------------------------
(***************************************************************************)
(* internal/keygenerator: the keys Generate may return, as sequences of    *)
(* bytes.  The error branches of random.go:29 and phonetic.go:27 are not   *)
(* reachable in the build: since Go 1.24, which go.mod asks for, a random  *)
(* source that fails ends the process.                                     *)
(***************************************************************************)
EXTENDS Integers, Sequences

CONSTANTS Vowels, Consonants        \* the letters of phonetic.go

Letters == Vowels \cup Consonants   \* a to z, the default key space
Positions(n) == 1..n                 \* none if n is negative

RandomKeys(keyspace, n) ==
    LET drawn == IF keyspace = <<>> THEN Letters
                 ELSE {keyspace[i] : i \in 1..Len(keyspace)}
    IN [Positions(n) -> drawn]

\* Consonants and vowels take turns; either may begin.
PhoneticKeys(n) ==
    {k \in [Positions(n) -> Letters] :
        \E start \in {0, 1} : \A i \in Positions(n) :
            k[i] \in IF (i - 1) % 2 = start THEN Consonants ELSE Vowels}

Generators == {"random", "phonetic"}

GeneratedKeys(generator, keyspace, n) ==
    IF generator = "random" THEN RandomKeys(keyspace, n) ELSE PhoneticKeys(n)
=============================================================================
