----------------------------- MODULE PasteStore ----------------------------
(***************************************************************************)
(* What a caller of the Storage interface (internal/storage/storage.go)    *)
(* may rely on, whichever adapter is behind it: one register per key in    *)
(* which a Set takes effect at some instant while it is in progress, and   *)
(* from which a Get that returns a content read it at some instant while   *)
(* it was in progress.  The register is lossy: it may empty itself, a Get  *)
(* may return nothing, and a Set may report an error and have stored its   *)
(* value nevertheless, or only the first chunks of it.                     *)
(***************************************************************************)
EXTENDS Integers, Sequences

CONSTANTS Procs, Keys, Values, None

VARIABLES
    docs,      \* [Keys -> content]: what a Get finds, Nothing if nothing
    calls      \* [Procs -> the Set or Get in progress]

vars == <<docs, calls>>

Nothing == <<>>
Idle == [st |-> "idle", op |-> "get", key |-> None, val |-> Nothing, err |-> FALSE]

Init ==
    /\ docs = [k \in Keys |-> Nothing]
    /\ calls = [p \in Procs |-> Idle]

Pending(p, op) == calls[p].st = "pending" /\ calls[p].op = op
Write(p, content) == docs' = [docs EXCEPT ![calls[p].key] = content]
Done(p, val, err) ==
    calls' = [calls EXCEPT ![p].st = "done", ![p].val = val, ![p].err = err]

Call(p, op, k, v) ==
    /\ calls[p].st = "idle"
    /\ calls' = [calls EXCEPT ![p] =
                    [st |-> "pending", op |-> op, key |-> k, val |-> v, err |-> FALSE]]
    /\ UNCHANGED docs

\* A Set takes effect, and returns or is tried again.
Apply(p) ==
    /\ Pending(p, "set")
    /\ Write(p, calls[p].val)
    /\ UNCHANGED calls \/ \E err \in BOOLEAN : Done(p, Nothing, err)

\* A Set that fails half way leaves the first chunks of its value.
Tear(p) ==
    /\ Pending(p, "set")
    /\ \E n \in 0..Len(calls[p].val) : Write(p, SubSeq(calls[p].val, 1, n))
    /\ Done(p, Nothing, TRUE)

\* A call fails and has done nothing.
Refuse(p) ==
    /\ calls[p].st = "pending"
    /\ Done(p, Nothing, TRUE)
    /\ UNCHANGED docs

\* A Get returns what the register holds.
Read(p) ==
    /\ Pending(p, "get")
    /\ Done(p, docs[calls[p].key], FALSE)
    /\ UNCHANGED docs

\* A Get returns nothing, and may have taken away what it found outdated.
Miss(p) ==
    /\ Pending(p, "get")
    /\ UNCHANGED docs \/ Write(p, Nothing)
    /\ \E err \in BOOLEAN : Done(p, Nothing, err)

\* A Get that has read fails to put off the expiry, and its content is lost.
Spoil(p) ==
    /\ calls[p].st = "done" /\ calls[p].op = "get"
    /\ Done(p, Nothing, TRUE)
    /\ UNCHANGED docs

Return(p) ==
    /\ calls[p].st = "done"
    /\ calls' = [calls EXCEPT ![p] = Idle]
    /\ UNCHANGED docs

Vanish(k) ==
    /\ docs' = [docs EXCEPT ![k] = Nothing]
    /\ UNCHANGED calls

Crash ==
    /\ calls' = [p \in Procs |-> Idle]
    /\ UNCHANGED docs

Next ==
    \/ \E p \in Procs :
          \/ \E k \in Keys : Call(p, "get", k, Nothing)
          \/ \E k \in Keys, v \in Values : Call(p, "set", k, v)
          \/ Apply(p) \/ Tear(p) \/ Refuse(p)
          \/ Read(p) \/ Miss(p) \/ Spoil(p) \/ Return(p)
    \/ \E k \in Keys : Vanish(k)
    \/ Crash

Spec == Init /\ [][Next]_vars
=============================================================================
