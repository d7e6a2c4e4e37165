--------------------------- MODULE KvdbRefinement ---------------------------
(***************************************************************************)
(* libkvdb implements the linearizable, durable map of KvStore: a put takes*)
(* effect with the pwrite of the committed word, a get when it reaches the *)
(* end of the records.                                                     *)
(***************************************************************************)
EXTENDS Kvdb

\* The value kvdb_get finds for k in file f: that of the last valid record of
\* k before the first record that cannot be followed.
Lookup(f, k) ==
    LET found == { i \in DOMAIN f : /\ Valid(f[i]) /\ f[i].key = k
                                    /\ \A j \in 1 .. i : f[j].shape # "short" }
    IN  IF found = {} THEN None ELSE f[Max(found)].val

Contents(f) == [k \in Key |-> Lookup(f, k)]

Phase(t) ==
    CASE pc[t] = "idle"                           -> "idle"
      [] pc[t] = "p_sync2"                        -> "applied"
      [] pc[t] # "idle" /\ rc[t] = "fail"         -> "failed"
      [] pc[t] # "idle" /\ rc[t] = "ok"           -> "acked"
      [] pc[t] # "idle" /\ rc[t] \in Val \cup {"missing"} -> "read"
      [] OTHER                                    -> op[t]

Store == INSTANCE KvStore WITH
    Absent  <- None,
    MayFail <- Faults # {},
    store   <- Contents(file),
    saved   <- { Contents(g) : g \in durable },
    phase   <- [t \in Thread |-> Phase(t)],
    call    <- [t \in Thread |-> IF pc[t] = "idle" THEN None
                              ELSE [key |-> key[t], val |-> val[t]]],
    got     <- [t \in Thread |-> IF Phase(t) = "read" THEN best[t] ELSE None]

\* Every behaviour of the library, seen through its calls and their results,
\* is one of the abstract map: reads see the last write, a put that returned 0
\* survives a loss of power, one that failed or was interrupted took effect as
\* a whole or not at all.
ImplementsStore == Store!Spec
=============================================================================
