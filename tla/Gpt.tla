-------------------------------- MODULE Gpt --------------------------------
(***************************************************************************)
(* Token generation on several threads (m6/gpt.c with thread.h): main runs *)
(* one forward pass per token, every layer of it cut into slices by        *)
(* parallel_for, one slice for main and one for each spawned thread.  The  *)
(* threads take their slice and their function from global variables.      *)
(***************************************************************************)
EXTENDS GptForward, FiniteSets, FiniteSetsExt, Functions, SequencesExt

CONSTANTS MAX_WORKERS,
          MAX_THREADS,     \* LENGTH(threads_)
          EOT,             \* GPT2_EOT
          RawTokens,       \* what the arguments on the command line may say
          MaxMissing       \* bound on the failures of pthread_create

ASSUME GptAssumption ==
    /\ MAX_WORKERS \in Nat \ {0} /\ MAX_THREADS \in Nat
    /\ MaxMissing \in Nat
    /\ EOT \in Nat /\ RawTokens \subseteq Int

VARIABLES pc, tokens, t, op,      \* main: step, tokens, pass, layer
          worker_count,
          current,                \* current_range_fn and _arg, _slices, _base_id
          n_, live, missing,      \* entries of threads_; those with status T_LIVE;
                                  \* those for which there is no thread
          work,                   \* running thread -> function and slice; 0 is main
          written,                \* activations that hold a result of this pass
          units                   \* units of the current layer that were computed

main == <<pc, tokens, t, op, worker_count>>
pool == <<current, n_, live, missing>>
vars == <<main, pool, work, written, units>>

Layers == Program[t]
Fresh == [layer |-> 0, begin |-> 0, end |-> 0]
NoCall == [layer |-> 0, slices |-> << >>, base |-> 0]

----------------------------------------------------------------------------
(* parallel_for.                                                           *)

NumSlices(total) == Min({IF worker_count < 1 THEN 1 ELSE worker_count, MAX_WORKERS, total})

\* Faulty variant: rounded down.
SpanFloor(total, n) == total \div n

Span(total, n) == (total + n - 1) \div n

\* Faulty variant: the last slices may reach beyond the range.
SliceEndUncapped(total, n, i) == (i + 1) * Span(total, n)

SliceEnd(total, n, i) ==
    LET end == (i + 1) * Span(total, n)
    IN  IF end > total THEN total ELSE end

\* Slice i of n, counted from 0; a slice may be empty, with begin above end.
Slice(total, n, i) == [begin |-> i * Span(total, n), end |-> SliceEnd(total, n, i)]

----------------------------------------------------------------------------

Ended == pc \in {"exit", "abort", "crash"}

\* The values of the variables; every token selects a row of the embedding.
TypeOK ==
    /\ pc \in {"start", "forward", "call", "spawn", "run", "join", "sample",
              "exit", "abort", "crash"}
    /\ tokens \in [0 .. Limit - 1 -> (0 .. V - 1) \cup {EOT}]
    /\ t \in 0 .. Limit /\ op \in 0 .. NumOps + 1
    /\ worker_count \in 1 .. MAX_WORKERS
    /\ n_ \in 0 .. MAX_THREADS /\ live \subseteq 1 .. n_ /\ missing \subseteq 1 .. n_
    /\ DOMAIN work \subseteq 0 .. n_

\* main: the number of workers, whatever GPT_WORKERS says, is in range.
Init ==
    /\ pc = "start" /\ t = 0 /\ op = 0
    /\ tokens = [i \in 0 .. Limit - 1 |-> EOT]
    /\ worker_count \in 1 .. MAX_WORKERS
    /\ current = NoCall
    /\ n_ = 0 /\ live = {} /\ missing = {}
    /\ work = << >> /\ written = {} /\ units = {}

ParseToken(raw) == raw \in 0 .. V - 1

\* The arguments are refused, or become the first tokens.
ParseArgs(args) ==
    /\ pc = "start"
    /\ IF Len(args) \in 1 .. Limit - 1 /\ \A i \in DOMAIN args : ParseToken(args[i])
       THEN /\ pc' = "forward"
            /\ tokens' = [i \in 0 .. Limit - 1 |->
                             IF i + 1 \in DOMAIN args THEN args[i + 1] ELSE EOT]
            /\ t' = Len(args)
       ELSE /\ pc' = "exit"
            /\ UNCHANGED <<tokens, t>>
    /\ UNCHANGED <<op, worker_count, pool, work, written, units>>

\* gpt2_forward: new memory for the activations, then the layers.
Forward ==
    /\ pc = "forward"
    /\ pc' = IF t < Limit THEN "call" ELSE "exit"
    /\ op' = 1
    /\ written' = {} /\ units' = {}
    /\ UNCHANGED <<tokens, t, worker_count, pool, work>>

\* A layer's parallel_for up to the first spawn.
Call ==
    /\ pc = "call"
    /\ IF op > NumOps
       THEN /\ pc' = "sample" /\ UNCHANGED current
       ELSE LET total == Layers[op].total
                n == NumSlices(total)
            IN  /\ pc' = "spawn"
                /\ current' = [layer |-> op, base |-> n_,
                               slices |-> [i \in 0 .. n - 1 |-> Slice(total, n, i)]]
    /\ units' = {}
    /\ UNCHANGED <<tokens, t, op, worker_count, n_, live, missing, work, written>>

SpawnsLeft == n_ - current.base + 1 < Cardinality(DOMAIN current.slices)

\* Faulty variant: the number of the thread, which starts at 1, is compared.
HasRoomById == n_ + 1 < MAX_THREADS

\* The assertion of spawn.
HasRoom == n_ < MAX_THREADS

\* spawn: the assertion, the table entry, pthread_create.  Its result is not
\* tested: if no thread was made the entry says T_LIVE all the same.
Spawn ==
    /\ pc = "spawn" /\ SpawnsLeft
    /\ IF HasRoom
       THEN /\ n_' = n_ + 1
            /\ live' = live \cup {n_ + 1}
            /\ \/ /\ work' = [i \in DOMAIN work \cup {n_ + 1} |->
                                IF i = n_ + 1 THEN Fresh ELSE work[i]]
                  /\ UNCHANGED missing
               \/ /\ Cardinality(missing) < MaxMissing
                  /\ missing' = missing \cup {n_ + 1}
                  /\ UNCHANGED work
            /\ UNCHANGED pc
       ELSE pc' = "abort" /\ UNCHANGED <<n_, live, missing, work>>
    /\ UNCHANGED <<tokens, t, op, worker_count, current, written, units>>

\* Main begins the last slice itself.
RunMain ==
    /\ pc = "spawn" /\ ~ SpawnsLeft
    /\ pc' = "run"
    /\ work' = [i \in DOMAIN work \cup {0} |->
                  IF i # 0 THEN work[i]
                  ELSE LET s == current.slices[Cardinality(DOMAIN current.slices) - 1]
                       IN  [layer |-> op, begin |-> s.begin, end |-> s.end]]
    /\ UNCHANGED <<tokens, t, op, worker_count, pool, written, units>>

\* range_worker: a new thread looks up its slice by its number.
RangeWorker(i) ==
    LET index == i - current.base - 1
    IN  /\ i \in DOMAIN work /\ work[i] = Fresh
        /\ work' = IF index >= 0 /\ index < worker_count
                   THEN [work EXCEPT ![i] = [layer |-> current.layer,
                                             begin |-> current.slices[index].begin,
                                             end |-> current.slices[index].end]]
                   ELSE Restrict(work, DOMAIN work \ {i})
        /\ UNCHANGED <<main, pool, written, units>>

Busy(i) == i \in DOMAIN work /\ work[i] # Fresh /\ work[i].begin < work[i].end

\* The range function of a layer: one unit after the other.
Compute(i) ==
    /\ Busy(i)
    /\ written' = written \cup Layers[work[i].layer].unit[work[i].begin].writes
    /\ units' = units \cup {work[i].begin}
    /\ work' = [work EXCEPT ![i].begin = @ + 1]
    /\ UNCHANGED <<main, pool>>

Return(i) ==
    /\ i \in DOMAIN work /\ work[i] # Fresh /\ ~ Busy(i)
    /\ work' = Restrict(work, DOMAIN work \ {i})
    /\ pc' = IF i = 0 THEN "join" ELSE pc
    /\ UNCHANGED <<tokens, t, op, worker_count, pool, written, units>>

\* Faulty variant: pthread_join does not wait.
ThreadEndedAlways(i) == TRUE

ThreadEnded(i) == i \notin DOMAIN work

\* join: the live threads in the order of their numbers.  Joining one that was
\* never made is undefined: it returns an error or crashes.
Join ==
    /\ pc = "join"
    /\ IF live = {}
       THEN pc' = "call" /\ op' = op + 1 /\ UNCHANGED live
       ELSE /\ ThreadEnded(Min(live))
            /\ live' = live \ {Min(live)}
            /\ UNCHANGED op
            /\ \/ UNCHANGED pc
               \/ Min(live) \in missing /\ pc' = "crash"
    /\ UNCHANGED <<tokens, t, worker_count, current, n_, missing, work, written, units>>

Sampled == 0 .. V - 1

\* sample_mult picks any token; main appends it and goes on.
SampleMult(token) ==
    /\ pc = "sample"
    /\ tokens' = [tokens EXCEPT ![t] = token]
    /\ t' = t + 1
    /\ pc' = "forward"
    /\ UNCHANGED <<op, worker_count, pool, work, written, units>>

Done == Ended /\ UNCHANGED vars

Thread(i) == RangeWorker(i) \/ Compute(i) \/ Return(i)

Main == \/ Forward \/ Call \/ Spawn \/ RunMain \/ Join
        \/ \E args \in BoundedSeq(RawTokens, Limit) : ParseArgs(args)
        \/ \E token \in Sampled : SampleMult(token)

Next == \/ Main
        \/ \E i \in DOMAIN work : Thread(i)
        \/ Done

Spec == Init /\ [][Next]_vars

----------------------------------------------------------------------------
(* Properties.                                                             *)

Unit(i) == Layers[work[i].layer].unit[work[i].begin]

\* Whatever a thread reads next was computed in this pass, and main samples
\* from probabilities that are there: results do not depend on the number of
\* threads.
NoGarbage ==
    /\ \A i \in DOMAIN work : Busy(i) => Unit(i).reads \subseteq written
    /\ pc = "sample" => Run(Acts[t].probs + (t - 1) * V, V) \subseteq written

\* While every thread that was asked for exists, no layer starts before the one
\* before it is complete.
ReadsReady == missing = {} => NoGarbage

\* No two threads touch the same activation at the same time, unless both
\* only read it, and no activation is computed twice in a pass: the tensors, the
\* layers within a tensor and the units of a layer do not overlap.
NoRace ==
    \A i \in DOMAIN work : Busy(i) =>
        /\ Unit(i).writes \cap written = {}
        /\ \A j \in DOMAIN work \ {i} : Busy(j) =>
              Unit(i).writes \cap (Unit(j).reads \cup Unit(j).writes) = {}

\* Every access lies in the memory that was allocated, also the row of the
\* embedding that the token selects; a layer's tensors are as large as the
\* layer's loops.
InBounds ==
    \A i \in DOMAIN work : Busy(i) =>
        /\ work[i].begin < Layers[work[i].layer].total
        /\ Unit(i).writes \subseteq 0 .. ActsLen[t] - 1
        /\ Unit(i).params \subseteq 0 .. ParamsLen - 1
        /\ work[i].layer = 1 => TokenRow(tokens[work[i].begin]) \subseteq Run(Param.wte, V * C)

\* What is left to do of slice k: main has the last one, the others belong to
\* the threads spawned since base.
Rest(k) ==
    LET last  == Cardinality(DOMAIN current.slices) - 1
        owner == IF k = last THEN 0 ELSE current.base + k + 1
        begun == IF k = last THEN pc # "spawn" ELSE owner <= n_
        range(s) == s.begin .. s.end - 1
    IN  IF begun /\ owner \notin DOMAIN work THEN {}
        ELSE IF begun /\ work[owner] # Fresh THEN range(work[owner])
        ELSE range(current.slices[k])

\* In every layer each unit is computed exactly once: the units done and what
\* is left of the slices are a partition of the range, and when parallel_for
\* returns all are done and all threads have ended; only the slice of a thread
\* that could not be created is left out.  Tokens, and all else, are in range.
EachUnitOnce ==
    /\ TypeOK
    /\ pc \in {"spawn", "run", "join"} =>
          /\ missing \subseteq 1 .. current.base =>
                units \cup UNION {Rest(k) : k \in DOMAIN current.slices}
                   = 0 .. Layers[op].total - 1
          /\ \A k \in DOMAIN current.slices :
                /\ Rest(k) \cap units = {}
                /\ \A m \in DOMAIN current.slices : k # m => Rest(k) \cap Rest(m) = {}
          /\ \A i \in DOMAIN work : work[i] = Fresh \/ work[i].layer = op
    /\ pc \in {"call", "sample"} => DOMAIN work = {}

\* The table of threads, which is never emptied, is large enough for the whole
\* run: the assertion of spawn holds.
TableNotFull == pc # "abort"
=============================================================================
