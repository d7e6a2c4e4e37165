------------------------------- MODULE Kvdb -------------------------------
(***************************************************************************)
(* libkvdb (m9/kvdb.c): an append-only file of records shared by the       *)
(* threads of several processes.  Every system call of kvdb_put and        *)
(* kvdb_get that touches a lock or the file is one step, so that a process *)
(* may die, or the machine lose power, between any two of them.            *)
(*                                                                         *)
(* The file is a sequence of records.  Of the bytes of a record only what  *)
(* the readers test is kept: whether the header and the lengths can be     *)
(* followed to the end of the record, whether key and value have the       *)
(* checksum of the header, and whether the committed word is set.          *)
(***************************************************************************)
EXTENDS Integers, Sequences, FiniteSets, FiniteSetsExt

CONSTANTS Proc, Thread, Handle, \* processes, their threads, struct kvdb_t
          ProcOf,               \* the process a thread runs in
          HandleProc,           \* the process a struct kvdb_t lives in
          Key, BadKey, Val,     \* BadKey: an empty or over-long key
          None,                 \* no owner, no value
          Faults,               \* the kinds of call that may fail
          MaxCalls, MaxCrashes, MaxLosses

ASSUME ConstAssumption ==
    /\ ProcOf \in [Thread -> Proc]
    /\ HandleProc \in [Handle -> Proc]
    /\ None \notin Thread \cup Handle \cup Key \cup Val
    /\ None \notin {"put", "get"}
    /\ BadKey \notin Key
    /\ Val \cap {"pending", "ok", "fail", "missing", "none"} = {}
    /\ Faults \subseteq {"flock", "write", "malloc", "read"}
    /\ MaxCalls \in Nat /\ MaxCrashes \in Nat /\ MaxLosses \in Nat

VARIABLES file,         \* the records a read returns (the page cache)
          durable,      \* the files a loss of power may leave behind
          globalMutex,  \* process -> owner of its global_mutex
          dbMutex,      \* handle -> owner of db->mutex
          flock,        \* the open file description that holds the flock
          fd,           \* handle -> whether db->fd >= 0
          pos,          \* handle -> file offset of db->fd, in records
          pc, op, hnd, key, val, off, best, rc, \* the locals of a call
          ret,          \* what the last put or get of a thread returned
          acked,        \* history: the file when a put last returned 0
          calls, crashes, losses \* how many there have been

disk   == <<file, durable, acked>>
locals == <<off, best, rc>>
locks  == <<globalMutex, dbMutex, flock>>
spent  == <<calls, crashes, losses>>
args   == <<op, hnd, key, val>>
vars   == <<disk, locks, fd, pos, pc, args, locals, ret, spent>>

Shapes == {"short",  \* ends before its lengths say, or has no proper header
           "mixed",  \* complete, but key or value fail the checksum
           "whole"}

Records == [key : Key, val : Val, shape : Shapes, committed : BOOLEAN]

Record(k, v, s) == [key |-> k, val |-> v, shape |-> s, committed |-> FALSE]

\* The test of valid_prefix_end: header, committed word and checksum.
Valid(r) == r.committed /\ r.shape = "whole"

\* The n first records are what valid_prefix_end accepts of f.
IsValidPrefix(f, n) == \A i \in 1 .. n : Valid(f[i])

IsValidEnd(f, n) == /\ IsValidPrefix(f, n)
                    /\ n = Len(f) \/ ~ Valid(f[n + 1])

Cut(f, n) == SubSeq(f, 1, IF n < Len(f) THEN n ELSE Len(f))

SetCommitted(f, n) ==
    IF n \in DOMAIN f THEN [f EXCEPT ![n] = [@ EXCEPT !.committed = TRUE]] ELSE f

PutPcs  == {"p_scan", "p_trunc", "p_head", "p_rest", "p_sync", "p_commit",
            "p_sync2"}
GetPcs  == {"g_seek", "g_scan"}
FilePcs == PutPcs \cup GetPcs
Pcs     == FilePcs \cup {"idle", "lock_global", "lock_db", "flock",
                         "un_flock", "un_db", "un_global"}
Results == {"pending", "ok", "fail", "missing"}

\* The values of the variables; a call returns 0, -1 or a value.
TypeOK ==
    /\ file \in Seq(Records)
    /\ durable \in SUBSET Seq(Records)
    /\ globalMutex \in [Proc -> Thread \cup {None}]
    /\ dbMutex \in [Handle -> Thread \cup {None}]
    /\ flock \in Handle \cup {None}
    /\ fd \in [Handle -> BOOLEAN]
    /\ pos \in [Handle -> Nat]
    /\ pc \in [Thread -> Pcs]
    /\ op \in [Thread -> {"put", "get", None}]
    /\ hnd \in [Thread -> Handle \cup {None}]
    /\ key \in [Thread -> Key \cup {None}]
    /\ val \in [Thread -> Val \cup {None}]
    /\ off \in [Thread -> Nat]
    /\ best \in [Thread -> Val \cup {None}]
    /\ rc \in [Thread -> Results \cup Val]
    /\ ret \in [Thread -> {"none", "ok", "fail"} \cup Val]
    /\ acked \in Seq(Records)
    /\ calls \in 0 .. MaxCalls /\ crashes \in 0 .. MaxCrashes
    /\ losses \in 0 .. MaxLosses

\* The file is new, or ends in what some other program left there (the test
\* appends a partial record).
Init ==
    /\ \/ file = << >>
       \/ \E k \in Key, v \in Val : file = <<Record(k, v, "short")>>
    /\ durable = {file}
    /\ globalMutex = [p \in Proc |-> None]
    /\ dbMutex = [h \in Handle |-> None]
    /\ flock = None
    /\ fd = [h \in Handle |-> FALSE]
    /\ pos = [h \in Handle |-> 0]
    /\ pc = [t \in Thread |-> "idle"]
    /\ op = [t \in Thread |-> None]
    /\ hnd = [t \in Thread |-> None]
    /\ key = [t \in Thread |-> None]
    /\ val = [t \in Thread |-> None]
    /\ off = [t \in Thread |-> 0]
    /\ best = [t \in Thread |-> None]
    /\ rc = [t \in Thread |-> "pending"]
    /\ ret = [t \in Thread |-> "none"]
    /\ acked = << >>
    /\ calls = 0 /\ crashes = 0 /\ losses = 0

Goto(t, from, to) == /\ pc[t] = from
                     /\ pc' = [pc EXCEPT ![t] = to]

\* The locals of the calls of threads T go out of scope.
DropLocals(T) ==
    LET Drop(f, v) == [t \in Thread |-> IF t \in T THEN v ELSE f[t]]
    IN  /\ op' = Drop(op, None)
        /\ hnd' = Drop(hnd, None)
        /\ key' = Drop(key, None)
        /\ val' = Drop(val, None)
        /\ off' = Drop(off, 0)
        /\ best' = Drop(best, None)
        /\ rc' = Drop(rc, "pending")

\* The calls of threads T never return.
Abandon(T) ==
    /\ pc' = [t \in Thread |-> IF t \in T THEN "idle" ELSE pc[t]]
    /\ ret' = [t \in Thread |-> IF t \in T THEN "none" ELSE ret[t]]
    /\ DropLocals(T)

----------------------------------------------------------------------------
(* kvdb_open, kvdb_close and the argument checks of kvdb_put and kvdb_get. *)

\* A kvdb_open that fails leaves the handle closed and changes nothing.
KvdbOpen(t, h) ==
    /\ pc[t] = "idle" /\ HandleProc[h] = ProcOf[t] /\ ~ fd[h]
    /\ fd' = [fd EXCEPT ![h] = TRUE]
    /\ pos' = [pos EXCEPT ![h] = 0]
    /\ UNCHANGED <<disk, locks, pc, args, locals, ret, spent>>

\* The caller may not close a handle another thread is using: the call would
\* destroy a mutex in use.
KvdbClose(t, h) ==
    /\ pc[t] = "idle" /\ HandleProc[h] = ProcOf[t] /\ fd[h]
    /\ \A u \in Thread : hnd[u] # h
    /\ fd' = [fd EXCEPT ![h] = FALSE]
    /\ UNCHANGED <<disk, locks, pos, pc, args, locals, ret, spent>>

Begin(t, h, o, k, v) ==
    /\ Goto(t, "idle", "lock_global")
    /\ HandleProc[h] = ProcOf[t] /\ fd[h]
    /\ calls < MaxCalls /\ calls' = calls + 1
    /\ op' = [op EXCEPT ![t] = o]
    /\ hnd' = [hnd EXCEPT ![t] = h]
    /\ key' = [key EXCEPT ![t] = k]
    /\ val' = [val EXCEPT ![t] = v]
    /\ ret' = [ret EXCEPT ![t] = "none"]
    /\ UNCHANGED <<disk, locks, fd, pos, locals, crashes, losses>>

KvdbPut(t, h, k, v) == Begin(t, h, "put", k, v)
KvdbGet(t, h, k)    == Begin(t, h, "get", k, None)

\* A call on a closed handle or with a bad key returns -1 at once.
Refuse(t, h, k) ==
    /\ pc[t] = "idle" /\ HandleProc[h] = ProcOf[t]
    /\ ~ fd[h] \/ k = BadKey
    /\ ret' = [ret EXCEPT ![t] = "fail"]
    /\ UNCHANGED <<disk, locks, fd, pos, pc, args, locals, spent>>

----------------------------------------------------------------------------
(* lock_db and unlock_db.                                                  *)

LockGlobal(t) ==
    /\ Goto(t, "lock_global", "lock_db")
    /\ globalMutex[ProcOf[t]] = None
    /\ globalMutex' = [globalMutex EXCEPT ![ProcOf[t]] = t]
    /\ UNCHANGED <<disk, dbMutex, flock, fd, pos, args, locals, ret, spent>>

LockDb(t) ==
    /\ Goto(t, "lock_db", "flock")
    /\ dbMutex[hnd[t]] = None
    /\ dbMutex' = [dbMutex EXCEPT ![hnd[t]] = t]
    /\ UNCHANGED <<disk, globalMutex, flock, fd, pos, args, locals, ret, spent>>

\* Faulty variant: a shared lock.
FlockFreeShared(t) == TRUE

\* flock(LOCK_EX) belongs to the open file description: it is granted again to
\* the one that has it.  EINTR only repeats the call.
FlockFree(t) == flock \in {None, hnd[t]}

Flock(t) ==
    /\ Goto(t, "flock", IF op[t] = "put" THEN "p_scan" ELSE "g_seek")
    /\ FlockFree(t)
    /\ flock' = hnd[t]
    /\ UNCHANGED <<disk, globalMutex, dbMutex, fd, pos, args, locals, ret, spent>>

\* Faulty variant: an error return that forgets db->mutex.
FlockFailsLocked(t) ==
    /\ "flock" \in Faults
    /\ Goto(t, "flock", "un_global")
    /\ rc' = [rc EXCEPT ![t] = "fail"]
    /\ UNCHANGED <<disk, locks, fd, pos, args, off, best, ret, spent>>

FlockFails(t) ==
    /\ "flock" \in Faults
    /\ Goto(t, "flock", "un_db")
    /\ rc' = [rc EXCEPT ![t] = "fail"]
    /\ UNCHANGED <<disk, locks, fd, pos, args, off, best, ret, spent>>

UnFlock(t) ==
    /\ Goto(t, "un_flock", "un_db")
    /\ flock' = None
    /\ UNCHANGED <<disk, globalMutex, dbMutex, fd, pos, args, locals, ret, spent>>

UnlockDb(t) ==
    /\ Goto(t, "un_db", "un_global")
    /\ dbMutex' = [dbMutex EXCEPT ![hnd[t]] = None]
    /\ UNCHANGED <<disk, globalMutex, flock, fd, pos, args, locals, ret, spent>>

\* Faulty variant: a missing key has a result of its own.
ResultRaw(r) == r

\* kvdb_get returns -1 both for a missing key and for a failed call.
Result(r) == IF r = "missing" THEN "fail" ELSE r

UnlockGlobal(t) ==
    /\ Goto(t, "un_global", "idle")
    /\ globalMutex' = [globalMutex EXCEPT ![ProcOf[t]] = None]
    /\ ret' = [ret EXCEPT ![t] = Result(rc[t])]
    /\ DropLocals({t})
    /\ UNCHANGED <<disk, dbMutex, flock, fd, pos, spent>>

Finish(t, r) == /\ pc' = [pc EXCEPT ![t] = "un_flock"]
                /\ rc' = [rc EXCEPT ![t] = r]

\* A call of the body that returns an error: the operation goes on to unlock.
Fails(t, at, kind) ==
    /\ pc[t] = at
    /\ kind \in Faults
    /\ Finish(t, "fail")
    /\ best' = [best EXCEPT ![t] = None]
    /\ UNCHANGED <<disk, locks, fd, pos, args, off, ret, spent>>
----------------------------------------------------------------------------
(* The body of kvdb_put.                                                   *)

\* What the disk may hold once record r is being written at offset n and no
\* fsync has returned: an older file, one cut at n, or one with any part of r.
Unsynced(n, r, shapes) ==
    durable \cup UNION { { Append(Cut(g, n), [r EXCEPT !.shape = s]) : s \in shapes } :
                            g \in durable }

\* valid_prefix_end: the records up to the first that does not pass.  It takes
\* a read error for the end of the valid records.
ValidPrefixEnds == { n \in 0 .. Len(file) :
                        \/ IsValidEnd(file, n)
                        \/ "read" \in Faults /\ IsValidPrefix(file, n) }

PutScan(t) ==
    /\ Goto(t, "p_scan", "p_trunc")
    /\ \E n \in ValidPrefixEnds : off' = [off EXCEPT ![t] = n]
    /\ UNCHANGED <<disk, locks, fd, pos, args, best, rc, ret, spent>>

\* ftruncate and lseek.
PutTruncate(t) ==
    /\ Goto(t, "p_trunc", "p_head")
    /\ file' = Cut(file, off[t])
    /\ durable' = durable \cup { Cut(g, off[t]) : g \in durable }
    /\ pos' = [pos EXCEPT ![hnd[t]] = off[t]]
    /\ UNCHANGED <<locks, fd, args, locals, ret, acked, spent>>

\* The write of the header, whole or interrupted.
PutHeader(t) ==
    /\ pc[t] = "p_head"
    /\ LET n == pos[hnd[t]]
           r == Record(key[t], val[t], "short")
       IN  /\ file' = Append(Cut(file, n), r)
           /\ durable' = Unsynced(n, r, {"short"})
    /\ \/ /\ Goto(t, "p_head", "p_rest")
          /\ UNCHANGED rc
       \/ /\ "write" \in Faults
          /\ Finish(t, "fail")
    /\ UNCHANGED <<locks, fd, pos, args, off, best, ret, acked, spent>>

\* The writes of key and value.
PutKeyValue(t) ==
    /\ Goto(t, "p_rest", "p_sync")
    /\ LET n == pos[hnd[t]]
           r == Record(key[t], val[t], "whole")
       IN  /\ file' = Append(Cut(file, n), r)
           /\ durable' = Unsynced(n, r, Shapes)
    /\ UNCHANGED <<locks, fd, pos, args, locals, ret, acked, spent>>

\* Faulty variant: fsync left out.
FsyncSkipped == durable' = durable

Fsync == durable' = {file}

PutSync(t) ==
    /\ Goto(t, "p_sync", "p_commit")
    /\ Fsync
    /\ UNCHANGED <<file, locks, fd, pos, args, locals, ret, acked, spent>>

\* The pwrite of the committed word.
PutCommit(t) ==
    /\ Goto(t, "p_commit", "p_sync2")
    /\ file' = SetCommitted(file, off[t] + 1)
    /\ durable' = durable \cup { SetCommitted(g, off[t] + 1) : g \in durable }
    /\ UNCHANGED <<locks, fd, pos, args, locals, ret, acked, spent>>

PutSync2(t) ==
    /\ pc[t] = "p_sync2"
    /\ Fsync
    /\ acked' = file
    /\ Finish(t, "ok")
    /\ UNCHANGED <<file, locks, fd, pos, args, off, best, ret, spent>>

\* malloc may fail for a record whose header was accepted; any later call of
\* the chain may fail with nothing done.
PutFails(t) ==
    \/ Fails(t, "p_scan", "malloc") /\ file # << >> /\ file[1].committed
    \/ \E at \in PutPcs \ {"p_scan"} : Fails(t, at, "write")

----------------------------------------------------------------------------
(* The body of kvdb_get.                                                   *)

GetSeek(t) ==
    /\ Goto(t, "g_seek", "g_scan")
    /\ pos' = [pos EXCEPT ![hnd[t]] = 0]
    /\ UNCHANGED <<disk, locks, fd, args, locals, ret, spent>>

\* Another record follows whose header and lengths can be read.
HasRecord(h) == pos[h] < Len(file) /\ file[pos[h] + 1].shape # "short"

\* Faulty variants: the first match wins; the committed word is not tested.
WantedFirst(t, r)       == Valid(r) /\ r.key = key[t] /\ best[t] = None
WantedUncommitted(t, r) == r.shape = "whole" /\ r.key = key[t]

\* A record is remembered when it is committed, intact and has the key.
Wanted(t, r) == Valid(r) /\ r.key = key[t]

GetRecord(t) ==
    /\ pc[t] = "g_scan" /\ HasRecord(hnd[t])
    /\ LET r == file[pos[hnd[t]] + 1]
       IN  best' = [best EXCEPT ![t] = IF Wanted(t, r) THEN r.val ELSE @]
    /\ pos' = [pos EXCEPT ![hnd[t]] = @ + 1]
    /\ UNCHANGED <<disk, locks, fd, pc, args, off, rc, ret, spent>>

\* End of file, a record that cannot be followed, or a read error.
GetDone(t) ==
    /\ pc[t] = "g_scan" /\ (~ HasRecord(hnd[t]) \/ "read" \in Faults)
    /\ Finish(t, IF best[t] = None THEN "missing" ELSE best[t])
    /\ UNCHANGED <<disk, locks, fd, pos, args, off, best, ret, spent>>

\* malloc may fail for any record, one that turns out short included.
GetFails(t) == Fails(t, "g_scan", "malloc") /\ pos[hnd[t]] < Len(file)

----------------------------------------------------------------------------
(* The environment.                                                        *)

Release(P) ==
    /\ globalMutex' = [p \in Proc |-> IF p \in P THEN None ELSE globalMutex[p]]
    /\ dbMutex' = [h \in Handle |-> IF HandleProc[h] \in P THEN None ELSE dbMutex[h]]
    /\ flock' = IF flock # None /\ HandleProc[flock] \in P THEN None ELSE flock
    /\ fd' = [h \in Handle |-> fd[h] /\ HandleProc[h] \notin P]

\* A process dies: the kernel closes its files and so drops its flock; what it
\* wrote stays in the page cache.
ProcCrash(p) ==
    /\ crashes < MaxCrashes /\ crashes' = crashes + 1
    /\ Abandon({t \in Thread : ProcOf[t] = p})
    /\ Release({p})
    /\ UNCHANGED <<disk, pos, calls, losses>>

PowerLoss ==
    /\ losses < MaxLosses /\ losses' = losses + 1
    /\ file' \in durable
    /\ durable' = {file'}
    /\ Abandon(Thread)
    /\ Release(Proc)
    /\ UNCHANGED <<pos, acked, calls, crashes>>

----------------------------------------------------------------------------

\* The steps of a call that has begun.
Proceed(t) == \/ LockGlobal(t) \/ LockDb(t) \/ Flock(t)
              \/ UnFlock(t) \/ UnlockDb(t) \/ UnlockGlobal(t)
              \/ PutScan(t) \/ PutTruncate(t) \/ PutHeader(t) \/ PutKeyValue(t)
              \/ PutSync(t) \/ PutCommit(t) \/ PutSync2(t)
              \/ GetSeek(t) \/ GetRecord(t) \/ GetDone(t)

Step(t) == Proceed(t) \/ FlockFails(t) \/ PutFails(t) \/ GetFails(t)

Request(t, h) == \/ KvdbOpen(t, h) \/ KvdbClose(t, h)
                 \/ \E k \in Key, v \in Val : KvdbPut(t, h, k, v)
                 \/ \E k \in Key : KvdbGet(t, h, k)
                 \/ \E k \in Key \cup {BadKey} : Refuse(t, h, k)

Next == \/ \E t \in Thread : Step(t)
        \/ \E t \in Thread, h \in Handle : Request(t, h)
        \/ \E p \in Proc : ProcCrash(p)
        \/ PowerLoss

Spec == Init /\ [][Next]_vars

\* A call that has begun is scheduled: nothing in the library blocks but the
\* locks, and the number of calls is bounded, so that weak fairness suffices.
\* No failure is ever forced.
FairSpec == Spec /\ \A t \in Thread : WF_vars(Proceed(t))

----------------------------------------------------------------------------
(* Properties.                                                             *)

InFile(t) == pc[t] \in FilePcs \cup {"un_flock"}

\* lock_db keeps everybody else out of the file: threads that share a handle
\* (and with it the flock and the file offset), threads with handles of their
\* own, and other processes, also when some of them die holding the locks.
MutualExclusion == \A t, u \in Thread : InFile(t) /\ InFile(u) => t = u

Tidy(g) == \A i, j \in 1 .. Len(g) : i < j /\ Valid(g[j]) => Valid(g[i])

\* No committed record stands behind one that is not: valid_prefix_end, which
\* stops at the first, and kvdb_get, which goes on, see the same records, and
\* the truncation of the next put loses nothing.  It holds of the file and of
\* every file that a loss of power may leave (the reason for the first fsync).
NoHiddenRecord == \A g \in durable \cup {file} : Tidy(g)

Extends(g, f) == Len(f) <= Len(g) /\ \A i \in 1 .. Len(f) : g[i] = f[i]

\* The file as it was when a put last returned 0 is a prefix of the file and
\* of whatever a loss of power may leave (the reason for the second fsync).
AckedDurable == \A g \in durable \cup {file} : Extends(g, acked)

\* The file is append-only: but for a loss of power no step removes or alters a
\* committed record, whatever calls fail or processes die.
KeepsValidRecords ==
    \A n \in 0 .. Len(file) :
        IsValidPrefix(file, n) =>
            n <= Len(file') /\ \A i \in 1 .. n : file'[i] = file[i]

AppendOnly == [][losses' = losses => KeepsValidRecords]_vars

\* Every call returns: no path of lock_db, the bodies or unlock_db leaves a lock
\* behind, and no two callers wait for each other.
CallsReturn == \A t \in Thread : pc[t] # "idle" ~> pc[t] = "idle"
=============================================================================
