----------------------------- MODULE KvdbProofs -----------------------------
(***************************************************************************)
(* Proofs about libkvdb for any number of processes, threads, handles,     *)
(* keys and values, with any of the system calls failing; and that it      *)
(* implements the map of KvStore when all but the reads may fail.          *)
(***************************************************************************)
EXTENDS KvdbRefinement, SequenceTheorems, WellFoundedInduction, TLAPS

\* The abbreviations for tuples of variables are always expanded.
USE DEF disk, locals, locks, args, spent

----------------------------------------------------------------------------
(* The inductive invariant.                                                *)

\* A call in progress has its arguments, and a result by the time it unlocks.
CallOK ==
    \A t \in Thread :
        /\ pc[t] # "idle" => /\ hnd[t] \in Handle /\ HandleProc[hnd[t]] = ProcOf[t]
                             /\ fd[hnd[t]]
                             /\ key[t] \in Key /\ op[t] \in {"put", "get"}
                             /\ op[t] = "put" => val[t] \in Val
        /\ pc[t] \in PutPcs => op[t] = "put"
        /\ pc[t] \in {"un_flock", "un_db", "un_global"} => rc[t] # "pending"

\* What the locks of lock_db are worth: whoever holds them is where its pc says.
LockOK ==
    \A t \in Thread :
        /\ pc[t] \in FilePcs \cup {"flock", "un_flock", "un_db"}
              => dbMutex[hnd[t]] = t
        /\ InFile(t) => flock = hnd[t]

\* Where a put stands: the records before off are the valid ones, acknowledged
\* ones among them, and its own record is the last.
PutOK ==
    \A t \in Thread :
        LET n == off[t]
        IN  /\ pc[t] \in PutPcs \ {"p_scan"} =>
                  n <= Len(file) /\ IsValidPrefix(file, n) /\ Len(acked) <= n
            /\ pc[t] = "p_trunc" => IsValidEnd(file, n)
            /\ pc[t] = "p_head" => Len(file) = n
            /\ pc[t] \in {"p_head", "p_rest"} => pos[hnd[t]] = n
            /\ pc[t] \in {"p_rest", "p_sync", "p_commit"} =>
                  Len(file) = n + 1 /\ ~ file[n + 1].committed
            /\ pc[t] \in {"p_sync", "p_commit"} => file[n + 1].shape = "whole"
            /\ pc[t] = "p_commit" => durable = {file}
            /\ pc[t] = "p_sync2" => Len(file) = n + 1 /\ Valid(file[n + 1])

\* Every acknowledged record is valid.
AckedValid == IsValidPrefix(acked, Len(acked))

----------------------------------------------------------------------------
(* The operators on files.                                                 *)

\* Truncation keeps a prefix and the type of the file.
LEMMA CutType ==
    ASSUME NEW f \in Seq(Records), NEW n \in Nat
    PROVE  /\ Cut(f, n) \in Seq(Records)
           /\ Len(Cut(f, n)) <= n /\ Len(Cut(f, n)) <= Len(f)
           /\ n <= Len(f) => Len(Cut(f, n)) = n
           /\ \A i \in 1 .. Len(Cut(f, n)) : Cut(f, n)[i] = f[i]
  <1> DEFINE m == IF n < Len(f) THEN n ELSE Len(f)
  <1>1. m \in Nat /\ m <= Len(f) /\ m <= n
    OBVIOUS
  <1>2. /\ SubSeq(f, 1, m) \in Seq(Records) 
        /\ Len(SubSeq(f, 1, m)) = m
        /\ \A i \in 1 .. m : SubSeq(f, 1, m)[i] = f[i]
    BY <1>1
  <1> QED BY <1>1, <1>2 DEF Cut

\* Setting the committed word changes that word only.
LEMMA SetCommittedType ==
    ASSUME NEW f \in Seq(Records), NEW n \in Nat
    PROVE  /\ SetCommitted(f, n) \in Seq(Records)
           /\ Len(SetCommitted(f, n)) = Len(f)
           /\ \A i \in 1 .. Len(f) : i # n => SetCommitted(f, n)[i] = f[i]
           /\ n \in 1 .. Len(f) =>
                 SetCommitted(f, n)[n] = [f[n] EXCEPT !.committed = TRUE]
  <1>1. CASE n \notin DOMAIN f
    BY <1>1 DEF SetCommitted
  <1>2. CASE n \in DOMAIN f
    <2> DEFINE e == [f[n] EXCEPT !.committed = TRUE]
    <2>1. n \in 1 .. Len(f) /\ f[n] \in Records
      BY <1>2
    <2>3. e \in Records
      BY <2>1 DEF Records
    <2>2. /\ [f EXCEPT ![n] = e] \in Seq(Records)
          /\ Len([f EXCEPT ![n] = e]) = Len(f)
          /\ \A j \in 1 .. Len(f) :
                [f EXCEPT ![n] = e][j] = IF j = n THEN e ELSE f[j]
      BY <2>1, <2>3, ExceptSeq
    <2> QED BY <1>2, <2>1, <2>2, <2>3 DEF SetCommitted
  <1> QED BY <1>1, <1>2

\* Writing a record behind a prefix.
LEMMA AppendCut ==
    ASSUME NEW f \in Seq(Records), NEW n \in Nat, NEW r \in Records
    PROVE  /\ Append(Cut(f, n), r) \in Seq(Records)
           /\ Len(Append(Cut(f, n), r)) = Len(Cut(f, n)) + 1
           /\ \A i \in 1 .. Len(Cut(f, n)) : Append(Cut(f, n), r)[i] = f[i]
           /\ Append(Cut(f, n), r)[Len(Cut(f, n)) + 1] = r
  <1> DEFINE c == Cut(f, n)
  <1>1. c \in Seq(Records) /\ \A i \in 1 .. Len(c) : c[i] = f[i]
    BY CutType
  <1> HIDE DEF c
  <1>2. /\ Append(c, r) \in Seq(Records)
        /\ Len(Append(c, r)) = Len(c) + 1
        /\ \A i \in 1 .. Len(c) : Append(c, r)[i] = c[i]
        /\ Append(c, r)[Len(c) + 1] = r
    BY <1>1
  <1> QED BY <1>1, <1>2 DEF c

\* The images of an unsynced write are files.
LEMMA UnsyncedType ==
    ASSUME durable \in SUBSET Seq(Records), NEW n \in Nat, NEW r \in Records,
           NEW S \in SUBSET Shapes
    PROVE  Unsynced(n, r, S) \in SUBSET Seq(Records)
  <1>1. \A s \in S : [r EXCEPT !.shape = s] \in Records
    BY DEF Records
  <1>2. \A g \in durable, s \in S :
           Append(Cut(g, n), [r EXCEPT !.shape = s]) \in Seq(Records)
    BY <1>1, AppendCut
  <1>3. ASSUME NEW f \in Unsynced(n, r, S)
        PROVE  f \in durable \/ \E g \in durable, s \in S :
                                    f = Append(Cut(g, n), [r EXCEPT !.shape = s])
    BY <1>3 DEF Unsynced
  <1> QED BY <1>2, <1>3

----------------------------------------------------------------------------

\* Every variable keeps its type.
LEMMA TypeInit == Init => TypeOK
  <1> SUFFICES ASSUME Init PROVE TypeOK
    OBVIOUS
  <1>1. file \in Seq(Records)
    <2>1. CASE file = << >>
      BY <2>1
    <2>2. ASSUME NEW k \in Key, NEW v \in Val, file = <<Record(k, v, "short")>>
          PROVE  file \in Seq(Records)
      <3>1. Record(k, v, "short") \in Records
        BY DEF Record, Records, Shapes
      <3> QED BY <2>2, <3>1
    <2> QED BY <2>1, <2>2 DEF Init
  <1>2. acked \in Seq(Records)
    BY DEF Init
  <1> QED BY <1>1, <1>2, ConstAssumption DEF Init, TypeOK, Pcs, Results

\* Every step keeps the types; a call finds its arguments where Begin put them.
LEMMA TypeStep == TypeOK /\ CallOK /\ [Next]_vars => TypeOK'
  <1> SUFFICES ASSUME TypeOK, CallOK, [Next]_vars PROVE TypeOK'
    OBVIOUS
  <1> USE DEF TypeOK
  <1>1. ASSUME NEW t \in Thread, NEW h \in Handle, Request(t, h) PROVE TypeOK'
    <2>1. CASE KvdbOpen(t, h)
      BY <2>1 DEF KvdbOpen
    <2>2. CASE KvdbClose(t, h)
      BY <2>2 DEF KvdbClose
    <2>3. ASSUME NEW k \in Key, NEW v \in Val \cup {None}, NEW o \in {"put", "get"},
                 Begin(t, h, o, k, v)
          PROVE  TypeOK'
      BY <2>3, ConstAssumption DEF Begin, Goto, Pcs
    <2>4. ASSUME NEW k \in Key \cup {BadKey}, Refuse(t, h, k) PROVE TypeOK'
      BY <2>4 DEF Refuse
    <2> QED BY <1>1, <2>1, <2>2, <2>3, <2>4 DEF Request, KvdbPut, KvdbGet
  <1>2. ASSUME NEW t \in Thread, Step(t) PROVE TypeOK'
    <2> USE DEF Goto, Finish, Pcs, FilePcs, PutPcs, GetPcs
    <2>1. CASE LockGlobal(t)
      BY <2>1, ConstAssumption DEF LockGlobal
    <2>2. CASE LockDb(t)
      BY <2>2 DEF LockDb
    <2>3. CASE Flock(t)
      BY <2>3 DEF Flock, FlockFree, CallOK
    <2>4. CASE FlockFails(t)
      BY <2>4 DEF FlockFails, Results
    <2>5. CASE UnFlock(t)
      BY <2>5 DEF UnFlock
    <2>6. CASE UnlockDb(t)
      BY <2>6 DEF UnlockDb
    <2>7. CASE UnlockGlobal(t)
      BY <2>7 DEF UnlockGlobal, Result, DropLocals, CallOK, Results
    <2>8. CASE PutScan(t)
      BY <2>8 DEF PutScan, ValidPrefixEnds
    <2>9. CASE PutTruncate(t)
      <3>1. off[t] \in Nat
        OBVIOUS
      <3>2. \A g \in Seq(Records) : Cut(g, off[t]) \in Seq(Records)
        BY <3>1, CutType
      <3>3. file' \in Seq(Records) /\ durable' \in SUBSET Seq(Records)
        BY <2>9, <3>2 DEF PutTruncate
      <3> QED BY <2>9, <3>1, <3>3 DEF PutTruncate
    <2>10. CASE PutHeader(t)
      <3>1. pos[hnd[t]] \in Nat /\ Record(key[t], val[t], "short") \in Records
        BY <2>10 DEF PutHeader, CallOK, Record, Records, Shapes
      <3>2. file' \in Seq(Records)
        BY <2>10, <3>1, AppendCut DEF PutHeader
      <3>3. durable' \in SUBSET Seq(Records)
        BY <2>10, <3>1, UnsyncedType DEF PutHeader, Shapes
      <3> QED BY <2>10, <3>2, <3>3 DEF PutHeader, Results
    <2>11. CASE PutKeyValue(t)
      <3>1. pos[hnd[t]] \in Nat /\ Record(key[t], val[t], "whole") \in Records
        BY <2>11 DEF PutKeyValue, CallOK, Record, Records, Shapes
      <3>2. file' \in Seq(Records)
        BY <2>11, <3>1, AppendCut DEF PutKeyValue
      <3>3. durable' \in SUBSET Seq(Records)
        BY <2>11, <3>1, UnsyncedType DEF PutKeyValue, Shapes
      <3> QED BY <2>11, <3>2, <3>3 DEF PutKeyValue
    <2>12. CASE PutSync(t)
      BY <2>12 DEF PutSync, Fsync
    <2>13. CASE PutCommit(t)
      <3>1. off[t] + 1 \in Nat
        OBVIOUS
      <3>2. \A g \in Seq(Records) : SetCommitted(g, off[t] + 1) \in Seq(Records)
        BY <3>1, SetCommittedType
      <3>3. file' \in Seq(Records) /\ durable' \in SUBSET Seq(Records)
        BY <2>13, <3>2 DEF PutCommit
      <3> QED BY <2>13, <3>3 DEF PutCommit
    <2>14. CASE PutSync2(t)
      BY <2>14 DEF PutSync2, Fsync, Results
    <2>15. CASE PutFails(t)
      <3>1. \E at \in Pcs, kind \in {"malloc", "write"} : Fails(t, at, kind)
        BY <2>15 DEF PutFails
      <3> QED BY <3>1 DEF Fails, Results
    <2>16. CASE GetSeek(t)
      BY <2>16 DEF GetSeek
    <2>17. CASE GetRecord(t)
      <3>1. hnd[t] \in Handle
        BY <2>17 DEF GetRecord, Wanted, CallOK
      <3>2. file[pos[hnd[t]] + 1] \in Records
        BY <2>17, <3>1 DEF GetRecord, Wanted, HasRecord
      <3>3. best' \in [Thread -> Val \cup {None}]
        BY <2>17, <3>2 DEF GetRecord, Wanted, Records
      <3> QED BY <2>17, <3>1, <3>3 DEF GetRecord, Wanted
    <2>18. CASE GetDone(t)
      BY <2>18 DEF GetDone, Results
    <2>19. CASE GetFails(t)
      BY <2>19 DEF GetFails, Fails, Results
    <2> QED BY <1>2, <2>1, <2>2, <2>3, <2>4, <2>5, <2>6, <2>7, <2>8, <2>9, <2>10,
               <2>11, <2>12, <2>13, <2>14, <2>15, <2>16, <2>17, <2>18, <2>19
            DEF Step, Proceed
  <1>3. ASSUME NEW p \in Proc, ProcCrash(p) PROVE TypeOK'
    BY <1>3, ConstAssumption DEF ProcCrash, Abandon, DropLocals, Release, Pcs, Results
  <1>4. CASE PowerLoss
    BY <1>4, ConstAssumption DEF PowerLoss, Abandon, DropLocals, Release, Pcs, Results
  <1>5. CASE UNCHANGED vars
    BY <1>5 DEF vars
  <1> QED BY <1>1, <1>2, <1>3, <1>4, <1>5 DEF Next
----------------------------------------------------------------------------
(* The arguments and the locks of a call.                                  *)

\* Every step keeps the arguments of the calls in progress: kvdb_close leaves a
\* handle alone while some call has it.
LEMMA CallStep == TypeOK /\ CallOK /\ [Next]_vars => CallOK'
  <1> SUFFICES ASSUME TypeOK, CallOK, [Next]_vars, NEW u \in Thread
               PROVE  CallOK!(u)'
    BY DEF CallOK
  <1> USE DEF TypeOK, CallOK, PutPcs, GetPcs
  <1>1. ASSUME NEW t \in Thread, NEW h \in Handle, Request(t, h) PROVE CallOK!(u)'
    <2>1. CASE KvdbOpen(t, h) \/ KvdbClose(t, h)
      BY <2>1 DEF KvdbOpen, KvdbClose
    <2>2. ASSUME NEW o \in {"put", "get"}, NEW k \in Key, NEW v \in Val \cup {None},
                 o = "put" => v \in Val, Begin(t, h, o, k, v)
          PROVE  CallOK!(u)'
      BY <2>2 DEF Begin, Goto
    <2>3. ASSUME NEW k, Refuse(t, h, k) PROVE CallOK!(u)'
      BY <2>3 DEF Refuse
    <2> QED BY <1>1, <2>1, <2>2, <2>3 DEF Request, KvdbPut, KvdbGet
  <1>2. ASSUME NEW t \in Thread, Step(t) PROVE CallOK!(u)'
    <2> USE DEF Goto, Finish
    <2>1. CASE LockGlobal(t) \/ LockDb(t) \/ Flock(t) \/ UnFlock(t) \/ UnlockDb(t)
      BY <2>1 DEF LockGlobal, LockDb, Flock, FlockFree, UnFlock, UnlockDb
    <2>2. CASE UnlockGlobal(t)
      BY <2>2 DEF UnlockGlobal, Result, DropLocals
    <2>3. CASE FlockFails(t) \/ PutFails(t) \/ GetFails(t)
      <3>1. CASE FlockFails(t)
        BY <3>1 DEF FlockFails
      <3>2. ASSUME NEW at \in FilePcs, NEW kind \in Faults, Fails(t, at, kind)
            PROVE  CallOK!(u)'
        BY <3>2 DEF Fails, FilePcs
      <3> QED BY <2>3, <3>1, <3>2 DEF PutFails, GetFails, Fails, FilePcs
    <2>4. CASE PutScan(t) \/ PutTruncate(t) \/ PutKeyValue(t) \/ PutSync(t) \/ PutCommit(t)
      BY <2>4 DEF PutScan, PutTruncate, PutKeyValue, PutSync, PutCommit, Fsync
    <2>5. CASE PutHeader(t) \/ PutSync2(t)
      BY <2>5 DEF PutHeader, PutSync2
    <2>6. CASE GetSeek(t) \/ GetRecord(t)
      BY <2>6 DEF GetSeek, GetRecord
    <2>7. CASE GetDone(t)
      BY <2>7, ConstAssumption DEF GetDone
    <2> QED BY <1>2, <2>1, <2>2, <2>3, <2>4, <2>5, <2>6, <2>7 DEF Step, Proceed
  <1>3. ASSUME NEW p \in Proc, ProcCrash(p) PROVE CallOK!(u)'
    BY <1>3, ConstAssumption DEF ProcCrash, Abandon, DropLocals, Release
  <1>4. CASE PowerLoss
    BY <1>4 DEF PowerLoss, Abandon, DropLocals
  <1>5. CASE UNCHANGED vars
    BY <1>5 DEF vars
  <1> QED BY <1>1, <1>2, <1>3, <1>4, <1>5 DEF Next

\* Two threads in the file would hold one flock, so one handle, so one db->mutex.
LEMMA LockExcludes == LockOK => MutualExclusion
  BY DEF LockOK, MutualExclusion, InFile, FilePcs

\* Only the owner of a mutex, or the death of its process, releases it; a thread
\* that is granted the flock again shares it with nobody, because it has the
\* mutex of the handle.
LEMMA LockStep == TypeOK /\ CallOK /\ LockOK /\ [Next]_vars => LockOK'
  <1> SUFFICES ASSUME TypeOK, CallOK, LockOK, [Next]_vars, NEW u \in Thread
               PROVE  LockOK!(u)'
    BY DEF LockOK
  <1>a. MutualExclusion
    BY LockExcludes
  <1> USE DEF TypeOK, CallOK, LockOK, InFile, FilePcs, PutPcs, GetPcs
  <1>1. ASSUME NEW t \in Thread, NEW h \in Handle, Request(t, h) PROVE LockOK!(u)'
    BY <1>1, ConstAssumption
       DEF Request, KvdbOpen, KvdbClose, KvdbPut, KvdbGet, Begin, Refuse, Goto
  <1>2. ASSUME NEW t \in Thread, Step(t) PROVE LockOK!(u)'
    <2> USE DEF Goto, Finish
    <2>1. CASE LockGlobal(t)
      BY <2>1 DEF LockGlobal
    <2>2. CASE LockDb(t)
      BY <2>2, ConstAssumption DEF LockDb
    <2>3. CASE Flock(t)
      BY <2>3, ConstAssumption DEF Flock, FlockFree
    <2>4. CASE UnFlock(t)
      BY <2>4, <1>a DEF UnFlock, MutualExclusion
    <2>5. CASE UnlockDb(t)
      BY <2>5 DEF UnlockDb
    <2>6. CASE UnlockGlobal(t)
      BY <2>6 DEF UnlockGlobal, Result, DropLocals
    <2>7. CASE FlockFails(t) \/ PutFails(t) \/ GetFails(t)
      BY <2>7 DEF FlockFails, PutFails, GetFails, Fails
    <2>8. CASE PutScan(t) \/ PutTruncate(t) \/ PutKeyValue(t) \/ PutSync(t) \/ PutCommit(t)
      BY <2>8 DEF PutScan, PutTruncate, PutKeyValue, PutSync, PutCommit, Fsync
    <2>9. CASE PutHeader(t) \/ PutSync2(t)
      BY <2>9 DEF PutHeader, PutSync2
    <2>10. CASE GetSeek(t) \/ GetRecord(t) \/ GetDone(t)
      BY <2>10 DEF GetSeek, GetRecord, GetDone
    <2> QED BY <1>2, <2>1, <2>2, <2>3, <2>4, <2>5, <2>6, <2>7, <2>8, <2>9, <2>10
            DEF Step, Proceed
  <1>3. ASSUME NEW p \in Proc, ProcCrash(p) PROVE LockOK!(u)'
    BY <1>3, ConstAssumption DEF ProcCrash, Abandon, DropLocals, Release
  <1>4. CASE PowerLoss
    BY <1>4 DEF PowerLoss, Abandon, DropLocals
  <1>5. CASE UNCHANGED vars
    BY <1>5 DEF vars
  <1> QED BY <1>1, <1>2, <1>3, <1>4, <1>5 DEF Next

\* The inductive invariant of the locks.
LockInv == TypeOK /\ CallOK /\ LockOK

\* Types, arguments and locks are an invariant of the library.
THEOREM LockInvariant == Spec => []LockInv
  <1>1. Init => LockInv
    BY TypeInit DEF Init, LockInv, CallOK, LockOK, InFile, FilePcs, PutPcs, GetPcs
  <1>2. LockInv /\ [Next]_vars => LockInv'
    BY TypeStep, CallStep, LockStep DEF LockInv
  <1> QED BY <1>1, <1>2, PTL DEF Spec

\* lock_db is a mutual exclusion protocol for the threads of any number of
\* processes, in the face of failing system calls, death and power losses.
THEOREM MutualExclusionTheorem == Spec => []MutualExclusion
  <1>1. LockInv => MutualExclusion
    BY LockExcludes DEF LockInv
  <1> QED BY <1>1, LockInvariant, PTL

\* Every variable keeps its type.
THEOREM TypeTheorem == Spec => []TypeOK
  <1>1. LockInv => TypeOK
    BY DEF LockInv
  <1> QED BY <1>1, LockInvariant, PTL
----------------------------------------------------------------------------
(* What truncation and the writes of a put keep of a file.                 *)

\* Behind the acknowledged records everything may be replaced.
LEMMA ReplaceTail ==
    ASSUME NEW f \in Seq(Records), NEW a \in Seq(Records), NEW n \in Nat,
           NEW r \in Records, Extends(f, a), Len(a) <= n
    PROVE  Extends(Cut(f, n), a) /\ Extends(Append(Cut(f, n), r), a)
  <1> DEFINE c == Cut(f, n)
             b == Append(Cut(f, n), r)
  <1>0. c \in Seq(Records)
    BY CutType
  <1>1. Len(a) \in Nat /\ Len(f) \in Nat /\ Len(c) \in Nat
    BY <1>0, LenProperties
  <1>2. Len(a) <= Len(c)
    BY <1>1 DEF Cut, Extends
  <1>3. \A i \in 1 .. Len(c) : c[i] = f[i]
    BY CutType
  <1>4. Len(b) = Len(c) + 1 /\ \A i \in 1 .. Len(c) : b[i] = f[i]
    BY AppendCut
  <1>5. Extends(c, a)
    BY <1>1, <1>2, <1>3 DEF Extends
  <1>6. Extends(b, a)
    BY <1>1, <1>2, <1>4 DEF Extends
  <1> QED BY <1>5, <1>6

\* An uncommitted record behind a prefix hides nothing.
LEMMA TidyTail ==
    ASSUME NEW f \in Seq(Records), NEW n \in Nat, NEW r \in Records,
           Tidy(f), ~ r.committed
    PROVE  Tidy(Cut(f, n)) /\ Tidy(Append(Cut(f, n), r))
  <1> DEFINE c == Cut(f, n)
             b == Append(Cut(f, n), r)
  <1>0. c \in Seq(Records) /\ Len(c) <= Len(f) /\ \A i \in 1 .. Len(c) : c[i] = f[i]
    BY CutType
  <1>1. Len(c) \in Nat /\ Len(f) \in Nat
    BY <1>0, LenProperties
  <1>4. /\ \A i \in 1 .. Len(c) : b[i] = f[i]
        /\ Len(b) = Len(c) + 1 /\ b[Len(c) + 1] = r
    BY AppendCut
  <1>2. Tidy(c)
    BY <1>0, <1>1 DEF Tidy
  <1>3. Tidy(b)
    BY <1>0, <1>1, <1>4 DEF Tidy, Valid
  <1> QED BY <1>2, <1>3

\* Every image of an unsynced write has such a tail.
LEMMA UnsyncedImage ==
    ASSUME NEW n \in Nat, NEW r \in Records, NEW S \in SUBSET Shapes, ~ r.committed,
           NEW f \in Unsynced(n, r, S)
    PROVE  \/ f \in durable
           \/ \E g \in durable, q \in Records :
                 ~ q.committed /\ f = Append(Cut(g, n), q)
  <1>1. \A s \in S : LET q == [r EXCEPT !.shape = s]
                    IN  q \in Records /\ ~ q.committed
    BY DEF Records
  <1>2. f \in durable \/ \E g \in durable, s \in S :
                              f = Append(Cut(g, n), [r EXCEPT !.shape = s])
    BY DEF Unsynced
  <1> QED BY <1>1, <1>2
----------------------------------------------------------------------------
(* The records.                                                            *)

FileInv == PutOK /\ AckedValid /\ NoHiddenRecord /\ AckedDurable

Writing == PutPcs \ {"p_scan"}

\* A step that changes neither the files nor anything a writing put relies on.
LEMMA QuietStep ==
    ASSUME FileInv, UNCHANGED <<file, durable, acked>>,
           \A u \in Thread : \/ pc'[u] \notin Writing
                             \/ /\ pc'[u] = pc[u] /\ off'[u] = off[u]
                                /\ pos'[hnd'[u]] = pos[hnd[u]]
    PROVE  FileInv'
  <1>1. AckedValid' /\ NoHiddenRecord' /\ AckedDurable'
    BY DEF FileInv, AckedValid, NoHiddenRecord, AckedDurable
  <1>2. PutOK'
    BY DEF FileInv, PutOK, Writing, PutPcs, IsValidEnd, IsValidPrefix
  <1> QED BY <1>1, <1>2 DEF FileInv

\* While one thread is in the file, no other is writing.
LEMMA OthersQuiet ==
    ASSUME LockInv, NEW t \in Thread, InFile(t), NEW u \in Thread, u # t
    PROVE  pc[u] \notin PutPcs
  BY LockExcludes DEF LockInv, MutualExclusion, InFile, FilePcs

\* Opening, closing, starting a call and refusing one leave the files alone.
LEMMA RequestStep ==
    ASSUME LockInv, FileInv, NEW t \in Thread, NEW h \in Handle, Request(t, h)
    PROVE  FileInv'
  <1>1. UNCHANGED <<file, durable, acked>>
    BY DEF Request, KvdbOpen, KvdbClose, KvdbPut, KvdbGet, Begin, Refuse
  <1>2. ASSUME NEW u \in Thread, pc'[u] \in Writing
        PROVE  pc'[u] = pc[u] /\ off'[u] = off[u] /\ pos'[hnd'[u]] = pos[hnd[u]]
    BY <1>2 DEF Request, KvdbOpen, KvdbClose, KvdbPut, KvdbGet, Begin, Refuse, Goto,
                Writing, PutPcs, LockInv, TypeOK, CallOK
  <1> QED BY <1>1, <1>2, QuietStep

\* The locking steps, the body of kvdb_get and every failing call but that of
\* the header leave the files alone.
QuietAction(t) == \/ LockGlobal(t) \/ LockDb(t) \/ Flock(t) \/ FlockFails(t)
                  \/ UnFlock(t) \/ UnlockDb(t) \/ UnlockGlobal(t) \/ PutFails(t)
                  \/ GetSeek(t) \/ GetRecord(t) \/ GetDone(t) \/ GetFails(t)

\* So do the steps that lock, unlock, read or fail.
LEMMA QuietActionStep ==
    ASSUME LockInv, FileInv, NEW t \in Thread, QuietAction(t)
    PROVE  FileInv'
  <1> USE DEF LockInv, TypeOK, Writing, PutPcs, Goto, Finish
  <1>1. CASE LockGlobal(t) \/ LockDb(t) \/ Flock(t) \/ FlockFails(t) \/ UnFlock(t)
             \/ UnlockDb(t)
    BY <1>1, QuietStep DEF LockGlobal, LockDb, Flock, FlockFree, FlockFails, UnFlock, UnlockDb
  <1>2. CASE UnlockGlobal(t)
    BY <1>2, QuietStep DEF UnlockGlobal, Result, DropLocals
  <1>3. CASE PutFails(t) \/ GetFails(t)
    BY <1>3, QuietStep DEF PutFails, GetFails, Fails
  <1>4. CASE GetSeek(t) \/ GetRecord(t) \/ GetDone(t)
    <2>1. \A u \in Thread \ {t} : pc[u] \notin PutPcs
      BY <1>4, OthersQuiet DEF GetSeek, GetRecord, GetDone, InFile, FilePcs, GetPcs
    <2> QED BY <1>4, <2>1, QuietStep DEF GetSeek, GetRecord, GetDone
  <1> QED BY <1>1, <1>2, <1>3, <1>4 DEF QuietAction

\* What PutOK says of one thread, and that only the writing thread matters.
LEMMA WriterOnly ==
    ASSUME LockInv, NEW t \in Thread, InFile(t), PutOK!(t)',
           \A u \in Thread \ {t} : pc'[u] = pc[u]
    PROVE  PutOK'
  <1>1. \A u \in Thread \ {t} : pc'[u] \notin PutPcs
    BY OthersQuiet
  <1> QED BY <1>1 DEF PutOK, PutPcs

\* valid_prefix_end does not stop before the last acknowledged record.
LEMMA ScanStep ==
    ASSUME LockInv, FileInv, "read" \notin Faults, NEW t \in Thread, PutScan(t)
    PROVE  FileInv'
  <1> USE DEF PutScan, Goto
  <1>1. PICK n \in 0 .. Len(file) : IsValidEnd(file, n) /\ off' = [off EXCEPT ![t] = n]
    BY DEF ValidPrefixEnds
  <1>2. Len(acked) \in Nat /\ Len(file) \in Nat
    BY LenProperties DEF LockInv, TypeOK
  <1>3. Len(acked) <= n
    BY <1>1, <1>2 DEF FileInv, AckedValid, AckedDurable, Extends, IsValidEnd,
                      IsValidPrefix
  <1>4. pc'[t] = "p_trunc" /\ off'[t] = n
    BY <1>1 DEF LockInv, TypeOK
  <1>5. PutOK!(t)'
    BY <1>1, <1>2, <1>3, <1>4 DEF IsValidEnd, IsValidPrefix
  <1>6. PutOK'
    BY <1>5, WriterOnly DEF LockInv, TypeOK, InFile, FilePcs, PutPcs
  <1> QED BY <1>6 DEF FileInv, AckedValid, NoHiddenRecord, AckedDurable

\* The ftruncate of kvdb_put removes only what valid_prefix_end rejected.
LEMMA TruncateStep ==
    ASSUME LockInv, FileInv, NEW t \in Thread, PutTruncate(t)
    PROVE  FileInv'
  <1> USE DEF PutTruncate, Goto
  <1>1. off[t] \in Nat /\ file \in Seq(Records) /\ acked \in Seq(Records)
        /\ durable \in SUBSET Seq(Records) /\ hnd[t] \in Handle
    BY DEF LockInv, TypeOK, CallOK
  <1>2. off[t] <= Len(file) /\ IsValidPrefix(file, off[t]) /\ Len(acked) <= off[t]
    BY DEF FileInv, PutOK, PutPcs
  <1>3. PICK r \in Records : ~ r.committed
    <2>1. key[t] \in Key /\ val[t] \in Val
      BY DEF LockInv, CallOK, PutPcs
    <2>2. Record(key[t], val[t], "short") \in Records
      BY <2>1 DEF Record, Records, Shapes
    <2> QED BY <2>2 DEF Record
  <1>4. \A g \in Seq(Records) : /\ Extends(g, acked) => Extends(Cut(g, off[t]), acked)
                                /\ Tidy(g) => Tidy(Cut(g, off[t]))
    BY <1>1, <1>2, <1>3, ReplaceTail, TidyTail
  <1>5. NoHiddenRecord' /\ AckedDurable' /\ AckedValid'
    BY <1>1, <1>4 DEF FileInv, NoHiddenRecord, AckedDurable, AckedValid
  <1>6. Len(file') = off[t] /\ IsValidPrefix(file', off[t])
    BY <1>1, <1>2, CutType DEF IsValidPrefix
  <1>7. pc'[t] = "p_head" /\ off' = off /\ pos'[hnd'[t]] = off[t] /\ acked' = acked
    BY <1>1 DEF LockInv, TypeOK
  <1>8. PutOK!(t)'
    BY <1>1, <1>2, <1>6, <1>7
  <1>9. PutOK'
    BY <1>8, WriterOnly DEF LockInv, TypeOK, InFile, FilePcs, PutPcs
  <1> QED BY <1>5, <1>9 DEF FileInv

\* The writes of a record behind the valid ones, for both parts of a record.
LEMMA WriteRecord ==
    ASSUME LockInv, FileInv, NEW t \in Thread, pc[t] \in {"p_head", "p_rest"},
           NEW r \in Records, ~ r.committed, NEW S \in SUBSET Shapes,
           file' = Append(Cut(file, pos[hnd[t]]), r),
           durable' = Unsynced(pos[hnd[t]], r, S), acked' = acked
    PROVE  /\ NoHiddenRecord' /\ AckedDurable' /\ AckedValid'
           /\ Len(file') = off[t] + 1 /\ file'[off[t] + 1] = r
           /\ IsValidPrefix(file', off[t]) /\ Len(acked) <= off[t] /\ off[t] \in Nat
  <1>1. off[t] \in Nat /\ file \in Seq(Records) /\ acked \in Seq(Records)
        /\ durable \in SUBSET Seq(Records)
    BY DEF LockInv, TypeOK
  <1>2. /\ off[t] <= Len(file) /\ IsValidPrefix(file, off[t]) /\ Len(acked) <= off[t]
        /\ pos[hnd[t]] = off[t]
    BY DEF FileInv, PutOK, PutPcs
  <1>3. \A g \in Seq(Records), q \in Records : ~ q.committed =>
           /\ Extends(g, acked) => Extends(Append(Cut(g, off[t]), q), acked)
           /\ Tidy(g) => Tidy(Append(Cut(g, off[t]), q))
    BY <1>1, <1>2, ReplaceTail, TidyTail
  <1>4. ASSUME NEW f \in durable' \cup {file'} PROVE Tidy(f) /\ Extends(f, acked)
    <2>1. CASE f = file'
      BY <1>1, <1>2, <1>3, <2>1 DEF FileInv, NoHiddenRecord, AckedDurable
    <2>2. CASE f \in durable
      BY <2>2 DEF FileInv, NoHiddenRecord, AckedDurable
    <2>3. CASE f \in Unsynced(off[t], r, S) /\ f \notin durable
      <3>1. PICK g \in durable, q \in Records :
                    ~ q.committed /\ f = Append(Cut(g, off[t]), q)
        BY <1>1, <2>3, UnsyncedImage
      <3>2. g \in Seq(Records) /\ Tidy(g) /\ Extends(g, acked)
        BY <1>1 DEF FileInv, NoHiddenRecord, AckedDurable
      <3> QED BY <1>3, <3>1, <3>2
    <2> QED BY <1>2, <2>1, <2>2, <2>3
  <1>5. NoHiddenRecord' /\ AckedDurable'
    BY <1>4 DEF NoHiddenRecord, AckedDurable
  <1>6. AckedValid'
    BY DEF FileInv, AckedValid
  <1>7. Len(Cut(file, off[t])) = off[t]
    BY <1>1, <1>2, CutType
  <1>8. /\ Len(file') = off[t] + 1 /\ file'[off[t] + 1] = r
        /\ \A k \in 1 .. off[t] : file'[k] = file[k]
    BY <1>1, <1>2, <1>7, AppendCut
  <1> QED BY <1>1, <1>2, <1>5, <1>6, <1>8 DEF IsValidPrefix

\* The write of the header, complete or cut short, hides and loses nothing.
LEMMA HeaderStep ==
    ASSUME LockInv, FileInv, NEW t \in Thread, PutHeader(t)
    PROVE  FileInv'
  <1> DEFINE r == Record(key[t], val[t], "short")
  <1>1. key[t] \in Key /\ val[t] \in Val /\ hnd[t] \in Handle
    BY DEF PutHeader, LockInv, CallOK, PutPcs
  <1>2. r \in Records /\ ~ r.committed
    BY <1>1 DEF Record, Records, Shapes
  <1>3. /\ NoHiddenRecord' /\ AckedDurable' /\ AckedValid'
        /\ Len(file') = off[t] + 1 /\ file'[off[t] + 1] = r
        /\ IsValidPrefix(file', off[t]) /\ Len(acked) <= off[t] /\ off[t] \in Nat
    <2>1. /\ pc[t] = "p_head" /\ acked' = acked
          /\ file' = Append(Cut(file, pos[hnd[t]]), r)
          /\ durable' = Unsynced(pos[hnd[t]], r, {"short"})
      BY DEF PutHeader
    <2>2. {"short"} \in SUBSET Shapes
      BY DEF Shapes
    <2> QED BY <1>2, <2>1, <2>2, WriteRecord
  <1>4. /\ pc'[t] \in {"p_rest", "un_flock"} /\ off' = off /\ acked' = acked
        /\ pos'[hnd'[t]] = pos[hnd[t]] /\ \A u \in Thread \ {t} : pc'[u] = pc[u]
    BY DEF PutHeader, Goto, Finish, LockInv, TypeOK
  <1>5. pos[hnd[t]] = off[t]
    BY DEF PutHeader, FileInv, PutOK
  <1>6. PutOK!(t)'
    BY <1>2, <1>3, <1>4, <1>5 DEF PutPcs
  <1>7. PutOK'
    BY <1>4, <1>6, WriterOnly DEF PutHeader, InFile, FilePcs, PutPcs
  <1> QED BY <1>3, <1>7 DEF FileInv

\* Nor do the writes of key and value.
LEMMA KeyValueStep ==
    ASSUME LockInv, FileInv, NEW t \in Thread, PutKeyValue(t)
    PROVE  FileInv'
  <1> DEFINE r == Record(key[t], val[t], "whole")
  <1>1. key[t] \in Key /\ val[t] \in Val /\ hnd[t] \in Handle /\ pc[t] = "p_rest"
    BY DEF PutKeyValue, Goto, LockInv, CallOK, PutPcs
  <1>2. r \in Records /\ ~ r.committed /\ r.shape = "whole"
    BY <1>1 DEF Record, Records, Shapes
  <1>3. /\ NoHiddenRecord' /\ AckedDurable' /\ AckedValid'
        /\ Len(file') = off[t] + 1 /\ file'[off[t] + 1] = r
        /\ IsValidPrefix(file', off[t]) /\ Len(acked) <= off[t] /\ off[t] \in Nat
    BY <1>1, <1>2, WriteRecord DEF PutKeyValue
  <1>4. /\ pc'[t] = "p_sync" /\ off' = off /\ acked' = acked
        /\ \A u \in Thread \ {t} : pc'[u] = pc[u]
    BY DEF PutKeyValue, Goto, LockInv, TypeOK
  <1>5. PutOK!(t)'
    BY <1>2, <1>3, <1>4
  <1>6. PutOK'
    BY <1>1, <1>4, <1>5, WriterOnly DEF InFile, FilePcs, PutPcs
  <1> QED BY <1>3, <1>6 DEF FileInv

\* After the first fsync the disk holds the file, with the record not committed.
LEMMA SyncStep ==
    ASSUME LockInv, FileInv, NEW t \in Thread, PutSync(t)
    PROVE  FileInv'
  <1>1. /\ pc[t] = "p_sync" /\ pc'[t] = "p_commit" /\ durable' = {file}
        /\ UNCHANGED <<file, off, acked>> /\ \A u \in Thread \ {t} : pc'[u] = pc[u]
    BY DEF PutSync, Fsync, Goto, LockInv, TypeOK
  <1>2. NoHiddenRecord' /\ AckedDurable' /\ AckedValid'
    BY <1>1 DEF FileInv, NoHiddenRecord, AckedDurable, AckedValid
  <1>3. PutOK!(t)'
    BY <1>1 DEF FileInv, PutOK, PutPcs, IsValidPrefix
  <1>4. PutOK'
    BY <1>1, <1>3, WriterOnly DEF InFile, FilePcs, PutPcs
  <1> QED BY <1>2, <1>4 DEF FileInv

\* The committed word makes the last record valid and touches no other.
LEMMA CommitStep ==
    ASSUME LockInv, FileInv, NEW t \in Thread, PutCommit(t)
    PROVE  FileInv'
  <1> DEFINE n == off[t]
             f == SetCommitted(file, n + 1)
  <1>1. /\ pc[t] = "p_commit" /\ pc'[t] = "p_sync2" /\ file' = f
        /\ durable' = durable \cup { SetCommitted(g, n + 1) : g \in durable }
        /\ UNCHANGED <<off, acked>> /\ \A u \in Thread \ {t} : pc'[u] = pc[u]
    BY DEF PutCommit, Goto, LockInv, TypeOK
  <1>2. n \in Nat /\ file \in Seq(Records) /\ acked \in Seq(Records)
    BY DEF LockInv, TypeOK
  <1>3. /\ IsValidPrefix(file, n) /\ Len(acked) <= n /\ Len(file) = n + 1
        /\ file[n + 1].shape = "whole" /\ durable = {file}
    BY <1>1 DEF FileInv, PutOK, PutPcs
  <1>4. /\ Len(f) = n + 1 /\ \A i \in 1 .. n : f[i] = file[i]
        /\ f[n + 1] = [file[n + 1] EXCEPT !.committed = TRUE]
    <2>1. n + 1 \in Nat
      BY <1>2
    <2>2. /\ Len(f) = Len(file)
          /\ \A i \in 1 .. Len(file) : i # n + 1 => f[i] = file[i]
          /\ n + 1 \in 1 .. Len(file) =>
                f[n + 1] = [file[n + 1] EXCEPT !.committed = TRUE]
      BY <1>2, <2>1, SetCommittedType
    <2> HIDE DEF f
    <2> QED BY <1>2, <1>3, <2>2
  <1>5. Valid(f[n + 1])
    <2>1. file[n + 1] \in Records
      BY <1>2, <1>3
    <2> QED BY <1>3, <1>4, <2>1 DEF Valid, Records
  <1>6. IsValidPrefix(f, n + 1)
    BY <1>2, <1>3, <1>4, <1>5 DEF IsValidPrefix
  <1>7. Tidy(f)
    BY <1>2, <1>4, <1>6 DEF Tidy, IsValidPrefix
  <1>8. Extends(f, acked)
    <2>1. Len(acked) \in Nat
      BY <1>2, LenProperties
    <2> QED BY <1>2, <1>3, <1>4, <2>1 DEF FileInv, AckedDurable, Extends
  <1>9. durable' \cup {file'} = {file, f}
    BY <1>1, <1>3
  <1>10. NoHiddenRecord' /\ AckedDurable' /\ AckedValid'
    BY <1>1, <1>7, <1>8, <1>9 DEF FileInv, NoHiddenRecord, AckedDurable, AckedValid
  <1>11. PutOK!(t)'
    BY <1>1, <1>2, <1>3, <1>4, <1>5, <1>6 DEF IsValidPrefix
  <1>12. PutOK'
    BY <1>1, <1>11, WriterOnly DEF InFile, FilePcs, PutPcs
  <1> QED BY <1>10, <1>12 DEF FileInv

\* After the second fsync the disk holds the committed record: it may be
\* acknowledged.
LEMMA Sync2Step ==
    ASSUME LockInv, FileInv, NEW t \in Thread, PutSync2(t)
    PROVE  FileInv'
  <1>1. /\ pc[t] = "p_sync2" /\ pc'[t] = "un_flock" /\ durable' = {file}
        /\ file' = file /\ acked' = file /\ \A u \in Thread \ {t} : pc'[u] = pc[u]
    BY DEF PutSync2, Fsync, Finish, LockInv, TypeOK
  <1>2. off[t] \in Nat /\ IsValidPrefix(file, off[t]) /\ Len(file) = off[t] + 1
        /\ Valid(file[off[t] + 1])
    BY <1>1 DEF FileInv, PutOK, PutPcs, LockInv, TypeOK
  <1>3. IsValidPrefix(file, Len(file))
    BY <1>2 DEF IsValidPrefix
  <1>4. Extends(file, file)
    BY <1>2 DEF Extends
  <1>5. NoHiddenRecord' /\ AckedDurable' /\ AckedValid'
    BY <1>1, <1>3, <1>4 DEF FileInv, NoHiddenRecord, AckedDurable, AckedValid
  <1>6. PutOK!(t)'
    BY <1>1 DEF PutPcs
  <1>7. PutOK'
    BY <1>1, <1>6, WriterOnly DEF InFile, FilePcs, PutPcs
  <1> QED BY <1>5, <1>7 DEF FileInv

\* Every step keeps what is said of the files, if reads do not fail.
LEMMA FileStep ==
    ASSUME "read" \notin Faults
    PROVE  LockInv /\ FileInv /\ [Next]_vars => FileInv'
  <1> SUFFICES ASSUME LockInv, FileInv, [Next]_vars PROVE FileInv'
    OBVIOUS
  <1>1. ASSUME NEW t \in Thread, NEW h \in Handle, Request(t, h) PROVE FileInv'
    BY <1>1, RequestStep
  <1>2. ASSUME NEW t \in Thread, Step(t) PROVE FileInv'
    <2>1. CASE QuietAction(t)
      BY <2>1, QuietActionStep
    <2>2. CASE PutScan(t)
      BY <2>2, ScanStep
    <2>3. CASE PutTruncate(t)
      BY <2>3, TruncateStep
    <2>4. CASE PutHeader(t)
      BY <2>4, HeaderStep
    <2>5. CASE PutKeyValue(t)
      BY <2>5, KeyValueStep
    <2>6. CASE PutSync(t)
      BY <2>6, SyncStep
    <2>7. CASE PutCommit(t)
      BY <2>7, CommitStep
    <2>8. CASE PutSync2(t)
      BY <2>8, Sync2Step
    <2> QED BY <1>2, <2>1, <2>2, <2>3, <2>4, <2>5, <2>6, <2>7, <2>8
            DEF Step, Proceed, QuietAction
  <1>3. ASSUME NEW p \in Proc, ProcCrash(p) PROVE FileInv'
    <2>1. UNCHANGED <<file, durable, acked, pos>>
      BY <1>3 DEF ProcCrash
    <2>2. ASSUME NEW u \in Thread, pc'[u] \in Writing
          PROVE  pc'[u] = pc[u] /\ off'[u] = off[u] /\ hnd'[u] = hnd[u]
      BY <1>3, <2>2 DEF ProcCrash, Abandon, DropLocals, Writing, PutPcs
    <2> QED BY <2>1, <2>2, QuietStep
  <1>4. CASE PowerLoss
    <2>1. /\ file' \in durable /\ durable' = {file'} /\ acked' = acked
          /\ pc' = [u \in Thread |-> "idle"]
      BY <1>4 DEF PowerLoss, Abandon
    <2> QED BY <2>1 DEF FileInv, PutOK, PutPcs, AckedValid, NoHiddenRecord, AckedDurable
  <1>5. CASE UNCHANGED vars
    BY <1>5, QuietStep DEF vars
  <1> QED BY <1>1, <1>2, <1>3, <1>4, <1>5 DEF Next

\* If reads do not fail, the lock invariant and the file invariant hold for ever.
THEOREM FileInvariant ==
    ASSUME "read" \notin Faults
    PROVE  Spec => [](LockInv /\ FileInv)
  <1>1. Init => FileInv
    <2> SUFFICES ASSUME Init PROVE FileInv
      OBVIOUS
    <2>1. acked = << >> /\ durable = {file} /\ Len(file) \in {0, 1}
      BY DEF Init
    <2>2. PutOK /\ AckedValid
      BY <2>1 DEF Init, PutOK, PutPcs, AckedValid, IsValidPrefix
    <2>3. NoHiddenRecord /\ AckedDurable
      BY <2>1 DEF NoHiddenRecord, AckedDurable, Tidy, Extends
    <2> QED BY <2>2, <2>3 DEF FileInv
  <1>2. LockInv /\ FileInv /\ [Next]_vars => FileInv'
    BY FileStep
  <1> QED BY <1>1, <1>2, LockInvariant, PTL DEF Spec

\* A put that returned 0 is on disk, and stays there whatever fails, dies or
\* loses power afterwards, as long as reads do not fail.
THEOREM AckedDurableTheorem ==
    ASSUME "read" \notin Faults
    PROVE  Spec => []AckedDurable
  <1>1. LockInv /\ FileInv => AckedDurable
    BY DEF FileInv
  <1> QED BY <1>1, FileInvariant, PTL

\* In the file and in every file a loss of power may leave, no committed record
\* stands behind one that the next put would cut off.
THEOREM NoHiddenRecordTheorem ==
    ASSUME "read" \notin Faults
    PROVE  Spec => []NoHiddenRecord
  <1>1. LockInv /\ FileInv => NoHiddenRecord
    BY DEF FileInv
  <1> QED BY <1>1, FileInvariant, PTL

\* If a step keeps the first m records and record m + 1 is not valid, it keeps
\* all valid records.
LEMMA KeepsPrefix ==
    ASSUME file \in Seq(Records), NEW m \in Nat, m <= Len(file), m <= Len(file'),
           \A i \in 1 .. m : file'[i] = file[i],
           m < Len(file) => ~ Valid(file[m + 1])
    PROVE  KeepsValidRecords
  <1>1. ASSUME NEW n \in 0 .. Len(file), IsValidPrefix(file, n) PROVE n <= m
    BY <1>1, LenProperties DEF IsValidPrefix
  <1>2. Len(file) \in Nat
    BY LenProperties
  <1> QED BY <1>1, <1>2 DEF KeepsValidRecords

\* Every step but a loss of power keeps the valid records of the file.
LEMMA KeepsStep ==
    ASSUME LockInv, FileInv, [Next]_vars, losses' = losses
    PROVE  KeepsValidRecords
  <1>1. file \in Seq(Records) /\ Len(file) \in Nat
    BY LenProperties DEF LockInv, TypeOK
  <1>2. CASE file' = file
    BY <1>1, <1>2 DEF KeepsValidRecords
  <1>3. ASSUME NEW t \in Thread, PutTruncate(t) PROVE KeepsValidRecords
    <2>1. off[t] \in Nat /\ off[t] <= Len(file) /\ IsValidEnd(file, off[t])
      BY <1>3 DEF PutTruncate, Goto, LockInv, TypeOK, FileInv, PutOK, PutPcs
    <2>2. Len(file') = off[t] /\ \A i \in 1 .. off[t] : file'[i] = file[i]
      BY <1>1, <1>3, <2>1, CutType DEF PutTruncate
    <2> QED BY <1>1, <2>1, <2>2, KeepsPrefix DEF IsValidEnd
  <1>4. ASSUME NEW t \in Thread, PutHeader(t) \/ PutKeyValue(t) PROVE KeepsValidRecords
    <2>1. pc[t] \in {"p_head", "p_rest"} /\ key[t] \in Key /\ val[t] \in Val
      BY <1>4 DEF PutHeader, PutKeyValue, Goto, LockInv, CallOK, PutPcs
    <2>2. /\ off[t] \in Nat /\ off[t] <= Len(file) /\ pos[hnd[t]] = off[t]
          /\ off[t] < Len(file) => ~ file[off[t] + 1].committed
      BY <1>1, <2>1 DEF LockInv, TypeOK, FileInv, PutOK, PutPcs
    <2>3. PICK r \in Records : file' = Append(Cut(file, off[t]), r)
      BY <1>4, <2>1, <2>2 DEF PutHeader, PutKeyValue, Record, Records, Shapes
    <2>4. Len(Cut(file, off[t])) = off[t]
      BY <1>1, <2>2, CutType
    <2>5. Len(file') = off[t] + 1 /\ \A i \in 1 .. off[t] : file'[i] = file[i]
      BY <1>1, <2>2, <2>3, <2>4, AppendCut
    <2> QED BY <1>1, <2>2, <2>5, KeepsPrefix DEF Valid
  <1>5. ASSUME NEW t \in Thread, PutCommit(t) PROVE KeepsValidRecords
    <2>1. /\ off[t] \in Nat /\ Len(file) = off[t] + 1
          /\ ~ file[off[t] + 1].committed
      BY <1>5 DEF PutCommit, Goto, LockInv, TypeOK, FileInv, PutOK
    <2>2. off[t] + 1 \in Nat /\ file' = SetCommitted(file, off[t] + 1)
      BY <1>5, <2>1 DEF PutCommit
    <2>3. /\ Len(file') = Len(file)
          /\ \A i \in 1 .. Len(file) : i # off[t] + 1 => file'[i] = file[i]
      BY <1>1, <2>2, SetCommittedType
    <2>4. \A i \in 1 .. off[t] : file'[i] = file[i]
      BY <2>1, <2>3
    <2>5. off[t] <= Len(file) /\ off[t] <= Len(file') /\ ~ Valid(file[off[t] + 1])
      BY <2>1, <2>3 DEF Valid
    <2> QED BY <1>1, <2>1, <2>4, <2>5, KeepsPrefix
  <1>6. CASE PowerLoss
    BY <1>6 DEF PowerLoss, LockInv, TypeOK
  <1>7. ASSUME NEW t \in Thread, NEW h \in Handle, Request(t, h) PROVE file' = file
    BY <1>7 DEF Request, KvdbOpen, KvdbClose, KvdbPut, KvdbGet, Begin, Refuse
  <1>8. ASSUME NEW t \in Thread, Step(t) PROVE KeepsValidRecords
    <2>1. CASE QuietAction(t)
      <3>1. file' = file
        BY <2>1 DEF QuietAction, LockGlobal, LockDb, Flock, FlockFree, FlockFails, UnFlock,
                    UnlockDb, UnlockGlobal, PutFails, GetSeek, GetRecord, GetDone,
                    GetFails, Fails
      <3> QED BY <1>2, <3>1
    <2>2. CASE PutScan(t) \/ PutSync(t) \/ PutSync2(t)
      BY <1>2, <2>2 DEF PutScan, PutSync, PutSync2, Fsync
    <2> QED BY <1>3, <1>4, <1>5, <1>8, <2>1, <2>2 DEF Step, Proceed, QuietAction
  <1>9. ASSUME NEW p \in Proc, ProcCrash(p) PROVE file' = file
    BY <1>9 DEF ProcCrash
  <1>10. CASE UNCHANGED vars
    BY <1>2, <1>10 DEF vars
  <1> QED BY <1>2, <1>6, <1>7, <1>8, <1>9, <1>10 DEF Next

\* No step but a loss of power removes or alters a committed record.
THEOREM AppendOnlyTheorem ==
    ASSUME "read" \notin Faults
    PROVE  Spec => AppendOnly
  <1>1. LockInv /\ FileInv /\ [Next]_vars
           => [losses' = losses => KeepsValidRecords]_vars
    BY KeepsStep
  <1> QED BY <1>1, FileInvariant, PTL DEF Spec, AppendOnly

----------------------------------------------------------------------------
(* Refinement.  The inductive invariant also says how far a call has come, *)
(* so that its next step is one of the map.                                *)

Unlocking == {"un_flock", "un_db", "un_global"}

\* A call has a result exactly while it unlocks; that of a get is what it found.
ResultOK ==
    \A t \in Thread :
        /\ pc[t] \notin Unlocking => rc[t] = "pending"
        /\ rc[t] \in Val \cup {"missing"}
              => rc[t] = IF best[t] = None THEN "missing" ELSE best[t]
        /\ pc[t] \in GetPcs => op[t] = "get"
        /\ pc[t] \in {"idle", "lock_global", "lock_db", "flock", "g_seek"} => best[t] = None

\* The valid records of key k among the first n, and the value of the last one.
FoundUpto(f, n, k) == {i \in 1 .. n : Valid(f[i]) /\ f[i].key = k}
LastVal(f, S) == IF S = {} THEN None ELSE f[Max(S)].val

\* A get has passed over records that can be followed, and remembers the value
\* of the last one with its key.
GetOK ==
    \A t \in Thread :
        pc[t] = "g_scan" =>
            /\ pos[hnd[t]] <= Len(file)
            /\ \A i \in 1 .. pos[hnd[t]] : file[i].shape # "short"
            /\ best[t] = LastVal(file, FoundUpto(file, pos[hnd[t]], key[t]))

\* The record a put is about to commit has its key and its value.
RecordOK ==
    \A t \in Thread :
        pc[t] \in {"p_sync", "p_commit"} =>
            file[off[t] + 1].key = key[t] /\ file[off[t] + 1].val = val[t]

\* What a loss of power may leave has no record that the file does not have.
Within(g, f) == \A i \in 1 .. Len(g) : Valid(g[i]) => i <= Len(f) /\ f[i] = g[i]
DurableOK == \A g \in durable : Within(g, file)

RefInv == ResultOK /\ GetOK /\ RecordOK /\ DurableOK

----------------------------------------------------------------------------
(* Looking a key up.                                                       *)

\* Every set of numbers up to n that is not empty has a greatest one, and Max
\* is it.
LEMMA MaxIsGreatest ==
    ASSUME NEW n \in Nat, NEW S \in SUBSET (1 .. n), S # {}
    PROVE  Max(S) \in S /\ \A y \in S : y <= Max(S)
  <1> DEFINE T == {n - i : i \in S}
  <1>0. T \in SUBSET Nat /\ T # {}
    <2>1. \A i \in S : n - i \in Nat
      OBVIOUS
    <2> QED BY <2>1
  <1>1. \E R : IsWellFoundedOn(R, Nat) /\ \A x, y \in Nat : y < x => <<y, x>> \in R
    <2>1. \A x, y \in Nat : y < x => <<y, x>> \in OpToRel(<, Nat)
      BY DEF OpToRel
    <2> QED BY <2>1, NatLessThanWellFounded
  <1>2. PICK R : IsWellFoundedOn(R, Nat) /\ \A x, y \in Nat : y < x => <<y, x>> \in R
    BY <1>1
  <1>3. PICK x \in T : \A y \in T : <<y, x>> \notin R
    <2> HIDE DEF T
    <2> QED BY <1>0, <1>2, WFMin
  <1>4. PICK m \in S : x = n - m
    BY <1>3
  <1>5. ASSUME NEW y \in S PROVE y <= m
    <2>1. n - y \in T /\ n - y \in Nat /\ x \in Nat BY <1>0, <1>3
    <2>2. ~ (n - y < x)
      <3> HIDE DEF T
      <3> QED BY <1>2, <1>3, <2>1
    <2> QED BY <1>4, <2>1, <2>2
  <1>6. \A x2 \in S : (\A y \in S : x2 >= y) => x2 = m
    BY <1>5
  <1>7. Max(S) = m
    BY <1>5, <1>6 DEF Max
  <1> QED BY <1>5, <1>7

\* The last value depends on the records in question only.
LEMMA SameLast ==
    ASSUME NEW f, NEW g, NEW n \in Nat, NEW S \in SUBSET (1 .. n),
           \A i \in S : f[i] = g[i]
    PROVE  LastVal(f, S) = LastVal(g, S)
  BY MaxIsGreatest DEF LastVal

\* A later record takes the place of the earlier ones.
LEMMA LastAdded ==
    ASSUME NEW f, NEW n \in Nat, NEW S \in SUBSET (1 .. n)
    PROVE  LastVal(f, S \cup {n + 1}) = f[n + 1].val
  <1> DEFINE T == S \cup {n + 1}
  <1>1. T \in SUBSET (1 .. n + 1) /\ T # {} /\ n + 1 \in Nat /\ n + 1 \in T
    OBVIOUS
  <1> HIDE DEF T
  <1>2. Max(T) \in T /\ \A y \in T : y <= Max(T)
    BY <1>1, MaxIsGreatest
  <1>3. Max(T) = n + 1
    <2>1. Max(T) \in 1 .. n + 1 /\ n + 1 <= Max(T)
      BY <1>1, <1>2
    <2> QED BY <2>1
  <1> QED BY <1>1, <1>3 DEF LastVal, T

\* In a tidy file all valid records are found.
LEMMA TidyLookup ==
    ASSUME NEW f \in Seq(Records), Tidy(f), NEW k
    PROVE  Lookup(f, k) = LastVal(f, FoundUpto(f, Len(f), k))
  <1> DEFINE found == { i \in DOMAIN f : /\ Valid(f[i]) /\ f[i].key = k
                                         /\ \A j \in 1 .. i : f[j].shape # "short" }
  <1>1. DOMAIN f = 1 .. Len(f) /\ Len(f) \in Nat
    OBVIOUS
  <1>2. \A i \in 1 .. Len(f) : Valid(f[i]) => \A j \in 1 .. i : f[j].shape # "short"
    BY <1>1 DEF Tidy, Valid
  <1>3. found = FoundUpto(f, Len(f), k)
    BY <1>1, <1>2 DEF FoundUpto
  <1>4. Lookup(f, k) = LastVal(f, found)
    BY DEF Lookup, LastVal
  <1> QED BY <1>3, <1>4

\* Two tidy files with the same valid records have the same contents.
LEMMA SameContents ==
    ASSUME NEW f \in Seq(Records), NEW g \in Seq(Records), Tidy(f), Tidy(g),
           \A i \in 1 .. Len(f) : Valid(f[i]) => i <= Len(g) /\ g[i] = f[i],
           \A i \in 1 .. Len(g) : Valid(g[i]) => i <= Len(f) /\ g[i] = f[i]
    PROVE  Contents(f) = Contents(g)
  <1>1. ASSUME NEW k \in Key PROVE Lookup(f, k) = Lookup(g, k)
    <2>0. Len(f) \in Nat /\ Len(g) \in Nat
      OBVIOUS
    <2>1. FoundUpto(f, Len(f), k) = FoundUpto(g, Len(g), k)
      BY <2>0 DEF FoundUpto
    <2> DEFINE S == FoundUpto(f, Len(f), k)
    <2>2. S \in SUBSET (1 .. Len(f)) /\ \A i \in S : f[i] = g[i]
      BY DEF FoundUpto
    <2>3. LastVal(f, S) = LastVal(g, S)
      BY <2>0, <2>2, SameLast
    <2> QED BY <2>1, <2>3, TidyLookup
  <1> QED BY <1>1 DEF Contents

\* Neither truncation behind the valid records nor an uncommitted record there
\* changes the contents.
LEMMA TailContents ==
    ASSUME NEW f \in Seq(Records), NEW n \in Nat, NEW r \in Records, Tidy(f),
           ~ r.committed, \A i \in 1 .. Len(f) : Valid(f[i]) => i <= n
    PROVE  /\ Contents(Cut(f, n)) = Contents(f)
           /\ Contents(Append(Cut(f, n), r)) = Contents(f)
  <1> DEFINE c == Cut(f, n)
             b == Append(Cut(f, n), r)
  <1>1. /\ c \in Seq(Records) /\ Len(c) <= Len(f) /\ Len(c) \in Nat /\ Len(f) \in Nat
        /\ (n <= Len(f) => Len(c) = n) /\ (~ (n <= Len(f)) => Len(c) = Len(f))
        /\ \A i \in 1 .. Len(c) : c[i] = f[i]
    <2>1. c \in Seq(Records) /\ Len(c) <= Len(f) /\ (n <= Len(f) => Len(c) = n)
          /\ \A i \in 1 .. Len(c) : c[i] = f[i]
      BY CutType
    <2>2. Len(c) \in Nat /\ Len(f) \in Nat BY <2>1, LenProperties
    <2>3. ~ (n <= Len(f)) => Len(c) = Len(f) BY <2>2 DEF Cut
    <2> QED BY <2>1, <2>2, <2>3
  <1>2. /\ b \in Seq(Records) /\ Len(b) = Len(c) + 1 /\ b[Len(c) + 1] = r
        /\ \A i \in 1 .. Len(c) : b[i] = f[i]
    BY AppendCut
  <1>3. Tidy(c) /\ Tidy(b)
    BY TidyTail
  <1>4. ~ Valid(r)
    BY DEF Valid
  <1> HIDE DEF c, b
  <1>5. \A i \in 1 .. Len(b) : i \in 1 .. Len(c) \/ i = Len(c) + 1
    BY <1>1, <1>2
  <1>6. \A i \in 1 .. Len(f) : Valid(f[i]) => i \in 1 .. Len(c)
    BY <1>1
  <1>7. Contents(f) = Contents(c)
    <2>1. \A i \in 1 .. Len(f) : Valid(f[i]) => i <= Len(c) /\ c[i] = f[i]
      BY <1>1, <1>6
    <2>2. \A i \in 1 .. Len(c) : Valid(c[i]) => i <= Len(f) /\ c[i] = f[i]
      BY <1>1
    <2> QED BY <1>1, <1>3, <2>1, <2>2, SameContents
  <1>8. Contents(f) = Contents(b)
    <2>1. \A i \in 1 .. Len(f) : Valid(f[i]) => i <= Len(b) /\ b[i] = f[i]
      BY <1>1, <1>2, <1>6
    <2>2. \A i \in 1 .. Len(b) : Valid(b[i]) => i <= Len(f) /\ b[i] = f[i]
      BY <1>1, <1>2, <1>4, <1>5
    <2> QED BY <1>2, <1>3, <2>1, <2>2, SameContents
  <1> QED BY <1>7, <1>8 DEF c, b

\* The committed word of the last record changes what its key has.
LEMMA CommitContents ==
    ASSUME NEW f \in Seq(Records), NEW h \in Seq(Records), NEW n \in Nat,
           Tidy(f), Tidy(h), Len(f) = n + 1, Len(h) = n + 1,
           \A i \in 1 .. n : h[i] = f[i], IsValidPrefix(f, n), ~ Valid(f[n + 1]),
           Valid(h[n + 1])
    PROVE  Contents(h) = [Contents(f) EXCEPT ![h[n + 1].key] = h[n + 1].val]
  <1>0. \A i \in 1 .. n + 1 : i \in 1 .. n \/ i = n + 1
    OBVIOUS
  <1>1. ASSUME NEW k \in Key
        PROVE  Lookup(h, k) = IF k = h[n + 1].key THEN h[n + 1].val ELSE Lookup(f, k)
    <2> DEFINE S == FoundUpto(f, n, k)
    <2>1. S \in SUBSET (1 .. n) /\ \A i \in S : f[i] = h[i]
      BY DEF FoundUpto
    <2>2. FoundUpto(f, n + 1, k) = S
      BY <1>0 DEF FoundUpto
    <2>3. FoundUpto(h, n + 1, k) = IF k = h[n + 1].key THEN S \cup {n + 1} ELSE S
      BY <1>0 DEF FoundUpto
    <2>4. Lookup(f, k) = LastVal(f, S) /\ Lookup(h, k) = LastVal(h, FoundUpto(h, n + 1, k))
      BY <2>2, TidyLookup
    <2> HIDE DEF S
    <2>5. LastVal(f, S) = LastVal(h, S)
      BY <2>1, SameLast
    <2>6. LastVal(h, S \cup {n + 1}) = h[n + 1].val
      BY <2>1, LastAdded
    <2> QED BY <2>3, <2>4, <2>5, <2>6
  <1>2. h[n + 1].key \in Key
    <2>1. h[n + 1] \in Records OBVIOUS
    <2> QED BY <2>1 DEF Records
  <1> QED BY <1>1, <1>2 DEF Contents

\* One more record of a get.
LEMMA ScanNext ==
    ASSUME NEW f, NEW n \in Nat, NEW k
    PROVE  LastVal(f, FoundUpto(f, n + 1, k)) =
              IF Valid(f[n + 1]) /\ f[n + 1].key = k THEN f[n + 1].val
              ELSE LastVal(f, FoundUpto(f, n, k))
  <1> DEFINE S == FoundUpto(f, n, k)
  <1>0. \A i \in 1 .. n + 1 : i \in 1 .. n \/ i = n + 1
    OBVIOUS
  <1>1. S \in SUBSET (1 .. n)
    BY DEF FoundUpto
  <1>2. FoundUpto(f, n + 1, k) = IF Valid(f[n + 1]) /\ f[n + 1].key = k
                                 THEN S \cup {n + 1} ELSE S
    BY <1>0 DEF FoundUpto
  <1> HIDE DEF S
  <1>3. LastVal(f, S \cup {n + 1}) = f[n + 1].val
    BY <1>1, LastAdded
  <1> QED BY <1>2, <1>3 DEF S

\* A get that meets the end of the file, or a record that cannot be followed,
\* has found what there is.
LEMMA ScanEnd ==
    ASSUME NEW f \in Seq(Records), NEW n \in Nat, n <= Len(f), NEW k,
           \A i \in 1 .. n : f[i].shape # "short",
           n = Len(f) \/ f[n + 1].shape = "short"
    PROVE  Lookup(f, k) = LastVal(f, FoundUpto(f, n, k))
  <1> DEFINE found == { i \in DOMAIN f : /\ Valid(f[i]) /\ f[i].key = k
                                         /\ \A j \in 1 .. i : f[j].shape # "short" }
  <1>0. Len(f) \in Nat /\ n <= Len(f)
    BY LenProperties
  <1>1. DOMAIN f = 1 .. Len(f)
    OBVIOUS
  <1>2. ASSUME NEW i \in found PROVE i \in FoundUpto(f, n, k)
    <2>1. /\ i \in 1 .. Len(f) /\ Valid(f[i]) /\ f[i].key = k
          /\ \A j \in 1 .. i : f[j].shape # "short"
      BY <1>1, <1>2
    <2> HIDE DEF found
    <2>2. ASSUME ~ (i <= n) PROVE FALSE
      <3>1. i \in Nat /\ i <= Len(f) BY <1>0, <2>1
      <3>2. n + 1 \in 1 .. i /\ n # Len(f) BY <1>0, <2>2, <3>1
      <3> QED BY <2>1, <3>2
    <2>3. i \in 1 .. n BY <1>0, <2>1, <2>2
    <2> QED BY <2>1, <2>3 DEF FoundUpto
  <1>3. ASSUME NEW i \in FoundUpto(f, n, k) PROVE i \in found
    <2>1. i \in 1 .. n /\ Valid(f[i]) /\ f[i].key = k BY DEF FoundUpto
    <2>2. \A l, m, j \in Nat : l \in 1 .. m /\ j \in 1 .. l => j \in 1 .. m
      OBVIOUS
    <2>3. i \in Nat BY <2>1
    <2>4. \A j \in 1 .. i : j \in 1 .. n BY <2>1, <2>2, <2>3
    <2>5. i \in 1 .. Len(f) BY <1>0, <2>1
    <2> QED BY <1>1, <2>1, <2>4, <2>5
  <1>4. found = FoundUpto(f, n, k)
    <2> HIDE DEF found
    <2> QED BY <1>2, <1>3
  <1>5. Lookup(f, k) = LastVal(f, found)
    BY DEF Lookup, LastVal
  <1> QED BY <1>4, <1>5

----------------------------------------------------------------------------
(* Every step keeps the invariant.                                         *)

\* The results of calls are no values.
LEMMA NoValue == {"pending", "ok", "fail", "missing", "none"} \cap Val = {} /\ None \notin Val
  BY ConstAssumption

LEMMA ResultStep == LockInv /\ ResultOK /\ [Next]_vars => ResultOK'
  <1> SUFFICES ASSUME LockInv, ResultOK, [Next]_vars, NEW u \in Thread
               PROVE  ResultOK!(u)'
    BY DEF ResultOK
  <1>t. /\ pc \in [Thread -> Pcs] /\ op \in [Thread -> {"put", "get", None}]
        /\ rc \in [Thread -> Results \cup Val] /\ best \in [Thread -> Val \cup {None}]
    BY DEF LockInv, TypeOK
  <1> USE <1>t DEF ResultOK, Unlocking, GetPcs
  <1>1. ASSUME NEW t \in Thread, NEW h \in Handle, Request(t, h) PROVE ResultOK!(u)'
    <2>1. CASE KvdbOpen(t, h) \/ KvdbClose(t, h)
      BY <2>1 DEF KvdbOpen, KvdbClose
    <2>2. ASSUME NEW o, NEW k, NEW v, Begin(t, h, o, k, v) PROVE ResultOK!(u)'
      BY <2>2, NoValue DEF Begin, Goto
    <2>3. ASSUME NEW k, Refuse(t, h, k) PROVE ResultOK!(u)'
      BY <2>3 DEF Refuse
    <2> QED BY <1>1, <2>1, <2>2, <2>3 DEF Request, KvdbPut, KvdbGet
  <1>2. ASSUME NEW t \in Thread, Step(t) PROVE ResultOK!(u)'
    <2> USE DEF Goto, Finish
    <2>1. CASE LockGlobal(t) \/ LockDb(t) \/ UnFlock(t) \/ UnlockDb(t)
      BY <2>1 DEF LockGlobal, LockDb, UnFlock, UnlockDb
    <2>2. CASE Flock(t)
      <3>1. op[t] \in {"put", "get"} BY <2>2 DEF Flock, LockInv, CallOK
      <3> QED BY <2>2, <3>1 DEF Flock
    <2>3. CASE UnlockGlobal(t)
      BY <2>3, NoValue DEF UnlockGlobal, DropLocals
    <2>4. CASE FlockFails(t)
      BY <2>4, NoValue DEF FlockFails
    <2>5. CASE PutFails(t) \/ GetFails(t)
      <3>1. PICK at, kind : Fails(t, at, kind)
        BY <2>5 DEF PutFails, GetFails
      <3> QED BY <3>1, NoValue DEF Fails
    <2>6. CASE PutScan(t) \/ PutTruncate(t) \/ PutKeyValue(t) \/ PutSync(t) \/ PutCommit(t)
      BY <2>6 DEF PutScan, PutTruncate, PutKeyValue, PutSync, PutCommit
    <2>7. CASE PutHeader(t)
      BY <2>7, NoValue DEF PutHeader
    <2>8. CASE PutSync2(t)
      BY <2>8, NoValue DEF PutSync2
    <2>9. CASE GetSeek(t) \/ GetRecord(t)
      BY <2>9, NoValue DEF GetSeek, GetRecord
    <2>10. CASE GetDone(t)
      BY <2>10, NoValue DEF GetDone
    <2> QED BY <1>2, <2>1, <2>2, <2>3, <2>4, <2>5, <2>6, <2>7, <2>8, <2>9, <2>10
            DEF Step, Proceed
  <1>3. ASSUME NEW p \in Proc, ProcCrash(p) PROVE ResultOK!(u)'
    BY <1>3, NoValue DEF ProcCrash, Abandon, DropLocals
  <1>4. CASE PowerLoss
    BY <1>4, NoValue DEF PowerLoss, Abandon, DropLocals
  <1>5. CASE UNCHANGED vars
    BY <1>5 DEF vars
  <1> QED BY <1>1, <1>2, <1>3, <1>4, <1>5 DEF Next

\* While a get is in the file, no other thread changes it, or the offset of its
\* handle.
LEMMA GetKept ==
    ASSUME LockInv, GetOK, NEW u \in Thread, UNCHANGED file,
           pc'[u] = "g_scan" => /\ pc[u] = "g_scan" /\ hnd'[u] = hnd[u] /\ key'[u] = key[u]
                                /\ best'[u] = best[u] /\ pos'[hnd[u]] = pos[hnd[u]]
    PROVE  GetOK!(u)'
  BY DEF GetOK, LastVal, FoundUpto

LEMMA GetStep == LockInv /\ ResultOK /\ GetOK /\ [Next]_vars => GetOK'
  <1> SUFFICES ASSUME LockInv, ResultOK, GetOK, [Next]_vars, NEW u \in Thread
               PROVE  GetOK!(u)'
    BY DEF GetOK
  <1>t. /\ pc \in [Thread -> Pcs] /\ hnd \in [Thread -> Handle \cup {None}]
        /\ best \in [Thread -> Val \cup {None}] /\ pos \in [Handle -> Nat]
        /\ file \in Seq(Records)
        /\ \A t \in Thread : pc[t] # "idle" => hnd[t] \in Handle
    BY DEF LockInv, TypeOK, CallOK
  <1>x. ASSUME NEW t \in Thread, NEW w \in Thread, InFile(t), InFile(w) PROVE t = w
    BY <1>x, LockExcludes DEF LockInv, MutualExclusion
  <1>1. ASSUME NEW t \in Thread, NEW h \in Handle, Request(t, h) PROVE GetOK!(u)'
    <2>0. CASE pc'[u] # "g_scan" BY <2>0
    <2>1. CASE KvdbOpen(t, h)
      <3>1. ASSUME pc[u] = "g_scan" PROVE hnd[u] # h
        BY <2>1, <3>1 DEF KvdbOpen, LockInv, CallOK
      <3>2. UNCHANGED << file, pc, hnd, key, best >> /\ pos' = [pos EXCEPT ![h] = 0]
        BY <2>1 DEF KvdbOpen
      <3> QED BY <1>t, <3>1, <3>2, GetKept
    <2>2. CASE KvdbClose(t, h)
      BY <2>2, GetKept DEF KvdbClose
    <2>3. ASSUME NEW o, NEW k, NEW v, Begin(t, h, o, k, v) PROVE GetOK!(u)'
      BY <1>t, <2>3, GetKept DEF Begin, Goto
    <2>4. ASSUME NEW k, Refuse(t, h, k) PROVE GetOK!(u)'
      BY <2>4, GetKept DEF Refuse
    <2> QED BY <1>1, <2>1, <2>2, <2>3, <2>4 DEF Request, KvdbPut, KvdbGet
  <1>2. ASSUME NEW t \in Thread, Step(t) PROVE GetOK!(u)'
    <2>1. CASE LockGlobal(t) \/ LockDb(t) \/ Flock(t) \/ FlockFails(t) \/ UnFlock(t)
               \/ UnlockDb(t)
      BY <1>t, <2>1, GetKept DEF LockGlobal, LockDb, Flock, FlockFails, UnFlock, UnlockDb,
                                 Goto
    <2>2. CASE UnlockGlobal(t)
      BY <1>t, <2>2, GetKept DEF UnlockGlobal, DropLocals, Goto
    <2>3. CASE PutFails(t) \/ GetFails(t)
      <3>1. PICK at, kind : Fails(t, at, kind)
        BY <2>3 DEF PutFails, GetFails
      <3> QED BY <1>t, <3>1, GetKept DEF Fails, Finish
    <2>4. CASE pc[t] \in PutPcs
      <3>1. pc'[t] # "g_scan" /\ \A w \in Thread \ {t} : pc'[w] = pc[w]
        BY <1>2, <1>t, <2>4
           DEF Step, Proceed, LockGlobal, LockDb, Flock, FlockFails, UnFlock, UnlockDb,
               UnlockGlobal, PutScan, PutTruncate, PutHeader, PutKeyValue, PutSync, PutCommit,
               PutSync2, GetSeek, GetRecord, GetDone, PutFails, GetFails, Fails, Goto, Finish,
               PutPcs
      <3>2. pc[u] # "g_scan" \/ u = t
        BY <1>x, <2>4 DEF InFile, FilePcs, GetPcs
      <3>3. pc[t] # "g_scan" BY <2>4 DEF PutPcs
      <3> QED BY <3>1, <3>2, <3>3
    <2>5. CASE GetSeek(t)
      <3>1. CASE u = t
        <4>1. /\ pc[t] = "g_seek" /\ hnd[t] \in Handle /\ pos'[hnd'[t]] = 0 /\ file' = file
              /\ best'[t] = None
          BY <1>t, <2>5 DEF GetSeek, Goto, ResultOK
        <4>2. FoundUpto(file, 0, key[t]) = {} BY DEF FoundUpto
        <4>3. LastVal(file', FoundUpto(file', 0, key'[t])) = None
          BY <2>5, <4>1, <4>2 DEF LastVal, GetSeek
        <4>4. Len(file) \in Nat BY <1>t
        <4>5. \A i \in 1 .. 0 : FALSE OBVIOUS
        <4> QED BY <3>1, <4>1, <4>3, <4>4, <4>5
      <3>2. CASE u # t
        <4>1. pc[u] # "g_scan" /\ pc'[u] = pc[u]
          BY <1>t, <1>x, <2>5, <3>2 DEF GetSeek, Goto, InFile, FilePcs, GetPcs
        <4> QED BY <4>1
      <3> QED BY <3>1, <3>2
    <2>6. CASE GetRecord(t)
      <3>1. CASE u = t
        <4> DEFINE n == pos[hnd[t]]
        <4>1. /\ pc[t] = "g_scan" /\ hnd[t] \in Handle /\ n \in Nat /\ n < Len(file)
              /\ file[n + 1].shape # "short" /\ file' = file /\ Len(file) \in Nat
              /\ pos'[hnd'[t]] = n + 1 /\ key' = key
              /\ best'[t] = IF Valid(file[n + 1]) /\ file[n + 1].key = key[t]
                            THEN file[n + 1].val ELSE best[t]
          BY <1>t, <2>6 DEF GetRecord, HasRecord, Wanted
        <4>2. /\ \A i \in 1 .. n : file[i].shape # "short"
              /\ best[t] = LastVal(file, FoundUpto(file, n, key[t]))
          BY <4>1 DEF GetOK
        <4> HIDE DEF n
        <4>3. best'[t] = LastVal(file, FoundUpto(file, n + 1, key[t]))
          BY <4>1, <4>2, ScanNext
        <4>4. \A i \in 1 .. n + 1 : i \in 1 .. n \/ i = n + 1 BY <4>1
        <4>5. \A i \in 1 .. n + 1 : file[i].shape # "short" BY <4>1, <4>2, <4>4
        <4>6. n + 1 <= Len(file) BY <4>1
        <4>7. best'[t] = LastVal(file', FoundUpto(file', n + 1, key'[t]))
          BY <4>1, <4>3 DEF LastVal, FoundUpto
        <4> QED BY <3>1, <4>1, <4>5, <4>6, <4>7
      <3>2. CASE u # t
        <4>1. pc[u] # "g_scan" /\ pc' = pc
          BY <1>t, <1>x, <2>6, <3>2 DEF GetRecord, InFile, FilePcs, GetPcs
        <4> QED BY <4>1
      <3> QED BY <3>1, <3>2
    <2>7. CASE GetDone(t)
      BY <1>t, <2>7, GetKept DEF GetDone, Finish
    <2> QED BY <1>2, <2>1, <2>2, <2>3, <2>4, <2>5, <2>6, <2>7
            DEF Step, Proceed, PutScan, PutTruncate, PutHeader, PutKeyValue, PutSync, PutCommit,
                PutSync2, Goto, PutPcs
  <1>3. ASSUME NEW p \in Proc, ProcCrash(p) PROVE GetOK!(u)'
    BY <1>3, GetKept DEF ProcCrash, Abandon, DropLocals
  <1>4. CASE PowerLoss
    BY <1>4 DEF PowerLoss, Abandon
  <1>5. CASE UNCHANGED vars
    BY <1>5, GetKept DEF vars
  <1> QED BY <1>1, <1>2, <1>3, <1>4, <1>5 DEF Next

\* The steps that change the file or the disk.
Writer(t) == \/ PutTruncate(t) \/ PutHeader(t) \/ PutKeyValue(t) \/ PutSync(t)
             \/ PutCommit(t) \/ PutSync2(t)

LEMMA OthersKeepFiles ==
    /\ \A t \in Thread : Step(t) => UNCHANGED << file, durable >> \/ Writer(t)
    /\ \A t \in Thread, h \in Handle : Request(t, h) => UNCHANGED << file, durable >>
    /\ \A p \in Proc : ProcCrash(p) => UNCHANGED << file, durable >>
  <1>1. ASSUME NEW t \in Thread, Step(t) PROVE UNCHANGED << file, durable >> \/ Writer(t)
    <2>1. CASE PutFails(t) \/ GetFails(t)
      BY <2>1 DEF PutFails, GetFails, Fails
    <2>2. CASE \/ LockGlobal(t) \/ LockDb(t) \/ Flock(t) \/ FlockFails(t) \/ UnFlock(t)
               \/ UnlockDb(t) \/ UnlockGlobal(t) \/ PutScan(t) \/ GetSeek(t) \/ GetRecord(t)
               \/ GetDone(t)
      BY <2>2 DEF LockGlobal, LockDb, Flock, FlockFails, UnFlock, UnlockDb, UnlockGlobal,
                  PutScan, GetSeek, GetRecord, GetDone
    <2> QED BY <1>1, <2>1, <2>2 DEF Step, Proceed, Writer
  <1>2. ASSUME NEW t \in Thread, NEW h \in Handle, Request(t, h)
        PROVE  UNCHANGED << file, durable >>
    BY <1>2 DEF Request, KvdbOpen, KvdbClose, KvdbPut, KvdbGet, Begin, Refuse
  <1>3. ASSUME NEW p \in Proc, ProcCrash(p) PROVE UNCHANGED << file, durable >>
    BY <1>3 DEF ProcCrash
  <1> QED BY <1>1, <1>2, <1>3

\* What a put writes for itself.
LEMMA OwnRecord ==
    ASSUME LockInv, FileInv, NEW t \in Thread, PutHeader(t) \/ PutKeyValue(t)
    PROVE  \E r \in Records :
              /\ r.key = key[t] /\ r.val = val[t] /\ ~ r.committed
              /\ pos[hnd[t]] = off[t]
              /\ file' = Append(Cut(file, off[t]), r)
              /\ durable' \in {Unsynced(off[t], r, {"short"}), Unsynced(off[t], r, Shapes)}
              /\ file'[off[t] + 1] = r /\ Len(file') = off[t] + 1
              /\ \A i \in 1 .. off[t] : file'[i] = file[i]
  <1>1. pc[t] \in {"p_head", "p_rest"} /\ key[t] \in Key /\ val[t] \in Val
    BY DEF PutHeader, PutKeyValue, Goto, LockInv, CallOK, PutPcs
  <1>2. off[t] \in Nat /\ off[t] <= Len(file) /\ pos[hnd[t]] = off[t] /\ file \in Seq(Records)
    BY <1>1 DEF LockInv, TypeOK, FileInv, PutOK, PutPcs
  <1>3. PICK s \in {"short", "whole"} :
           /\ file' = Append(Cut(file, off[t]), Record(key[t], val[t], s))
           /\ durable' \in {Unsynced(off[t], Record(key[t], val[t], s), {"short"}),
                            Unsynced(off[t], Record(key[t], val[t], s), Shapes)}
    <2>1. CASE PutHeader(t) BY <1>2, <2>1 DEF PutHeader
    <2>2. CASE PutKeyValue(t) BY <1>2, <2>2 DEF PutKeyValue
    <2> QED BY <2>1, <2>2
  <1> DEFINE r == Record(key[t], val[t], s)
  <1>4. r \in Records /\ r.key = key[t] /\ r.val = val[t] /\ ~ r.committed
    BY <1>1 DEF Record, Records, Shapes
  <1> HIDE DEF r
  <1>5. Len(Cut(file, off[t])) = off[t]
    BY <1>2, CutType
  <1>6. /\ file'[off[t] + 1] = r /\ Len(file') = off[t] + 1
        /\ \A i \in 1 .. off[t] : file'[i] = file[i]
    BY <1>2, <1>3, <1>4, <1>5, AppendCut DEF r
  <1> QED BY <1>2, <1>3, <1>4, <1>6 DEF r

LEMMA RecordStep == LockInv /\ FileInv /\ RecordOK /\ [Next]_vars => RecordOK'
  <1> SUFFICES ASSUME LockInv, FileInv, RecordOK, [Next]_vars, NEW u \in Thread
               PROVE  RecordOK!(u)'
    BY DEF RecordOK
  <1>t. pc \in [Thread -> Pcs] /\ off \in [Thread -> Nat]
    BY DEF LockInv, TypeOK
  <1>k. ASSUME UNCHANGED file,
               pc'[u] \in {"p_sync", "p_commit"} =>
                   /\ pc[u] \in {"p_sync", "p_commit"} /\ off'[u] = off[u]
                   /\ key'[u] = key[u] /\ val'[u] = val[u]
        PROVE  RecordOK!(u)'
    BY <1>k DEF RecordOK
  <1>x. ASSUME NEW t \in Thread, t # u, InFile(t) PROVE pc[u] \notin PutPcs
    BY <1>x, OthersQuiet
  <1>1. ASSUME NEW t \in Thread, NEW h \in Handle, Request(t, h) PROVE RecordOK!(u)'
    <2>1. CASE KvdbOpen(t, h) \/ KvdbClose(t, h)
      BY <1>k, <2>1 DEF KvdbOpen, KvdbClose
    <2>2. ASSUME NEW o, NEW k, NEW v, Begin(t, h, o, k, v) PROVE RecordOK!(u)'
      <3>1. pc' = [pc EXCEPT ![t] = "lock_global"] /\ pc[t] = "idle" /\ UNCHANGED << file, off >>
        BY <2>2 DEF Begin, Goto
      <3>2. u # t => key'[u] = key[u] /\ val'[u] = val[u]
        BY <2>2 DEF Begin, LockInv, TypeOK
      <3> QED BY <1>t, <1>k, <3>1, <3>2
    <2>3. ASSUME NEW k, Refuse(t, h, k) PROVE RecordOK!(u)'
      BY <1>k, <2>3 DEF Refuse
    <2> QED BY <1>1, <2>1, <2>2, <2>3 DEF Request, KvdbPut, KvdbGet
  <1>2. ASSUME NEW t \in Thread, Step(t) PROVE RecordOK!(u)'
    <2> USE <1>t DEF Goto, Finish
    <2>1. CASE LockGlobal(t) \/ LockDb(t) \/ Flock(t) \/ FlockFails(t) \/ UnFlock(t)
               \/ UnlockDb(t)
      BY <1>k, <2>1 DEF LockGlobal, LockDb, Flock, FlockFails, UnFlock, UnlockDb
    <2>2. CASE UnlockGlobal(t)
      BY <1>k, <2>2 DEF UnlockGlobal, DropLocals
    <2>3. CASE PutFails(t) \/ GetFails(t)
      <3>1. PICK at, kind : Fails(t, at, kind)
        BY <2>3 DEF PutFails, GetFails
      <3> QED BY <1>k, <3>1 DEF Fails
    <2>4. CASE GetSeek(t) \/ GetRecord(t) \/ GetDone(t)
      BY <1>k, <2>4 DEF GetSeek, GetRecord, GetDone
    <2>5. CASE PutScan(t)
      BY <1>k, <2>5 DEF PutScan
    <2>6. CASE PutSync(t) \/ PutSync2(t)
      BY <1>k, <2>6 DEF PutSync, PutSync2
    <2>7. CASE PutTruncate(t) \/ PutHeader(t) \/ PutCommit(t)
      <3>1. pc'[t] \notin {"p_sync", "p_commit"} /\ InFile(t)
            /\ \A w \in Thread \ {t} : pc'[w] = pc[w]
        BY <2>7 DEF PutTruncate, PutHeader, PutCommit, InFile, FilePcs, PutPcs
      <3> QED BY <1>x, <3>1 DEF PutPcs
    <2>8. CASE PutKeyValue(t)
      <3>1. pc[t] = "p_rest" /\ pc' = [pc EXCEPT ![t] = "p_sync"] /\ InFile(t)
            /\ UNCHANGED << off, key, val >>
        BY <2>8 DEF PutKeyValue, InFile, FilePcs, PutPcs
      <3>2. CASE u = t
        <4>1. file'[off[t] + 1].key = key[t] /\ file'[off[t] + 1].val = val[t]
          BY <2>8, OwnRecord
        <4> QED BY <3>1, <3>2, <4>1
      <3>3. CASE u # t
        BY <1>x, <3>1, <3>3 DEF PutPcs
      <3> QED BY <3>2, <3>3
    <2> QED BY <1>2, <2>1, <2>2, <2>3, <2>4, <2>5, <2>6, <2>7, <2>8 DEF Step, Proceed
  <1>3. ASSUME NEW p \in Proc, ProcCrash(p) PROVE RecordOK!(u)'
    BY <1>3, <1>k DEF ProcCrash, Abandon, DropLocals
  <1>4. CASE PowerLoss
    BY <1>4 DEF PowerLoss, Abandon
  <1>5. CASE UNCHANGED vars
    BY <1>5, <1>k DEF vars
  <1> QED BY <1>1, <1>2, <1>3, <1>4, <1>5 DEF Next

\* Behind the offset of a put that has not committed there is no valid record,
\* in the file and on the disk.
LEMMA ValidBound ==
    ASSUME LockInv, FileInv, DurableOK, NEW t \in Thread,
           pc[t] \in {"p_trunc", "p_head", "p_rest"}, NEW g \in durable \cup {file}
    PROVE  \A i \in 1 .. Len(g) : Valid(g[i]) => i <= off[t]
  <1> DEFINE n == off[t]
  <1>1. n \in Nat /\ file \in Seq(Records) /\ Len(file) \in Nat /\ n <= Len(file)
    BY LenProperties DEF LockInv, TypeOK, FileInv, PutOK, PutPcs
  <1>2. n = Len(file) \/ ~ Valid(file[n + 1])
    BY <1>1 DEF FileInv, PutOK, IsValidEnd, Valid
  <1>3. Tidy(file)
    BY DEF FileInv, NoHiddenRecord
  <1> HIDE DEF n
  <1>4. ASSUME NEW i \in 1 .. Len(file), Valid(file[i]), ~ (i <= n) PROVE FALSE
    <2>1. n + 1 \in 1 .. Len(file) /\ n + 1 <= i /\ i \in Nat
      BY <1>1, <1>4
    <2>2. Valid(file[n + 1])
      <3>1. CASE n + 1 = i BY <1>4, <3>1
      <3>2. CASE n + 1 < i BY <1>3, <1>4, <2>1, <3>2 DEF Tidy
      <3> QED BY <1>1, <2>1, <3>1, <3>2
    <2> QED BY <1>1, <1>2, <2>1, <2>2
  <1>5. CASE g = file BY <1>4, <1>5 DEF n
  <1>6. CASE g \in durable
    <2>1. Within(g, file) BY <1>6 DEF DurableOK
    <2>2. g \in Seq(Records) BY <1>6 DEF LockInv, TypeOK
    <2>3. ASSUME NEW i \in 1 .. Len(g), Valid(g[i]) PROVE i <= n
      <3>1. i <= Len(file) /\ file[i] = g[i] BY <2>1, <2>3 DEF Within
      <3>2. i \in 1 .. Len(file) BY <1>1, <2>2, <3>1
      <3> QED BY <1>4, <2>3, <3>1, <3>2
    <2> QED BY <2>3 DEF n
  <1> QED BY <1>5, <1>6

\* The images of a write behind the valid records stay within the file.
LEMMA TailWithin ==
    ASSUME NEW f, NEW h, NEW g \in Seq(Records), NEW n \in Nat, NEW q \in Records,
           Within(g, f), \A i \in 1 .. Len(g) : Valid(g[i]) => i <= n,
           n <= Len(h), \A i \in 1 .. n : h[i] = f[i], Len(h) \in Nat, ~ q.committed
    PROVE  Within(g, h) /\ Within(Cut(g, n), h) /\ Within(Append(Cut(g, n), q), h)
  <1> DEFINE c == Cut(g, n)
             b == Append(Cut(g, n), q)
  <1>1. /\ c \in Seq(Records) /\ Len(c) <= Len(g) /\ Len(c) \in Nat /\ Len(g) \in Nat
        /\ \A i \in 1 .. Len(c) : c[i] = g[i]
    <2>1. c \in Seq(Records) /\ Len(c) <= Len(g) /\ \A i \in 1 .. Len(c) : c[i] = g[i]
      BY CutType
    <2> QED BY <2>1, LenProperties
  <1>2. /\ b \in Seq(Records) /\ Len(b) = Len(c) + 1 /\ b[Len(c) + 1] = q
        /\ \A i \in 1 .. Len(c) : b[i] = g[i]
    BY AppendCut
  <1>3. ~ Valid(q)
    BY DEF Valid
  <1> HIDE DEF c, b
  <1>4. ASSUME NEW i \in 1 .. Len(g), Valid(g[i]) PROVE i <= Len(h) /\ h[i] = g[i]
    <2>1. i <= n /\ f[i] = g[i] BY <1>4 DEF Within
    <2>2. i \in 1 .. n BY <1>1, <2>1
    <2> QED BY <1>1, <2>1, <2>2
  <1>5. \A i \in 1 .. Len(c) : i \in 1 .. Len(g)
    BY <1>1
  <1>6. \A i \in 1 .. Len(b) : i \in 1 .. Len(c) \/ i = Len(c) + 1
    BY <1>1, <1>2
  <1>7. Within(g, h) BY <1>4 DEF Within
  <1>8. Within(c, h) BY <1>1, <1>4, <1>5 DEF Within
  <1>9. Within(b, h) BY <1>2, <1>3, <1>4, <1>5, <1>6 DEF Within
  <1> QED BY <1>7, <1>8, <1>9 DEF c, b

LEMMA SelfWithin ==
    ASSUME NEW f \in Seq(Records)
    PROVE  Within(f, f)
  BY DEF Within

LEMMA DurableStep == LockInv /\ FileInv /\ DurableOK /\ [Next]_vars => DurableOK'
  <1> SUFFICES ASSUME LockInv, FileInv, DurableOK, [Next]_vars PROVE DurableOK'
    OBVIOUS
  <1>t. file \in Seq(Records) /\ durable \in SUBSET Seq(Records) /\ Len(file) \in Nat
    BY LenProperties DEF LockInv, TypeOK
  <1>1. CASE UNCHANGED << file, durable >>
    BY <1>1 DEF DurableOK
  <1>2. ASSUME NEW t \in Thread, PutTruncate(t) PROVE DurableOK'
    <2>1. /\ pc[t] = "p_trunc" /\ off[t] \in Nat /\ off[t] <= Len(file)
          /\ key[t] \in Key /\ val[t] \in Val
          /\ file' = Cut(file, off[t])
          /\ durable' = durable \cup { Cut(g, off[t]) : g \in durable }
      BY <1>2 DEF PutTruncate, Goto, LockInv, TypeOK, CallOK, FileInv, PutOK, PutPcs
    <2>2. Len(file') = off[t] /\ \A i \in 1 .. off[t] : file'[i] = file[i]
      BY <1>t, <2>1, CutType
    <2>3. Record(key[t], val[t], "short") \in Records /\ ~ Record(key[t], val[t], "short").committed
      BY <2>1 DEF Record, Records, Shapes
    <2>4. ASSUME NEW g \in durable PROVE Within(g, file') /\ Within(Cut(g, off[t]), file')
      <3>1. g \in Seq(Records) /\ Within(g, file) BY <1>t DEF DurableOK
      <3>2. \A i \in 1 .. Len(g) : Valid(g[i]) => i <= off[t] BY <2>1, ValidBound
      <3>3. off[t] <= Len(file') /\ Len(file') \in Nat BY <2>1, <2>2
      <3> QED BY <2>1, <2>2, <2>3, <3>1, <3>2, <3>3, TailWithin
    <2> QED BY <2>1, <2>4 DEF DurableOK
  <1>3. ASSUME NEW t \in Thread, PutHeader(t) \/ PutKeyValue(t) PROVE DurableOK'
    <2>1. pc[t] \in {"p_head", "p_rest"} /\ off[t] \in Nat
      BY <1>3 DEF PutHeader, PutKeyValue, Goto, LockInv, TypeOK
    <2>2. PICK r \in Records :
              /\ ~ r.committed
              /\ durable' \in {Unsynced(off[t], r, {"short"}), Unsynced(off[t], r, Shapes)}
              /\ Len(file') = off[t] + 1 /\ \A i \in 1 .. off[t] : file'[i] = file[i]
      BY <1>3, OwnRecord
    <2>3. ASSUME NEW g \in durable, NEW q \in Records, ~ q.committed
          PROVE  Within(g, file') /\ Within(Append(Cut(g, off[t]), q), file')
      <3>1. g \in Seq(Records) /\ Within(g, file) BY <1>t DEF DurableOK
      <3>2. \A i \in 1 .. Len(g) : Valid(g[i]) => i <= off[t] BY <2>1, ValidBound
      <3>3. off[t] <= Len(file') /\ Len(file') \in Nat BY <2>1, <2>2
      <3> QED BY <2>1, <2>2, <2>3, <3>1, <3>2, <3>3, TailWithin
    <2>4. ASSUME NEW f \in durable' PROVE Within(f, file')
      <3>0. {"short"} \in SUBSET Shapes /\ Shapes \in SUBSET Shapes BY DEF Shapes
      <3>1. f \in durable \/ \E g \in durable, q \in Records :
                                  ~ q.committed /\ f = Append(Cut(g, off[t]), q)
        <4>1. PICK S \in SUBSET Shapes : f \in Unsynced(off[t], r, S)
          BY <2>2, <3>0
        <4>2. off[t] \in Nat /\ ~ r.committed BY <2>1, <2>2
        <4> QED BY <4>1, <4>2, UnsyncedImage, Zenon
      <3> QED BY <2>2, <2>3, <3>1
    <2> QED BY <2>4 DEF DurableOK
  <1>4. ASSUME NEW t \in Thread, PutSync(t) \/ PutSync2(t) PROVE DurableOK'
    <2>1. durable' = {file} /\ file' = file BY <1>4 DEF PutSync, PutSync2, Fsync
    <2> QED BY <1>t, <2>1, SelfWithin DEF DurableOK
  <1>5. ASSUME NEW t \in Thread, PutCommit(t) PROVE DurableOK'
    <2> DEFINE n == off[t]
    <2>1. /\ n \in Nat /\ Len(file) = n + 1 /\ ~ file[n + 1].committed /\ durable = {file}
          /\ file' = SetCommitted(file, n + 1)
          /\ durable' = durable \cup { SetCommitted(g, n + 1) : g \in durable }
      BY <1>5 DEF PutCommit, Goto, LockInv, TypeOK, FileInv, PutOK
    <2>2. n + 1 \in Nat BY <2>1
    <2>3. /\ file' \in Seq(Records) /\ Len(file') = Len(file)
          /\ \A i \in 1 .. Len(file) : i # n + 1 => file'[i] = file[i]
      BY <1>t, <2>1, <2>2, SetCommittedType
    <2>4. durable' = {file, file'} BY <2>1
    <2>5. Within(file, file') BY <2>1, <2>3 DEF Within, Valid
    <2>6. Within(file', file') BY <2>3, SelfWithin
    <2> QED BY <2>4, <2>5, <2>6 DEF DurableOK
  <1>6. CASE PowerLoss
    <2>1. durable' = {file'} /\ file' \in Seq(Records) BY <1>6, <1>t DEF PowerLoss
    <2> QED BY <2>1, SelfWithin DEF DurableOK
  <1>7. CASE UNCHANGED vars
    BY <1>1, <1>7 DEF vars
  <1> QED BY <1>1, <1>2, <1>3, <1>4, <1>5, <1>6, <1>7, OthersKeepFiles DEF Next, Writer

LEMMA RefStep == LockInv /\ FileInv /\ RefInv /\ [Next]_vars => RefInv'
  BY ResultStep, GetStep, RecordStep, DurableStep DEF RefInv

----------------------------------------------------------------------------
(* The refinement mapping, one thread at a time.                           *)

CallOf(t) == IF pc[t] = "idle" THEN None ELSE [key |-> key[t], val |-> val[t]]
GotOf(t)  == IF Phase(t) = "read" THEN best[t] ELSE None

PhaseMap == [t \in Thread |-> Phase(t)]
CallMap  == [t \in Thread |-> CallOf(t)]
GotMap   == [t \in Thread |-> GotOf(t)]
SavedMap == { Contents(g) : g \in durable }

\* Where the call of a thread stands.
LEMMA PhaseNow ==
    ASSUME NEW t \in Thread, ResultOK
    PROVE  /\ pc[t] = "idle" => Phase(t) = "idle"
           /\ pc[t] = "p_sync2" => Phase(t) = "applied"
           /\ pc[t] \notin {"idle", "p_sync2"} \cup Unlocking => Phase(t) = op[t]
           /\ pc[t] \in Unlocking /\ rc[t] = "fail" => Phase(t) = "failed"
           /\ pc[t] \in Unlocking /\ rc[t] = "ok" => Phase(t) = "acked"
           /\ pc[t] \in Unlocking /\ rc[t] \in Val \cup {"missing"} => Phase(t) = "read"
  <1>1. pc[t] \notin Unlocking => rc[t] = "pending"
    BY DEF ResultOK
  <1> QED BY <1>1, NoValue DEF Phase, Unlocking

LEMMA PhaseNext ==
    ASSUME NEW t \in Thread, ResultOK'
    PROVE  /\ pc'[t] = "idle" => Phase(t)' = "idle"
           /\ pc'[t] = "p_sync2" => Phase(t)' = "applied"
           /\ pc'[t] \notin {"idle", "p_sync2"} \cup Unlocking => Phase(t)' = op'[t]
           /\ pc'[t] \in Unlocking /\ rc'[t] = "fail" => Phase(t)' = "failed"
           /\ pc'[t] \in Unlocking /\ rc'[t] = "ok" => Phase(t)' = "acked"
           /\ pc'[t] \in Unlocking /\ rc'[t] \in Val \cup {"missing"} => Phase(t)' = "read"
  <1>1. pc'[t] \notin Unlocking => rc'[t] = "pending"
    BY DEF ResultOK
  <1> QED BY <1>1, NoValue DEF Phase, Unlocking

\* The call of w is as it was.
Same(w) == /\ pc'[w] = pc[w] /\ rc'[w] = rc[w] /\ op'[w] = op[w]
           /\ key'[w] = key[w] /\ val'[w] = val[w] /\ best'[w] = best[w]

LEMMA SameMaps ==
    ASSUME NEW w \in Thread, Same(w)
    PROVE  Phase(w)' = Phase(w) /\ CallOf(w)' = CallOf(w) /\ GotOf(w)' = GotOf(w)
  <1>1. Phase(w)' = Phase(w)
    BY DEF Same, Phase
  <1> QED BY <1>1 DEF Same, CallOf, GotOf

LEMMA OneMoves ==
    ASSUME NEW t \in Thread, \A w \in Thread \ {t} : Same(w)
    PROVE  /\ PhaseMap' = [PhaseMap EXCEPT ![t] = Phase(t)']
           /\ CallMap' = [CallMap EXCEPT ![t] = CallOf(t)']
           /\ GotMap' = [GotMap EXCEPT ![t] = GotOf(t)']
  <1>1. \A w \in Thread \ {t} :
           Phase(w)' = Phase(w) /\ CallOf(w)' = CallOf(w) /\ GotOf(w)' = GotOf(w)
    BY SameMaps
  <1>2. PhaseMap' = [PhaseMap EXCEPT ![t] = Phase(t)'] BY <1>1 DEF PhaseMap
  <1>3. CallMap' = [CallMap EXCEPT ![t] = CallOf(t)'] BY <1>1 DEF CallMap
  <1>4. GotMap' = [GotMap EXCEPT ![t] = GotOf(t)'] BY <1>1 DEF GotMap
  <1> QED BY <1>2, <1>3, <1>4

\* A step of a thread leaves the calls of the others alone.
LEMMA OthersSame ==
    ASSUME LockInv, NEW t \in Thread, NEW w \in Thread \ {t},
           \/ Step(t)
           \/ \E h \in Handle : \E o, k, v : Begin(t, h, o, k, v)
    PROVE  Same(w)
  <1>t. /\ pc \in [Thread -> Pcs] /\ op \in [Thread -> {"put", "get", None}]
        /\ key \in [Thread -> Key \cup {None}] /\ val \in [Thread -> Val \cup {None}]
        /\ best \in [Thread -> Val \cup {None}] /\ rc \in [Thread -> Results \cup Val]
    BY DEF LockInv, TypeOK
  <1> USE <1>t DEF Same, Goto, Finish
  <1>1. ASSUME NEW h \in Handle, NEW o, NEW k, NEW v, Begin(t, h, o, k, v) PROVE Same(w)
    BY <1>1 DEF Begin
  <1>2. CASE LockGlobal(t) \/ LockDb(t) \/ Flock(t) \/ FlockFails(t) \/ UnFlock(t)
             \/ UnlockDb(t)
    BY <1>2 DEF LockGlobal, LockDb, Flock, FlockFails, UnFlock, UnlockDb
  <1>3. CASE UnlockGlobal(t)
    BY <1>3 DEF UnlockGlobal, DropLocals
  <1>4. CASE PutFails(t) \/ GetFails(t)
    <2>1. PICK at, kind : Fails(t, at, kind)
      BY <1>4 DEF PutFails, GetFails
    <2> QED BY <2>1 DEF Fails
  <1>5. CASE GetSeek(t) \/ GetRecord(t) \/ GetDone(t)
    BY <1>5 DEF GetSeek, GetRecord, GetDone
  <1>6. CASE PutScan(t) \/ PutTruncate(t) \/ PutKeyValue(t) \/ PutSync(t) \/ PutCommit(t)
    BY <1>6 DEF PutScan, PutTruncate, PutKeyValue, PutSync, PutCommit
  <1>7. CASE PutHeader(t) \/ PutSync2(t)
    BY <1>7 DEF PutHeader, PutSync2
  <1> QED BY <1>1, <1>2, <1>3, <1>4, <1>5, <1>6, <1>7 DEF Step, Proceed

\* The writes of a put before it commits do not change any contents.
LEMMA ContentsKept ==
    ASSUME LockInv, FileInv, DurableOK, NEW t \in Thread,
           PutTruncate(t) \/ PutHeader(t) \/ PutKeyValue(t)
    PROVE  Contents(file') = Contents(file) /\ SavedMap' = SavedMap
  <1>1. /\ pc[t] \in {"p_trunc", "p_head", "p_rest"} /\ off[t] \in Nat
        /\ key[t] \in Key /\ val[t] \in Val
        /\ file \in Seq(Records) /\ durable \in SUBSET Seq(Records)
    BY DEF PutTruncate, PutHeader, PutKeyValue, Goto, LockInv, TypeOK, CallOK, PutPcs
  <1>2. \A g \in durable \cup {file} : g \in Seq(Records) /\ Tidy(g)
    BY <1>1 DEF FileInv, NoHiddenRecord
  <1>3. \A g \in durable \cup {file} : \A i \in 1 .. Len(g) : Valid(g[i]) => i <= off[t]
    BY <1>1, ValidBound
  <1>4. \A g \in durable \cup {file} : \A q \in Records : ~ q.committed =>
           /\ Contents(Cut(g, off[t])) = Contents(g)
           /\ Contents(Append(Cut(g, off[t]), q)) = Contents(g)
    BY <1>1, <1>2, <1>3, TailContents
  <1>5. CASE PutTruncate(t)
    <2> DEFINE q == Record(key[t], val[t], "short")
    <2>1. q \in Records /\ ~ q.committed
      BY <1>1 DEF Record, Records, Shapes
    <2>2. \A g \in durable \cup {file} : Contents(Cut(g, off[t])) = Contents(g)
      BY <1>4, <2>1
    <2>3. /\ file' = Cut(file, off[t])
          /\ durable' = durable \cup { Cut(g, off[t]) : g \in durable }
      BY <1>5 DEF PutTruncate
    <2>4. \A f \in durable' : \E g \in durable : Contents(f) = Contents(g)
      BY <2>2, <2>3
    <2>5. durable \subseteq durable' BY <2>3
    <2> QED BY <2>2, <2>3, <2>4, <2>5 DEF SavedMap
  <1>6. CASE PutHeader(t) \/ PutKeyValue(t)
    <2>1. PICK r \in Records :
              /\ ~ r.committed /\ file' = Append(Cut(file, off[t]), r)
              /\ durable' \in {Unsynced(off[t], r, {"short"}), Unsynced(off[t], r, Shapes)}
      BY <1>6, OwnRecord
    <2>2. PICK S \in SUBSET Shapes : durable' = Unsynced(off[t], r, S)
      <3>1. {"short"} \in SUBSET Shapes /\ Shapes \in SUBSET Shapes BY DEF Shapes
      <3> QED BY <2>1, <3>1
    <2>3. Contents(file') = Contents(file) BY <1>4, <2>1
    <2>4. ASSUME NEW f \in durable' PROVE \E g \in durable : Contents(f) = Contents(g)
      <3>1. f \in Unsynced(off[t], r, S) BY <2>2
      <3>2. off[t] \in Nat /\ ~ r.committed BY <1>1, <2>1
      <3>3. f \in durable \/ \E g \in durable, q \in Records :
                                  ~ q.committed /\ f = Append(Cut(g, off[t]), q)
        BY <3>1, <3>2, UnsyncedImage, Zenon
      <3>4. CASE f \in durable BY <3>4
      <3>5. ASSUME NEW g \in durable, NEW q \in Records, ~ q.committed,
                   f = Append(Cut(g, off[t]), q)
            PROVE  Contents(f) = Contents(g)
        BY <1>4, <3>5
      <3> QED BY <3>3, <3>4, <3>5, Zenon
    <2>5. durable \subseteq durable' BY <2>2 DEF Unsynced
    <2> QED BY <2>3, <2>4, <2>5 DEF SavedMap
  <1> QED BY <1>5, <1>6

----------------------------------------------------------------------------
(* Every step is one of the map, or none.                                  *)

\* A step after which files, calls and results are what they were to a caller.
LEMMA StutterSim ==
    ASSUME Contents(file') = Contents(file), SavedMap' = SavedMap, UNCHANGED ret,
           PhaseMap' = PhaseMap, CallMap' = CallMap, GotMap' = GotMap
    PROVE  UNCHANGED Store!vars
  BY DEF Store!vars, SavedMap, PhaseMap, CallMap, GotMap, CallOf, GotOf

\* A step within a call that does not change its phase.
LEMMA SilentSim ==
    ASSUME LockInv, NEW t \in Thread, \A w \in Thread \ {t} : Same(w), UNCHANGED ret,
           Contents(file') = Contents(file), SavedMap' = SavedMap,
           Phase(t)' = Phase(t), pc[t] # "idle", pc'[t] # "idle",
           key'[t] = key[t], val'[t] = val[t], GotOf(t)' = GotOf(t)
    PROVE  UNCHANGED Store!vars
  <1>1. CallOf(t)' = CallOf(t)
    BY DEF CallOf
  <1>2. /\ PhaseMap' = [PhaseMap EXCEPT ![t] = Phase(t)]
        /\ CallMap' = [CallMap EXCEPT ![t] = CallOf(t)]
        /\ GotMap' = [GotMap EXCEPT ![t] = GotOf(t)]
    BY <1>1, OneMoves
  <1>3. PhaseMap' = PhaseMap /\ CallMap' = CallMap /\ GotMap' = GotMap
    BY <1>2 DEF PhaseMap, CallMap, GotMap
  <1> QED BY <1>3, StutterSim

\* A call that fails, wherever it is.
LEMMA FailSim ==
    ASSUME NEW t \in Thread, \A w \in Thread \ {t} : Same(w), UNCHANGED ret, Faults # {},
           Contents(file') = Contents(file), SavedMap' = SavedMap,
           Phase(t) \in {"put", "get", "applied"}, Phase(t)' = "failed",
           pc[t] # "idle", pc'[t] # "idle", key'[t] = key[t], val'[t] = val[t]
    PROVE  Store!Next
  <1>1. CallOf(t)' = CallOf(t)
    BY DEF CallOf
  <1>2. GotOf(t)' = None /\ GotOf(t) = None
    BY DEF GotOf
  <1>3. /\ PhaseMap' = [PhaseMap EXCEPT ![t] = "failed"]
        /\ CallMap' = CallMap /\ GotMap' = GotMap
    <2>1. /\ PhaseMap' = [PhaseMap EXCEPT ![t] = Phase(t)']
          /\ CallMap' = [CallMap EXCEPT ![t] = CallOf(t)']
          /\ GotMap' = [GotMap EXCEPT ![t] = GotOf(t)']
      BY OneMoves
    <2> QED BY <1>1, <1>2, <2>1 DEF CallMap, GotMap
  <1>4. PhaseMap[t] = Phase(t)
    BY DEF PhaseMap
  <1>5. Store!Fail(t)
    BY <1>3, <1>4 DEF Store!Fail, Store!Step, PhaseMap, CallMap, GotMap, CallOf, GotOf, SavedMap
  <1> QED BY <1>5 DEF Store!Next

\* The phases, arguments and results that a step of a thread starts from.
LEMMA Before ==
    ASSUME LockInv, RefInv, NEW t \in Thread, pc[t] # "idle"
    PROVE  /\ op[t] \in {"put", "get"} /\ key[t] \in Key /\ hnd[t] \in Handle
           /\ pc[t] \in PutPcs => op[t] = "put" /\ val[t] \in Val
           /\ pc[t] \in GetPcs => op[t] = "get"
  BY DEF LockInv, CallOK, RefInv, ResultOK

LEMMA InvokeSim ==
    ASSUME LockInv, RefInv, RefInv', NEW t \in Thread, NEW h \in Handle,
           NEW o \in {"put", "get"}, NEW k \in Key, NEW v \in Val \cup {None},
           Begin(t, h, o, k, v)
    PROVE  Store!Next
  <1>1. /\ pc[t] = "idle" /\ pc'[t] = "lock_global" /\ op'[t] = o
        /\ key'[t] = k /\ val'[t] = v /\ ret' = [ret EXCEPT ![t] = "none"]
        /\ UNCHANGED << file, durable >>
    BY DEF Begin, Goto, LockInv, TypeOK
  <1>2. ResultOK /\ ResultOK' BY DEF RefInv
  <1>3. Phase(t) = "idle" /\ Phase(t)' = o
    BY <1>1, <1>2, PhaseNow, PhaseNext DEF Unlocking
  <1>4. CallOf(t)' = [key |-> k, val |-> v] /\ GotOf(t) = None /\ GotOf(t)' = None
    BY <1>1, <1>3 DEF CallOf, GotOf
  <1>5. \A w \in Thread \ {t} : Same(w) BY OthersSame
  <1>6. /\ PhaseMap' = [PhaseMap EXCEPT ![t] = o]
        /\ CallMap' = [CallMap EXCEPT ![t] = [key |-> k, val |-> v]]
        /\ GotMap' = GotMap
    <2>1. /\ PhaseMap' = [PhaseMap EXCEPT ![t] = Phase(t)']
          /\ CallMap' = [CallMap EXCEPT ![t] = CallOf(t)']
          /\ GotMap' = [GotMap EXCEPT ![t] = GotOf(t)']
      BY <1>5, OneMoves
    <2> QED BY <1>3, <1>4, <2>1 DEF GotMap
  <1>7. PhaseMap[t] = "idle" BY <1>3 DEF PhaseMap
  <1>8. Store!Invoke(t)
    BY <1>1, <1>6, <1>7
       DEF Store!Invoke, Store!Step, PhaseMap, CallMap, GotMap, CallOf, GotOf, Contents
  <1> QED BY <1>8 DEF Store!Next

LEMMA RejectSim ==
    ASSUME RefInv, NEW t \in Thread, NEW h, NEW k, Refuse(t, h, k)
    PROVE  Store!Next
  <1>1. /\ pc[t] = "idle" /\ ret' = [ret EXCEPT ![t] = "fail"]
        /\ UNCHANGED << file, durable, pc, op, key, val, best, rc >>
    BY DEF Refuse
  <1>2. Phase(t) = "idle" BY <1>1, PhaseNow DEF RefInv
  <1>3. \A w \in Thread : Phase(w)' = Phase(w) /\ CallOf(w)' = CallOf(w) /\ GotOf(w)' = GotOf(w)
    BY <1>1, SameMaps DEF Same
  <1>4. PhaseMap' = PhaseMap /\ CallMap' = CallMap /\ GotMap' = GotMap
    BY <1>3 DEF PhaseMap, CallMap, GotMap
  <1>5. PhaseMap[t] = "idle" BY <1>2 DEF PhaseMap
  <1>6. Store!Reject(t)
    BY <1>1, <1>4, <1>5
       DEF Store!Reject, PhaseMap, CallMap, GotMap, CallOf, GotOf, Contents
  <1> QED BY <1>6 DEF Store!Next

\* A put takes effect with its committed word.
LEMMA ApplySim ==
    ASSUME LockInv, FileInv, FileInv', LockInv', RefInv, RefInv', NEW t \in Thread, PutCommit(t)
    PROVE  Store!Next
  <1> DEFINE n == off[t]
  <1>1. /\ pc[t] = "p_commit" /\ pc'[t] = "p_sync2" /\ UNCHANGED << ret, key, val >>
        /\ file' = SetCommitted(file, n + 1)
        /\ durable' = durable \cup { SetCommitted(g, n + 1) : g \in durable }
        /\ n \in Nat /\ file \in Seq(Records) /\ file' \in Seq(Records)
    BY DEF PutCommit, Goto, LockInv, TypeOK
  <1>2. /\ Len(file) = n + 1 /\ ~ file[n + 1].committed /\ durable = {file}
        /\ IsValidPrefix(file, n) /\ file[n + 1].shape = "whole"
    BY <1>1 DEF FileInv, PutOK, PutPcs
  <1>3. file[n + 1].key = key[t] /\ file[n + 1].val = val[t]
    BY <1>1 DEF RefInv, RecordOK
  <1>4. /\ Len(file') = n + 1 /\ \A i \in 1 .. n : file'[i] = file[i]
        /\ file'[n + 1].key = key[t] /\ file'[n + 1].val = val[t] /\ Valid(file'[n + 1])
    <2>0. n + 1 \in Nat BY <1>1
    <2>1. /\ Len(file') = Len(file)
          /\ \A i \in 1 .. Len(file) : i # n + 1 => file'[i] = file[i]
          /\ n + 1 \in 1 .. Len(file) =>
                file'[n + 1] = [file[n + 1] EXCEPT !.committed = TRUE]
      <3> DEFINE f == SetCommitted(file, n + 1)
      <3>1. /\ Len(f) = Len(file)
            /\ \A i \in 1 .. Len(file) : i # n + 1 => f[i] = file[i]
            /\ n + 1 \in 1 .. Len(file) => f[n + 1] = [file[n + 1] EXCEPT !.committed = TRUE]
        BY <1>1, <2>0, SetCommittedType
      <3>2. file' = f BY <1>1
      <3> HIDE DEF f
      <3> QED BY <3>1, <3>2
    <2>2. file[n + 1] \in Records BY <1>1, <1>2
    <2>3. file'[n + 1] = [file[n + 1] EXCEPT !.committed = TRUE] BY <1>1, <1>2, <2>1
    <2>4. file'[n + 1].key = key[t] /\ file'[n + 1].val = val[t] /\ Valid(file'[n + 1])
      BY <1>2, <1>3, <2>2, <2>3 DEF Records, Valid
    <2> QED BY <1>1, <1>2, <2>1, <2>4
  <1>5. Tidy(file) /\ Tidy(file') BY DEF FileInv, NoHiddenRecord
  <1>6. Contents(file') = [Contents(file) EXCEPT ![key[t]] = val[t]]
    <2>1. ~ Valid(file[n + 1]) BY <1>2 DEF Valid
    <2> QED BY <1>1, <1>2, <1>4, <1>5, <2>1, CommitContents
  <1>7. SavedMap' = SavedMap \cup {Contents(file')}
    <2>1. durable' = {file, file'} BY <1>1, <1>2
    <2> QED BY <1>2, <2>1 DEF SavedMap
  <1>8. ResultOK /\ ResultOK' BY DEF RefInv
  <1>9. Phase(t) = "put" /\ Phase(t)' = "applied"
    <2>1. op[t] = "put" BY <1>1, Before DEF PutPcs
    <2> QED BY <1>1, <1>8, <2>1, PhaseNow, PhaseNext DEF Unlocking
  <1>10. /\ CallOf(t) = [key |-> key[t], val |-> val[t]] /\ CallOf(t)' = CallOf(t)
         /\ GotOf(t) = None /\ GotOf(t)' = None
    BY <1>1, <1>9 DEF CallOf, GotOf
  <1>11. \A w \in Thread \ {t} : Same(w) BY OthersSame DEF Step, Proceed
  <1>12. PhaseMap' = [PhaseMap EXCEPT ![t] = "applied"] /\ CallMap' = CallMap /\ GotMap' = GotMap
    <2>1. /\ PhaseMap' = [PhaseMap EXCEPT ![t] = Phase(t)']
          /\ CallMap' = [CallMap EXCEPT ![t] = CallOf(t)']
          /\ GotMap' = [GotMap EXCEPT ![t] = GotOf(t)']
      BY <1>11, OneMoves
    <2> QED BY <1>9, <1>10, <2>1 DEF CallMap, GotMap
  <1>13. PhaseMap[t] = "put" /\ CallMap[t].key = key[t] /\ CallMap[t].val = val[t]
    BY <1>9, <1>10 DEF PhaseMap, CallMap
  <1>14. Store!Apply(t)
    BY <1>1, <1>6, <1>7, <1>12, <1>13
       DEF Store!Apply, Store!Step, PhaseMap, CallMap, GotMap, CallOf, GotOf, SavedMap
  <1> QED BY <1>14 DEF Store!Next

\* After the second fsync the put is acknowledged.
LEMMA AckSim ==
    ASSUME LockInv, RefInv, RefInv', NEW t \in Thread, PutSync2(t)
    PROVE  Store!Next
  <1>1. /\ pc[t] = "p_sync2" /\ pc'[t] = "un_flock" /\ rc'[t] = "ok"
        /\ UNCHANGED << ret, key, val, file >> /\ durable' = {file}
    BY DEF PutSync2, Fsync, Finish, LockInv, TypeOK
  <1>2. ResultOK /\ ResultOK' BY DEF RefInv
  <1>3. Phase(t) = "applied" /\ Phase(t)' = "acked"
    BY <1>1, <1>2, PhaseNow, PhaseNext DEF Unlocking
  <1>4. CallOf(t)' = CallOf(t) /\ GotOf(t) = None /\ GotOf(t)' = None
    BY <1>1, <1>3 DEF CallOf, GotOf
  <1>5. \A w \in Thread \ {t} : Same(w) BY OthersSame DEF Step, Proceed
  <1>6. PhaseMap' = [PhaseMap EXCEPT ![t] = "acked"] /\ CallMap' = CallMap /\ GotMap' = GotMap
    <2>1. /\ PhaseMap' = [PhaseMap EXCEPT ![t] = Phase(t)']
          /\ CallMap' = [CallMap EXCEPT ![t] = CallOf(t)']
          /\ GotMap' = [GotMap EXCEPT ![t] = GotOf(t)']
      BY <1>5, OneMoves
    <2> QED BY <1>3, <1>4, <2>1 DEF CallMap, GotMap
  <1>7. PhaseMap[t] = "applied" BY <1>3 DEF PhaseMap
  <1>8. SavedMap' = {Contents(file)} BY <1>1 DEF SavedMap
  <1>9. Store!Ack(t)
    BY <1>1, <1>6, <1>7, <1>8
       DEF Store!Ack, Store!Step, PhaseMap, CallMap, GotMap, CallOf, GotOf, SavedMap
  <1> QED BY <1>9 DEF Store!Next

\* The first fsync only makes the disk what the file is.
LEMMA WriteBackSim ==
    ASSUME LockInv, RefInv, RefInv', NEW t \in Thread, PutSync(t)
    PROVE  Store!Next
  <1>1. /\ pc[t] = "p_sync" /\ pc'[t] = "p_commit"
        /\ UNCHANGED << ret, key, val, op, file >> /\ durable' = {file}
    BY DEF PutSync, Fsync, Goto, LockInv, TypeOK
  <1>2. ResultOK /\ ResultOK' BY DEF RefInv
  <1>3. Phase(t) = "put" /\ Phase(t)' = Phase(t)
    <2>1. op[t] = "put" BY <1>1, Before DEF PutPcs
    <2> QED BY <1>1, <1>2, <2>1, PhaseNow, PhaseNext DEF Unlocking
  <1>4. CallOf(t)' = CallOf(t) /\ GotOf(t) = None /\ GotOf(t)' = None
    BY <1>1, <1>3 DEF CallOf, GotOf
  <1>5. \A w \in Thread \ {t} : Same(w) BY OthersSame DEF Step, Proceed
  <1>6. PhaseMap' = PhaseMap /\ CallMap' = CallMap /\ GotMap' = GotMap
    <2>1. /\ PhaseMap' = [PhaseMap EXCEPT ![t] = Phase(t)']
          /\ CallMap' = [CallMap EXCEPT ![t] = CallOf(t)']
          /\ GotMap' = [GotMap EXCEPT ![t] = GotOf(t)']
      BY <1>5, OneMoves
    <2> QED BY <1>3, <1>4, <2>1 DEF PhaseMap, CallMap, GotMap
  <1>7. SavedMap' = {Contents(file)} BY <1>1 DEF SavedMap
  <1>8. Store!WriteBack
    BY <1>1, <1>6, <1>7
       DEF Store!WriteBack, PhaseMap, CallMap, GotMap, CallOf, GotOf, SavedMap
  <1> QED BY <1>8 DEF Store!Next

\* A get reads when it has come to the end of the records.
LEMMA ReadSim ==
    ASSUME "read" \notin Faults, LockInv, RefInv, RefInv', NEW t \in Thread, GetDone(t)
    PROVE  Store!Next
  <1>1. /\ pc[t] = "g_scan" /\ pc'[t] = "un_flock" /\ ~ HasRecord(hnd[t])
        /\ rc'[t] = IF best[t] = None THEN "missing" ELSE best[t]
        /\ UNCHANGED << ret, key, val, best, file, durable >>
        /\ best[t] \in Val \cup {None}
    BY DEF GetDone, Finish, LockInv, TypeOK
  <1>2. ResultOK /\ ResultOK' BY DEF RefInv
  <1>3. op[t] = "get" /\ key[t] \in Key /\ hnd[t] \in Handle BY <1>1, Before DEF GetPcs
  <1>4. Phase(t) = "get" /\ Phase(t)' = "read"
    <2>1. rc'[t] \in Val \cup {"missing"} BY <1>1
    <2> QED BY <1>1, <1>2, <1>3, <2>1, PhaseNow, PhaseNext DEF Unlocking
  <1>5. best[t] = Lookup(file, key[t])
    <2> DEFINE n == pos[hnd[t]]
    <2>1. n \in Nat /\ file \in Seq(Records) /\ Len(file) \in Nat
      BY <1>3, LenProperties DEF LockInv, TypeOK
    <2>2. /\ n <= Len(file) /\ \A i \in 1 .. n : file[i].shape # "short"
          /\ best[t] = LastVal(file, FoundUpto(file, n, key[t]))
      BY <1>1 DEF RefInv, GetOK
    <2>3. n = Len(file) \/ file[n + 1].shape = "short"
      BY <1>1, <2>1, <2>2 DEF HasRecord
    <2> HIDE DEF n
    <2> QED BY <2>1, <2>2, <2>3, ScanEnd
  <1>6. /\ CallOf(t) = [key |-> key[t], val |-> val[t]] /\ CallOf(t)' = CallOf(t)
        /\ GotOf(t)' = Contents(file)[key[t]]
    BY <1>1, <1>3, <1>4, <1>5 DEF CallOf, GotOf, Contents
  <1>7. \A w \in Thread \ {t} : Same(w) BY OthersSame DEF Step, Proceed
  <1>8. /\ PhaseMap' = [PhaseMap EXCEPT ![t] = "read"] /\ CallMap' = CallMap
        /\ GotMap' = [GotMap EXCEPT ![t] = Contents(file)[key[t]]]
    <2>1. /\ PhaseMap' = [PhaseMap EXCEPT ![t] = Phase(t)']
          /\ CallMap' = [CallMap EXCEPT ![t] = CallOf(t)']
          /\ GotMap' = [GotMap EXCEPT ![t] = GotOf(t)']
      BY <1>7, OneMoves
    <2> QED BY <1>4, <1>6, <2>1 DEF CallMap
  <1>9. PhaseMap[t] = "get" /\ CallMap[t].key = key[t]
    BY <1>4, <1>6 DEF PhaseMap, CallMap
  <1>10. Store!Read(t)
    BY <1>1, <1>8, <1>9
       DEF Store!Read, Store!Step, PhaseMap, CallMap, GotMap, CallOf, GotOf, SavedMap
  <1> QED BY <1>10 DEF Store!Next

LEMMA ReturnSim ==
    ASSUME LockInv, RefInv, RefInv', NEW t \in Thread, UnlockGlobal(t)
    PROVE  Store!Next
  <1>1. /\ pc[t] = "un_global" /\ pc'[t] = "idle" /\ ret' = [ret EXCEPT ![t] = Result(rc[t])]
        /\ UNCHANGED << file, durable >>
    BY DEF UnlockGlobal, Goto, LockInv, TypeOK
  <1>2. ResultOK /\ ResultOK' BY DEF RefInv
  <1>3. rc[t] \in {"fail", "ok", "missing"} \cup Val
    BY <1>1 DEF LockInv, TypeOK, CallOK, Results
  <1>4. Phase(t)' = "idle" BY <1>1, <1>2, PhaseNext
  <1>5. CallOf(t)' = None /\ GotOf(t)' = None BY <1>1, <1>4 DEF CallOf, GotOf
  <1>6. \A w \in Thread \ {t} : Same(w) BY OthersSame DEF Step, Proceed
  <1>7. /\ PhaseMap' = [PhaseMap EXCEPT ![t] = "idle"] /\ CallMap' = [CallMap EXCEPT ![t] = None]
        /\ GotMap' = [GotMap EXCEPT ![t] = None]
    <2>1. /\ PhaseMap' = [PhaseMap EXCEPT ![t] = Phase(t)']
          /\ CallMap' = [CallMap EXCEPT ![t] = CallOf(t)']
          /\ GotMap' = [GotMap EXCEPT ![t] = GotOf(t)']
      BY <1>6, OneMoves
    <2> QED BY <1>4, <1>5, <2>1
  <1>8. \/ PhaseMap[t] = "acked" /\ Result(rc[t]) = "ok"
        \/ PhaseMap[t] = "failed" /\ Result(rc[t]) = "fail"
        \/ PhaseMap[t] = "read" /\ Result(rc[t]) = IF GotMap[t] = None THEN "fail" ELSE GotMap[t]
    <2>1. PhaseMap[t] = Phase(t) /\ GotMap[t] = GotOf(t) BY DEF PhaseMap, GotMap
    <2>2. pc[t] \in Unlocking BY <1>1 DEF Unlocking
    <2>3. CASE rc[t] = "ok"
      <3>1. Phase(t) = "acked" BY <1>2, <2>2, <2>3, PhaseNow
      <3> QED BY <2>1, <2>3, <3>1 DEF Result
    <2>4. CASE rc[t] = "fail"
      <3>1. Phase(t) = "failed" BY <1>2, <2>2, <2>4, PhaseNow
      <3> QED BY <2>1, <2>4, <3>1 DEF Result
    <2>5. CASE rc[t] \in Val \cup {"missing"}
      <3>1. Phase(t) = "read" BY <1>2, <2>2, <2>5, PhaseNow
      <3>2. rc[t] = IF best[t] = None THEN "missing" ELSE best[t] BY <1>2, <2>5 DEF ResultOK
      <3>3. GotOf(t) = best[t] BY <3>1 DEF GotOf
      <3>4. best[t] \in Val \cup {None} BY DEF LockInv, TypeOK
      <3> QED BY <2>1, <3>1, <3>2, <3>3, <3>4, NoValue DEF Result
    <2> QED BY <1>3, <2>3, <2>4, <2>5
  <1>9. Store!Return(t)
    BY <1>1, <1>7, <1>8
       DEF Store!Return, Store!Step, PhaseMap, CallMap, GotMap, CallOf, GotOf, SavedMap
  <1> QED BY <1>9 DEF Store!Next

\* Locking, unlocking, the writes of a put before its committed word and the
\* records a get passes over are not seen.
LEMMA SilentStep ==
    ASSUME LockInv, FileInv, RefInv, RefInv', NEW t \in Thread,
           \/ LockGlobal(t) \/ LockDb(t) \/ Flock(t) \/ UnFlock(t) \/ UnlockDb(t)
           \/ PutScan(t) \/ PutTruncate(t) \/ PutKeyValue(t) \/ GetSeek(t) \/ GetRecord(t)
           \/ PutHeader(t) /\ UNCHANGED rc
    PROVE  UNCHANGED Store!vars
  <1>1. /\ UNCHANGED << ret, op, key, val, rc >>
        /\ \/ pc[t] \in Unlocking /\ pc'[t] \in Unlocking /\ best'[t] = best[t]
           \/ /\ pc[t] \notin Unlocking \cup {"idle", "p_sync2"}
              /\ pc'[t] \notin Unlocking \cup {"idle", "p_sync2"}
    <2>0. pc \in [Thread -> Pcs] BY DEF LockInv, TypeOK
    <2> USE <2>0 DEF Goto, Unlocking
    <2>1. CASE LockGlobal(t) \/ LockDb(t) \/ Flock(t) BY <2>1 DEF LockGlobal, LockDb, Flock
    <2>2. CASE UnFlock(t) \/ UnlockDb(t) BY <2>2 DEF UnFlock, UnlockDb
    <2>3. CASE PutScan(t) \/ PutTruncate(t) \/ PutKeyValue(t)
      BY <2>3 DEF PutScan, PutTruncate, PutKeyValue
    <2>4. CASE GetSeek(t) \/ GetRecord(t) BY <2>4 DEF GetSeek, GetRecord
    <2>5. CASE PutHeader(t) /\ UNCHANGED rc
      <3>1. ASSUME Finish(t, "fail") PROVE FALSE
        <4>1. rc' = [rc EXCEPT ![t] = "fail"] /\ rc \in [Thread -> Results \cup Val]
          BY <3>1 DEF Finish, LockInv, TypeOK
        <4>2. rc[t] = "fail" BY <2>5, <4>1
        <4>3. rc[t] = "pending" BY <2>5 DEF PutHeader, RefInv, ResultOK
        <4> QED BY <4>2, <4>3
      <3> QED BY <2>5, <3>1 DEF PutHeader
    <2> QED BY <2>1, <2>2, <2>3, <2>4, <2>5
  <1>2. ResultOK /\ ResultOK' BY DEF RefInv
  <1>3. Phase(t)' = Phase(t) /\ GotOf(t)' = GotOf(t)
    <2>1. CASE pc[t] \in Unlocking /\ pc'[t] \in Unlocking /\ best'[t] = best[t]
      <3>1. Phase(t)' = Phase(t)
        <4>1. pc[t] # "idle" /\ pc[t] # "p_sync2" /\ pc'[t] # "idle" /\ pc'[t] # "p_sync2"
          BY <2>1 DEF Unlocking
        <4> QED BY <1>1, <4>1 DEF Phase
      <3> QED BY <2>1, <3>1 DEF GotOf
    <2>2. CASE /\ pc[t] \notin Unlocking \cup {"idle", "p_sync2"}
               /\ pc'[t] \notin Unlocking \cup {"idle", "p_sync2"}
      <3>1. Phase(t) = op[t] /\ Phase(t)' = op'[t] BY <1>2, <2>2, PhaseNow, PhaseNext
      <3>2. op[t] \in {"put", "get"} BY <2>2, Before
      <3> QED BY <1>1, <3>1, <3>2 DEF GotOf
    <2> QED BY <1>1, <2>1, <2>2
  <1>4. Contents(file') = Contents(file) /\ SavedMap' = SavedMap
    <2>1. CASE PutTruncate(t) \/ PutHeader(t) \/ PutKeyValue(t)
      BY <2>1, ContentsKept DEF RefInv
    <2>2. CASE ~ (PutTruncate(t) \/ PutHeader(t) \/ PutKeyValue(t))
      <3>1. UNCHANGED << file, durable >>
        BY <2>2 DEF LockGlobal, LockDb, Flock, UnFlock, UnlockDb, PutScan, GetSeek, GetRecord
      <3> QED BY <3>1 DEF SavedMap
    <2> QED BY <2>1, <2>2
  <1>5. \A w \in Thread \ {t} : Same(w) BY OthersSame DEF Step, Proceed
  <1>6. pc[t] # "idle" /\ pc'[t] # "idle" BY <1>1 DEF Unlocking
  <1> QED BY <1>1, <1>3, <1>4, <1>5, <1>6, SilentSim

\* A call that fails has not changed the map by failing.
LEMMA FailStep ==
    ASSUME LockInv, FileInv, RefInv, RefInv', NEW t \in Thread,
           \/ FlockFails(t) \/ PutFails(t) \/ GetFails(t)
           \/ PutHeader(t) /\ "write" \in Faults /\ Finish(t, "fail")
    PROVE  Store!Next
  <1>1. /\ UNCHANGED << ret, key, val >> /\ Faults # {}
        /\ pc[t] \notin Unlocking \cup {"idle"} /\ pc'[t] \in Unlocking /\ rc'[t] = "fail"
    <2>0. pc \in [Thread -> Pcs] /\ rc \in [Thread -> Results \cup Val] BY DEF LockInv, TypeOK
    <2> USE <2>0 DEF Goto, Unlocking, Finish
    <2>1. CASE FlockFails(t) BY <2>1 DEF FlockFails
    <2>2. CASE PutFails(t) \/ GetFails(t)
      <3>1. PICK at \in FilePcs, kind \in Faults : Fails(t, at, kind)
        BY <2>2 DEF PutFails, GetFails, Fails, FilePcs, PutPcs, GetPcs
      <3> QED BY <3>1 DEF Fails, FilePcs, PutPcs, GetPcs
    <2>3. CASE PutHeader(t) /\ "write" \in Faults /\ Finish(t, "fail")
      BY <2>3 DEF PutHeader
    <2> QED BY <2>1, <2>2, <2>3
  <1>2. ResultOK /\ ResultOK' BY DEF RefInv
  <1>3. Phase(t)' = "failed" BY <1>1, <1>2, PhaseNext
  <1>4. Phase(t) \in {"put", "get", "applied"}
    <2>1. op[t] \in {"put", "get"} BY <1>1, Before
    <2> QED BY <1>1, <1>2, <2>1, PhaseNow
  <1>5. Contents(file') = Contents(file) /\ SavedMap' = SavedMap
    <2>1. CASE PutHeader(t)
      BY <2>1, ContentsKept DEF RefInv
    <2>2. CASE ~ PutHeader(t)
      <3>1. UNCHANGED << file, durable >>
        BY <2>2 DEF FlockFails, PutFails, GetFails, Fails
      <3> QED BY <3>1 DEF SavedMap
    <2> QED BY <2>1, <2>2
  <1>6. \A w \in Thread \ {t} : Same(w) BY OthersSame DEF Step, Proceed
  <1>7. pc[t] # "idle" /\ pc'[t] # "idle" BY <1>1 DEF Unlocking
  <1> QED BY <1>1, <1>3, <1>4, <1>5, <1>6, <1>7, FailSim

\* The calls of threads that die are as if they had never begun.
LEMMA DieMaps ==
    ASSUME RefInv', NEW T \in SUBSET Thread, Abandon(T)
    PROVE  /\ PhaseMap' = [t \in Thread |-> IF t \in T THEN "idle" ELSE PhaseMap[t]]
           /\ CallMap' = [t \in Thread |-> IF t \in T THEN None ELSE CallMap[t]]
           /\ GotMap' = [t \in Thread |-> IF t \in T THEN None ELSE GotMap[t]]
           /\ ret' = [t \in Thread |-> IF t \in T THEN "none" ELSE ret[t]]
  <1>1. \A t \in Thread \ T : Same(t) BY DEF Abandon, DropLocals, Same
  <1>2. \A t \in T : pc'[t] = "idle" BY DEF Abandon
  <1>3. \A t \in Thread \ T :
           Phase(t)' = Phase(t) /\ CallOf(t)' = CallOf(t) /\ GotOf(t)' = GotOf(t)
    BY <1>1, SameMaps
  <1>4. ASSUME NEW t \in T PROVE Phase(t)' = "idle" /\ CallOf(t)' = None /\ GotOf(t)' = None
    <2>1. Phase(t)' = "idle" BY <1>2, PhaseNext DEF RefInv
    <2> QED BY <1>2, <2>1 DEF CallOf, GotOf
  <1> QED BY <1>3, <1>4 DEF PhaseMap, CallMap, GotMap, Abandon

LEMMA CrashSim ==
    ASSUME RefInv', NEW p \in Proc, ProcCrash(p)
    PROVE  Store!Next
  <1> DEFINE T == {t \in Thread : ProcOf[t] = p}
  <1>1. Abandon(T) /\ UNCHANGED << file, durable >> BY DEF ProcCrash
  <1>2. T \in SUBSET Thread OBVIOUS
  <1> HIDE DEF T
  <1>3. /\ PhaseMap' = [t \in Thread |-> IF t \in T THEN "idle" ELSE PhaseMap[t]]
        /\ CallMap' = [t \in Thread |-> IF t \in T THEN None ELSE CallMap[t]]
        /\ GotMap' = [t \in Thread |-> IF t \in T THEN None ELSE GotMap[t]]
        /\ ret' = [t \in Thread |-> IF t \in T THEN "none" ELSE ret[t]]
    BY <1>1, <1>2, DieMaps
  <1>4. Store!Crash(T)
    BY <1>1, <1>3 DEF Store!Crash, Store!Die, PhaseMap, CallMap, GotMap, CallOf, GotOf
  <1> QED BY <1>2, <1>4 DEF Store!Next

LEMMA PowerSim ==
    ASSUME RefInv', PowerLoss
    PROVE  Store!Next
  <1>1. Abandon(Thread) /\ file' \in durable /\ durable' = {file'} BY DEF PowerLoss
  <1>2. /\ PhaseMap' = [t \in Thread |-> IF t \in Thread THEN "idle" ELSE PhaseMap[t]]
        /\ CallMap' = [t \in Thread |-> IF t \in Thread THEN None ELSE CallMap[t]]
        /\ GotMap' = [t \in Thread |-> IF t \in Thread THEN None ELSE GotMap[t]]
        /\ ret' = [t \in Thread |-> IF t \in Thread THEN "none" ELSE ret[t]]
    BY <1>1, DieMaps
  <1>3. Contents(file') \in SavedMap /\ SavedMap' = {Contents(file')}
    BY <1>1 DEF SavedMap
  <1>4. Store!PowerLoss
    BY <1>2, <1>3
       DEF Store!PowerLoss, Store!Die, PhaseMap, CallMap, GotMap, CallOf, GotOf, SavedMap
  <1> QED BY <1>4 DEF Store!Next

----------------------------------------------------------------------------

\* Initially the map is empty, whatever partial record the file ends in.
LEMMA InitSim == Init => Store!Init /\ RefInv
  <1> SUFFICES ASSUME Init PROVE Store!Init /\ RefInv OBVIOUS
  <1>1. /\ file \in Seq(Records) /\ durable = {file}
        /\ \A i \in 1 .. Len(file) : file[i].shape = "short"
    <2>1. CASE file = << >> BY <2>1 DEF Init
    <2>2. ASSUME NEW k \in Key, NEW v \in Val, file = << Record(k, v, "short") >>
          PROVE  \A i \in 1 .. Len(file) : file[i].shape = "short"
      BY <2>2 DEF Record
    <2>3. file \in Seq(Records) BY TypeInit DEF TypeOK
    <2> QED BY <2>1, <2>2, <2>3 DEF Init
  <1>2. \A i \in 1 .. Len(file) : ~ Valid(file[i]) BY <1>1 DEF Valid
  <1>3. RefInv
    <2>1. ResultOK BY NoValue DEF Init, ResultOK, Unlocking, GetPcs
    <2>2. GetOK /\ RecordOK BY DEF Init, GetOK, RecordOK
    <2>3. DurableOK BY <1>1, <1>2 DEF DurableOK, Within
    <2> QED BY <2>1, <2>2, <2>3 DEF RefInv
  <1>4. Contents(file) = [k \in Key |-> None]
    <2>1. DOMAIN file = 1 .. Len(file) BY <1>1
    <2>2. \A k \in Key : Lookup(file, k) = None BY <1>2, <2>1 DEF Lookup
    <2> QED BY <2>2 DEF Contents
  <1>5. \A t \in Thread : Phase(t) = "idle" BY <1>3, PhaseNow DEF Init, RefInv
  <1>6. /\ PhaseMap = [t \in Thread |-> "idle"] /\ CallMap = [t \in Thread |-> None]
        /\ GotMap = [t \in Thread |-> None]
    BY <1>5 DEF Init, PhaseMap, CallMap, GotMap, CallOf, GotOf
  <1>7. SavedMap = {Contents(file)} BY <1>1 DEF SavedMap
  <1>8. ret = [t \in Thread |-> "none"] BY DEF Init
  <1>9. Store!Init
    BY <1>4, <1>6, <1>7, <1>8
       DEF Store!Init, PhaseMap, CallMap, GotMap, CallOf, GotOf, SavedMap
  <1> QED BY <1>3, <1>9

\* Every step of the library is a step of the map or leaves it alone.
LEMMA StepSim ==
    ASSUME "read" \notin Faults, LockInv, FileInv, RefInv, LockInv', FileInv', RefInv',
           [Next]_vars
    PROVE  Store!Next \/ UNCHANGED Store!vars
  <1>1. ASSUME NEW t \in Thread, NEW h \in Handle, Request(t, h)
        PROVE  Store!Next \/ UNCHANGED Store!vars
    <2>1. CASE KvdbOpen(t, h) \/ KvdbClose(t, h)
      <3>1. UNCHANGED << file, durable, pc, op, key, val, best, rc, ret >>
        BY <2>1 DEF KvdbOpen, KvdbClose
      <3>2. \A w \in Thread : Phase(w)' = Phase(w) /\ CallOf(w)' = CallOf(w) /\ GotOf(w)' = GotOf(w)
        BY <3>1, SameMaps DEF Same
      <3> QED BY <3>1, <3>2, StutterSim DEF PhaseMap, CallMap, GotMap, SavedMap
    <2>2. ASSUME NEW o \in {"put", "get"}, NEW k \in Key, NEW v \in Val \cup {None},
                 Begin(t, h, o, k, v)
          PROVE  Store!Next
      BY <2>2, InvokeSim
    <2>3. ASSUME NEW k, Refuse(t, h, k) PROVE Store!Next
      BY <2>3, RejectSim
    <2> QED BY <1>1, <2>1, <2>2, <2>3 DEF Request, KvdbPut, KvdbGet
  <1>2. ASSUME NEW t \in Thread, Step(t) PROVE Store!Next \/ UNCHANGED Store!vars
    <2>1. CASE \/ LockGlobal(t) \/ LockDb(t) \/ Flock(t) \/ UnFlock(t) \/ UnlockDb(t)
               \/ PutScan(t) \/ PutTruncate(t) \/ PutKeyValue(t) \/ GetSeek(t) \/ GetRecord(t)
      BY <2>1, SilentStep
    <2>2. CASE PutHeader(t)
      <3>1. UNCHANGED rc \/ ("write" \in Faults /\ Finish(t, "fail")) BY <2>2 DEF PutHeader
      <3> QED BY <2>2, <3>1, SilentStep, FailStep
    <2>3. CASE FlockFails(t) \/ PutFails(t) \/ GetFails(t) BY <2>3, FailStep
    <2>4. CASE UnlockGlobal(t) BY <2>4, ReturnSim
    <2>5. CASE PutSync(t) BY <2>5, WriteBackSim
    <2>6. CASE PutCommit(t) BY <2>6, ApplySim
    <2>7. CASE PutSync2(t) BY <2>7, AckSim
    <2>8. CASE GetDone(t) BY <2>8, ReadSim
    <2> QED BY <1>2, <2>1, <2>2, <2>3, <2>4, <2>5, <2>6, <2>7, <2>8 DEF Step, Proceed
  <1>3. ASSUME NEW p \in Proc, ProcCrash(p) PROVE Store!Next
    BY <1>3, CrashSim
  <1>4. CASE PowerLoss BY <1>4, PowerSim
  <1>5. CASE UNCHANGED vars
    <2>1. \A w \in Thread : Phase(w)' = Phase(w) /\ CallOf(w)' = CallOf(w) /\ GotOf(w)' = GotOf(w)
      BY <1>5, SameMaps DEF Same, vars
    <2> QED BY <1>5, <2>1, StutterSim DEF PhaseMap, CallMap, GotMap, SavedMap, vars
  <1> QED BY <1>1, <1>2, <1>3, <1>4, <1>5 DEF Next

\* kvdb_put and kvdb_get are the operations of a linearizable map that survives
\* the death of its callers and losses of power, as long as reads do not fail.
THEOREM ImplementsStoreTheorem ==
    ASSUME "read" \notin Faults
    PROVE  Spec => ImplementsStore
  <1>1. Init => Store!Init /\ RefInv
    BY InitSim
  <1>2. LockInv /\ FileInv /\ RefInv /\ [Next]_vars => RefInv'
    BY RefStep
  <1>3. LockInv /\ FileInv /\ RefInv /\ (LockInv /\ FileInv /\ RefInv)' /\ [Next]_vars
           => [Store!Next]_(Store!vars)
    BY StepSim
  <1>4. Spec => [](LockInv /\ FileInv)
    BY FileInvariant
  <1> QED BY <1>1, <1>2, <1>3, <1>4, PTL DEF Spec, ImplementsStore, Store!Spec
=============================================================================
