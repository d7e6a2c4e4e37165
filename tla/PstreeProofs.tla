---------------------------- MODULE PstreeProofs ----------------------------
(***************************************************************************)
(* Proofs about pstree for any number of processes, created and ended      *)
(* during the scan in any order, and any of the calls failing: everything  *)
(* is printed at most once, in its place, in order, and nobody is missing. *)
(***************************************************************************)
EXTENDS Pstree, FiniteSetTheorems, WellFoundedInduction, TLAPS

\* The abbreviations for tuples of variables are always expanded.
USE DEF env, prog

----------------------------------------------------------------------------
(* The inductive invariant: the processes.                                 *)

\* Whoever has a parent has one that is there; process 1 has none.
EnvOK ==
    /\ 1 \in DOMAIN table /\ table[1].ppid = 0
    /\ \A p \in DOMAIN table : table[p].ppid # 0 => table[p].ppid \in DOMAIN table

\* The directory is read in the order of the pids, so no pid comes twice.
ScanOK ==
    /\ \A i, j \in Index : i < j => list[i].pid < list[j].pid
    /\ \A i \in Index : list[i].pid <= cursor
    /\ \A k, m \in 1 .. Len(batch) : k < m => batch[k] < batch[m]
    /\ \A k \in 1 .. Len(batch) : batch[k] <= cursor
    /\ \A i \in Index, k \in 1 .. Len(batch) : list[i].pid < batch[k]
    /\ \A i \in Index : /\ list[i].pid = 1 => list[i].ppid = 0
                        /\ IF list[i].ppid = 0 THEN origin[i].parent = 0
                                               ELSE list[i].ppid \in Pid
    /\ pc = "scan" => batch # << >>
    /\ pc = "start" => list = << >> /\ batch = << >>

\* Process d has had the pid p: it has it now, or it was recorded with it, as
\* itself or as a parent.
Known(p, d) ==
    \/ p \in DOMAIN table /\ d = table[p].id
    \/ \E i \in Index : p = list[i].pid /\ d = origin[i].id
    \/ \E i \in Index : list[i].ppid # 0 /\ p = list[i].ppid /\ d = origin[i].parent

\* A process has one pid, and a pid one process unless it changed hands.
KnownOK ==
    /\ \A p, d : Known(p, d) => p \in used /\ d \in 1 .. MaxPid + births
    /\ \A p, d, q, e : Known(p, d) /\ Known(q, e) =>
          (d = e => p = q) /\ (~reused /\ p = q => d = e)

\* e is the parent of d, or was when d was read.
Edge(d, e) ==
    \/ \E p \in DOMAIN table : table[p].ppid # 0 /\ d = table[p].id /\ e = table[table[p].ppid].id
    \/ \E i \in Index : list[i].ppid # 0 /\ d = origin[i].id /\ e = origin[i].parent

\* The parents of different times form no loop.
Acyclic == \A T \in SUBSET Ids : T # {} => \E d \in T : \A e \in T : ~Edge(d, e)

\* Who was there all along is read, or still will be.
LivedOK ==
    \A d \in lived :
        \/ \E i \in Index : origin[i].id = d
        \/ /\ pc \in {"start", "fill", "scan", "failed"}
           /\ \E p \in DOMAIN table :
                 table[p].id = d /\ (p > cursor \/ \E k \in 1 .. Len(batch) : batch[k] = p)

----------------------------------------------------------------------------
(* The inductive invariant: the tree.                                      *)

\* The index of the parent, 0 if it was not read, and those with parent i.
Up(i) == FindProcessIndex(list[i].ppid)
Kids(i) == {j \in Index : Up(j) = i}

\* s has every element of S, once.
Lists(s, S) ==
    /\ s \in Seq(S) /\ \A x \in S : \E k \in 1 .. Len(s) : s[k] = x
    /\ \A k, m \in 1 .. Len(s) : s[k] = s[m] => k = m

TreeOK ==
    /\ pc \in {"start", "fill", "scan", "build"} => children = << >> /\ unsorted = {}
    /\ pc \notin {"print", "ok"} => stack = << >> /\ out = << >>
    /\ pc \in {"sort", "roots", "print", "ok"} =>
          Len(children) = Len(list) /\ \A i \in Index : Lists(children[i], Kids(i))
    /\ pc \in {"roots", "print", "ok"} =>
          \A i \in Index \ unsorted : \A k, m \in 1 .. Len(children[i]) :
              k < m => Before(children[i][k], children[i][m])

\* About the lines W of which n are printed and the others to come; nothing
\* comes twice.
Once(W) == \A x, y \in 1 .. Len(W) : W[x].index = W[y].index => x = y

\* Line m is the one that x is or will be indented under.
Under(W, n, x, m) ==
    /\ W[m].index = Up(W[x].index) /\ W[m].depth = W[x].depth - 1
    /\ \A z \in m + 1 .. x - 1 : z <= n => W[z].depth >= W[x].depth

\* Every line is a root, or under the line of its parent, which is printed.
Placed(W, n) ==
    \A x \in 1 .. Len(W) :
        /\ W[x].depth <= n
        /\ W[x].depth = 0 <=> Up(W[x].index) = 0
        /\ W[x].depth # 0 => \E m \in 1 .. n : m < x /\ Under(W, n, x, m)

\* The innermost calls come first.
Nested(W, n) == \A x, y \in n + 1 .. Len(W) : x < y => W[x].depth >= W[y].depth

\* The roots and the children of what is printed are printed or to come.
Reached(W, n) ==
    \A i \in Index :
        Up(i) = 0 \/ (\E m \in 1 .. n : W[m].index = Up(i)) =>
            \E x \in 1 .. Len(W) : W[x].index = i

\* Children of the same parent, and the roots, come in order.
InOrder(W) ==
    \A x, y \in 1 .. Len(W) :
        /\ x < y /\ Up(W[x].index) = Up(W[y].index) /\ Up(W[x].index) \notin unsorted
        => Before(W[x].index, W[y].index)

Good(W, n) == Once(W) /\ Placed(W, n) /\ Nested(W, n) /\ Reached(W, n) /\ InOrder(W)
PrintOK ==
    /\ pc \in {"print", "ok"} => Good(out \o stack, Len(out))
    /\ pc = "ok" => stack = << >>

\* TypeOK in two parts, for the scan and for the tree.
Entry == [pid : Pid, ppid : 0 .. MaxPid, name : Name \ {0}]
ScanType ==
    /\ DOMAIN table \subseteq Pid /\ used \subseteq Pid /\ reused \in BOOLEAN
    /\ \A p \in DOMAIN table : table[p] \in [id : Ids, ppid : 0 .. MaxPid, name : Name]
    /\ births \in 0 .. MaxBirths /\ lived \subseteq Ids
    /\ numeric \in BOOLEAN /\ cursor \in 0 .. MaxPid
    /\ batch \in Seq(0 .. MaxPid) /\ Len(batch) <= BATCH
    /\ list \in Seq(Entry)
    /\ origin \in Seq([id : Ids, parent : Ids]) /\ Len(origin) = Len(list)
TreeType ==
    /\ pc \in {"start", "fill", "scan", "build", "sort", "roots", "print", "ok", "failed"}
    /\ children \in Seq(Seq(Index)) /\ unsorted \subseteq Index
    /\ stack \in Seq([index : Index, depth : 0 .. Len(list)])
    /\ out \in Seq([index : Index, depth : 0 .. Len(list)])

ProcOK == ScanType /\ EnvOK /\ ScanOK /\ KnownOK /\ Acyclic /\ LivedOK
Inv == ProcOK /\ TreeType /\ TreeOK /\ PrintOK

----------------------------------------------------------------------------
(* Sequences, orders and the search in the list.                           *)

\* What Ordered yields for a finite set and a strict order in which any two
\* of its elements can be compared.
LEMMA OrderedLists ==
    ASSUME NEW S, IsFiniteSet(S), NEW R,
           \A i \in S : << i, i >> \notin R,
           \A i, j, k \in S : << i, j >> \in R /\ << j, k >> \in R => << i, k >> \in R,
           \A i, j \in S : i # j => << i, j >> \in R \/ << j, i >> \in R
    PROVE  /\ Lists(Ordered(S, R), S)
           /\ \A k, m \in 1 .. Len(Ordered(S, R)) :
                 k < m => << Ordered(S, R)[k], Ordered(S, R)[m] >> \in R
  <1> DEFINE B(i) == {j \in S : << j, i >> \in R}
             n == Cardinality(S)
             rk == [i \in S |-> Cardinality(B(i))]
             s == Ordered(S, R)
  <1>1. n \in Nat BY FS_CardinalityType
  <1>2. ASSUME NEW i \in S
        PROVE  /\ IsFiniteSet(B(i)) /\ rk[i] \in 0 .. n - 1
    <2>1. B(i) \in SUBSET S /\ i \notin B(i) OBVIOUS
    <2> HIDE DEF B
    <2>2. IsFiniteSet(B(i)) /\ Cardinality(B(i)) <= n /\ n # Cardinality(B(i))
      BY <2>1, FS_Subset
    <2>3. Cardinality(B(i)) \in Nat BY <2>2, FS_CardinalityType
    <2> QED BY <1>1, <2>2, <2>3
  <1>r. \A i \in S : rk[i] \in Nat /\ rk[i] < n
    <2> HIDE DEF B, rk, n
    <2> QED BY <1>1, <1>2
  <1>3. ASSUME NEW i \in S, NEW j \in S, << i, j >> \in R
        PROVE  rk[i] < rk[j]
    <2>1. B(i) \in SUBSET B(j) BY <1>3
    <2>2. i \in B(j) /\ i \notin B(i) BY <1>3
    <2>3. IsFiniteSet(B(j)) BY <1>2
    <2>r. rk[i] \in Nat /\ rk[j] \in Nat BY <1>r
    <2>4. rk[i] = Cardinality(B(i)) /\ rk[j] = Cardinality(B(j)) OBVIOUS
    <2> HIDE DEF B, rk
    <2>5. Cardinality(B(i)) <= Cardinality(B(j)) /\ Cardinality(B(j)) # Cardinality(B(i))
      BY <2>1, <2>2, <2>3, FS_Subset
    <2> QED BY <2>4, <2>5, <2>r
  <1>4. \A i, j \in S : rk[i] = rk[j] => i = j
    <2> SUFFICES ASSUME NEW i \in S, NEW j \in S, rk[i] = rk[j], i # j PROVE FALSE OBVIOUS
    <2>1. rk[i] \in Nat /\ rk[j] \in Nat BY <1>r
    <2>2. rk[i] < rk[j] \/ rk[j] < rk[i] BY <1>3
    <2> HIDE DEF rk
    <2> QED BY <2>1, <2>2
  <1>5. rk \in Surjection(S, 0 .. n - 1)
    <2>1. rk \in Injection(S, 0 .. n - 1)
      <3>1. rk \in [S -> 0 .. n - 1] BY <1>2
      <3> HIDE DEF rk
      <3> QED BY <3>1, <1>4 DEF Injection, IsInjective
    <2>2. IsFiniteSet(0 .. n - 1) /\ Cardinality(0 .. n - 1) = n
      <3> HIDE DEF n
      <3> QED BY <1>1, FS_Interval
    <2> HIDE DEF rk
    <2> QED BY <2>1, <2>2, FS_Injection
  <1>6. \A k \in 1 .. n : \E i \in S : rk[i] = k - 1
    <2> HIDE DEF rk
    <2>1. \A r \in 0 .. n - 1 : \E i \in S : rk[i] = r BY <1>5 DEF Surjection
    <2>2. \A k \in 1 .. n : k - 1 \in 0 .. n - 1 BY <1>1
    <2> QED BY <2>1, <2>2
  <1>7. s = [k \in 1 .. n |-> CHOOSE i \in S : Cardinality(B(i)) = k - 1]
    BY Zenon DEF Ordered
  <1>8. \A k \in 1 .. n : s[k] \in S /\ rk[s[k]] = k - 1
    <2>1. \A i \in S : rk[i] = Cardinality(B(i)) OBVIOUS
    <2> HIDE DEF B, rk, s, n
    <2>2. \A k \in 1 .. n : \E i \in S : Cardinality(B(i)) = k - 1 BY <1>6, <2>1
    <2>3. \A k \in 1 .. n : s[k] \in S /\ Cardinality(B(s[k])) = k - 1 BY <1>7, <2>2
    <2> QED BY <2>1, <2>3
  <1> HIDE DEF B, rk, s, n
  <1>9. s \in Seq(S) /\ Len(s) = n
    BY <1>1, <1>7, <1>8
  <1>10. ASSUME NEW k \in 1 .. n, NEW m \in 1 .. n, s[k] = s[m] PROVE k = m
    BY <1>1, <1>8, <1>10
  <1>11. ASSUME NEW x \in S PROVE \E k \in 1 .. n : s[k] = x
    <2>1. rk[x] + 1 \in 1 .. n /\ (rk[x] + 1) - 1 = rk[x] BY <1>1, <1>r
    <2>2. rk[s[rk[x] + 1]] = rk[x] /\ s[rk[x] + 1] \in S BY <1>8, <2>1
    <2> QED BY <1>4, <2>1, <2>2
  <1>12. ASSUME NEW k \in 1 .. n, NEW m \in 1 .. n, k < m PROVE << s[k], s[m] >> \in R
    <2>1. s[k] \in S /\ s[m] \in S /\ rk[s[k]] = k - 1 /\ rk[s[m]] = m - 1 BY <1>8
    <2>2. s[k] # s[m] BY <1>10, <1>12, <1>1
    <2>3. ~ (rk[s[m]] < rk[s[k]]) BY <2>1, <1>1, <1>12
    <2> QED BY <1>3, <2>1, <2>2, <2>3
  <1>13. Lists(s, S) BY <1>9, <1>10, <1>11 DEF Lists
  <1>14. \A k, m \in 1 .. Len(s) : k < m => << s[k], s[m] >> \in R BY <1>9, <1>12
  <1> QED BY <1>13, <1>14 DEF s, n

\* Every set of numbers that is not empty has a least one, and Min is it.
LEMMA MinIsLeast ==
    ASSUME NEW T \in SUBSET Nat, T # {}
    PROVE  Min(T) \in T /\ \A y \in T : Min(T) <= y
  <1>1. \E R : IsWellFoundedOn(R, Nat) /\ \A x, y \in Nat : y < x => <<y, x>> \in R
    <2>1. \A x, y \in Nat : y < x => <<y, x>> \in OpToRel(<, Nat)
      BY DEF OpToRel
    <2> QED BY <2>1, NatLessThanWellFounded
  <1>2. PICK R : IsWellFoundedOn(R, Nat) /\ \A x, y \in Nat : y < x => <<y, x>> \in R
    BY <1>1
  <1>3. PICK x \in T : \A y \in T : <<y, x>> \notin R
    BY <1>2, WFMin
  <1>4. \A y \in T : ~ (y < x)
    BY <1>2, <1>3
  <1>5. \A y \in T : x <= y
    BY <1>4
  <1> QED BY <1>3, <1>5 DEF Min

LEMMA ListTypes ==
    ASSUME TypeOK
    PROVE  /\ Len(list) \in Nat /\ Index \subseteq Nat /\ IsFiniteSet(Index)
           /\ \A i \in Index : /\ list[i].pid \in Pid /\ list[i].pid \in Nat
                              /\ list[i].ppid \in Nat /\ list[i].name \in Nat
                              /\ origin[i].id \in Ids /\ origin[i].parent \in Ids
  <1>1. /\ list \in Seq([pid : Pid, ppid : 0 .. MaxPid, name : Name \ {0}])
        /\ origin \in Seq([id : Ids, parent : Ids]) /\ Len(origin) = Len(list)
    BY DEF TypeOK
  <1>2. Len(list) \in Nat BY <1>1
  <1>3. IsFiniteSet(Index) BY <1>2, FS_Interval DEF Index
  <1>4. \A i \in Index : /\ list[i] \in [pid : Pid, ppid : 0 .. MaxPid, name : Name \ {0}]
                         /\ origin[i] \in [id : Ids, parent : Ids]
    <2> DEFINE L == [pid : Pid, ppid : 0 .. MaxPid, name : Name \ {0}]
               O == [id : Ids, parent : Ids]
    <2>1. list \in Seq(L) /\ origin \in Seq(O) /\ Len(origin) = Len(list) BY <1>1
    <2> HIDE DEF L, O
    <2>2. \A i \in Index : list[i] \in L /\ origin[i] \in O BY <2>1 DEF Index
    <2> QED BY <2>2 DEF L, O
  <1>5. Name \subseteq Nat /\ MaxPid \in Nat BY PstreeAssumption
  <1>6. Index \subseteq Nat BY <1>2 DEF Index
  <1>7. \A i \in Index : /\ list[i].pid \in Pid /\ list[i].ppid \in 0 .. MaxPid
                         /\ list[i].name \in Name
                         /\ origin[i].id \in Ids /\ origin[i].parent \in Ids
    BY <1>4
  <1>8. Pid \subseteq Nat /\ 0 .. MaxPid \subseteq Nat BY <1>5 DEF Pid
  <1> QED BY <1>2, <1>3, <1>5, <1>6, <1>7, <1>8

\* find_process_index finds the entry with the pid, as there is at most one.
LEMMA FindIs ==
    ASSUME TypeOK, ScanOK, NEW p
    PROVE  /\ FindProcessIndex(p) \in 0 .. Len(list)
           /\ FindProcessIndex(p) = 0 <=> \A i \in Index : list[i].pid # p
           /\ \A i \in Index : FindProcessIndex(p) = i <=> list[i].pid = p
  <1> DEFINE I == {i \in 1 .. Len(list) : list[i].pid = p}
  <1>0. Len(list) \in Nat /\ Index \subseteq Nat BY ListTypes
  <1>1. FindProcessIndex(p) = IF I # {} THEN Min(I) ELSE 0
    BY Zenon DEF FindProcessIndex, SelectInSeq
  <1>2. I \in SUBSET Nat OBVIOUS
  <1>3. I # {} => Min(I) \in I BY <1>2, MinIsLeast
  <1>4. \A i, j \in Index : list[i].pid = list[j].pid => i = j
    <2> SUFFICES ASSUME NEW i \in Index, NEW j \in Index, list[i].pid = list[j].pid, i # j
                 PROVE  FALSE OBVIOUS
    <2>1. i < j \/ j < i BY <1>0
    <2>2. list[i].pid \in Nat /\ list[j].pid \in Nat
      BY ListTypes
    <2> QED BY <2>1, <2>2 DEF ScanOK
  <1>5. CASE I = {}
    <2>1. FindProcessIndex(p) = 0 BY <1>1, <1>5
    <2>2. \A i \in Index : list[i].pid # p /\ i # 0 BY <1>5 DEF Index
    <2> QED BY <1>0, <2>1, <2>2
  <1>6. CASE I # {}
    <2>1. FindProcessIndex(p) \in I BY <1>1, <1>3, <1>6
    <2>2. FindProcessIndex(p) \in 1 .. Len(list) /\ list[FindProcessIndex(p)].pid = p BY <2>1
    <2> QED BY <1>0, <1>4, <2>2 DEF Index
  <1> QED BY <1>5, <1>6

\* Where the search leads from each entry.
LEMMA UpIs ==
    ASSUME TypeOK, ScanOK
    PROVE  \A i \in Index :
              /\ Up(i) \in 0 .. Len(list)
              /\ Up(i) = 0 <=> \A j \in Index : list[j].pid # list[i].ppid
              /\ \A j \in Index : Up(i) = j <=> list[j].pid = list[i].ppid
  BY FindIs DEF Up

\* compare_by_name and compare_by_pid order the entries strictly, and of two of
\* them one comes first.
LEMMA BeforeOrder ==
    ASSUME TypeOK, ScanOK
    PROVE  /\ \A i \in Index : ~Before(i, i)
           /\ \A i, j, k \in Index : Before(i, j) /\ Before(j, k) => Before(i, k)
           /\ \A i, j \in Index : i # j => Before(i, j) \/ Before(j, i)
  <1>1. \A i \in Index : list[i].pid \in Nat /\ list[i].name \in Nat
    BY ListTypes
  <1>2. \A i, j \in Index : i # j => list[i].pid < list[j].pid \/ list[j].pid < list[i].pid
    <2>1. \A i, j \in Index : i # j => i < j \/ j < i BY ListTypes
    <2> QED BY <2>1 DEF ScanOK
  <1> QED BY <1>1, <1>2 DEF Before

\* Sorted lists a set of indices in that order.
LEMMA SortedLists ==
    ASSUME TypeOK, ScanOK, NEW S \in SUBSET Index
    PROVE  /\ Lists(Sorted(S), S)
           /\ \A k, m \in 1 .. Len(Sorted(S)) : k < m => Before(Sorted(S)[k], Sorted(S)[m])
  <1> DEFINE R == {p \in Index \X Index : Before(p[1], p[2])}
  <1>1. IsFiniteSet(S)
    <2>1. IsFiniteSet(Index) BY ListTypes
    <2> QED BY <2>1, FS_Subset
  <1>2. \A i, j \in Index : << i, j >> \in R <=> Before(i, j) OBVIOUS
  <1>3. Sorted(S) = Ordered(S, R) BY Zenon DEF Sorted
  <1> HIDE DEF R
  <1>4. /\ \A i \in S : << i, i >> \notin R
        /\ \A i, j, k \in S : << i, j >> \in R /\ << j, k >> \in R => << i, k >> \in R
        /\ \A i, j \in S : i # j => << i, j >> \in R \/ << j, i >> \in R
    BY <1>2, BeforeOrder
  <1>5. /\ Lists(Ordered(S, R), S)
        /\ \A k, m \in 1 .. Len(Ordered(S, R)) :
              k < m => << Ordered(S, R)[k], Ordered(S, R)[m] >> \in R
    BY <1>1, <1>4, OrderedLists
  <1>6. \A k \in 1 .. Len(Sorted(S)) : Sorted(S)[k] \in Index BY <1>3, <1>5 DEF Lists
  <1> QED BY <1>2, <1>3, <1>5, <1>6

\* build_tree lists the children.
LEMMA ChildrenLists ==
    ASSUME TypeOK, NEW i
    PROVE  Lists(ChildrenOf(i), Kids(i))
  <1> DEFINE R == {p \in Index \X Index : p[1] < p[2]}
  <1>1. IsFiniteSet(Kids(i))
    <2>1. IsFiniteSet(Index) BY ListTypes
    <2> QED BY <2>1, FS_Subset DEF Kids
  <1>2. \A j, k \in Index : << j, k >> \in R <=> j < k OBVIOUS
  <1>3. ChildrenOf(i) = Ordered(Kids(i), R) BY Zenon DEF ChildrenOf, Kids, Up
  <1>4. Kids(i) \subseteq Index /\ Index \subseteq Nat BY ListTypes DEF Kids
  <1> HIDE DEF R
  <1>5. /\ \A j \in Kids(i) : << j, j >> \notin R
        /\ \A j, k, m \in Kids(i) : << j, k >> \in R /\ << k, m >> \in R => << j, m >> \in R
        /\ \A j, k \in Kids(i) : j # k => << j, k >> \in R \/ << k, j >> \in R
    <2>1. \A j, k \in Kids(i) : j \in Nat /\ k \in Nat /\ (<< j, k >> \in R <=> j < k)
      BY <1>2, <1>4
    <2> QED BY <2>1
  <1> QED BY <1>1, <1>3, <1>5, OrderedLists

LEMMA TypeSplit == TypeOK <=> ScanType /\ TreeType
  BY Zenon DEF TypeOK, ScanType, TreeType, Entry

----------------------------------------------------------------------------
(* What the steps of the scan have to show about processes and parents.    *)

LEMMA KnownKept ==
    ASSUME KnownOK, used \subseteq used', births \in Nat, births' \in Nat, births <= births',
           UNCHANGED reused, \A p, d : Known(p, d)' => Known(p, d)
    PROVE  KnownOK'
  <1>1. MaxPid \in Nat BY PstreeAssumption
  <1>2. \A p, d : Known(p, d)' => p \in used' /\ d \in 1 .. MaxPid + births'
    BY <1>1 DEF KnownOK
  <1>3. ASSUME NEW p, NEW d, NEW q, NEW e, Known(p, d)', Known(q, e)'
        PROVE  (d = e => p = q) /\ (~reused' /\ p = q => d = e)
    <2>1. Known(p, d) /\ Known(q, e) BY <1>3
    <2> QED BY <2>1 DEF KnownOK
  <1> QED BY <1>2, <1>3 DEF KnownOK

LEMMA AcyclicKept ==
    ASSUME Acyclic, \A d, e : Edge(d, e)' => Edge(d, e)
    PROVE  Acyclic'
  BY Zenon DEF Acyclic

\* What an action of the program that reads no process leaves alone.
LEMMA SameProcesses ==
    ASSUME EnvOK, KnownOK, Acyclic, births \in Nat,
           UNCHANGED << table, births, used, reused, list, origin >>
    PROVE  EnvOK' /\ KnownOK' /\ Acyclic' /\ Index' = Index
  <1>1. Index' = Index BY DEF Index
  <1>2. EnvOK' BY DEF EnvOK
  <1>3. \A p, d : Known(p, d)' => Known(p, d) BY <1>1, Zenon DEF Known
  <1>4. \A d, e : Edge(d, e)' => Edge(d, e) BY <1>1, Zenon DEF Edge
  <1>5. KnownOK' BY <1>3, KnownKept
  <1>6. Acyclic' BY <1>4, AcyclicKept
  <1> QED BY <1>1, <1>2, <1>5, <1>6

\* A parent is a process that is known.
LEMMA KnownTable ==
    ASSUME ScanType, EnvOK, KnownOK
    PROVE  /\ \A p \in DOMAIN table : /\ p \in used /\ table[p].id \in 1 .. MaxPid + births
                                      /\ table[p].id \in Ids \ {0} /\ table[p].id \in Nat
                                      /\ p \in Pid /\ table[p].ppid \in Nat
           /\ \A p, q \in DOMAIN table : table[p].id = table[q].id => p = q
           /\ births \in Nat /\ MaxPid \in Nat /\ MaxBirths \in Nat
  <1>1. \A p \in DOMAIN table : Known(p, table[p].id) BY Zenon DEF Known
  <1>2. births \in Nat /\ births <= MaxBirths /\ MaxPid \in Nat /\ MaxBirths \in Nat
    BY PstreeAssumption DEF ScanType
  <1>3. \A p \in DOMAIN table : p \in used /\ table[p].id \in 1 .. MaxPid + births
    BY <1>1, Zenon DEF KnownOK
  <1>4. ASSUME NEW p \in DOMAIN table, NEW q \in DOMAIN table, table[p].id = table[q].id
        PROVE  p = q
    <2>1. Known(p, table[p].id) /\ Known(q, table[q].id) BY <1>1
    <2> QED BY <1>4, <2>1 DEF KnownOK
  <1>5. \A p \in DOMAIN table : table[p].id \in Ids \ {0} /\ table[p].id \in Nat
    BY <1>2, <1>3 DEF Ids
  <1>6. \A p \in DOMAIN table : p \in Pid /\ table[p].ppid \in Nat BY <1>2 DEF ScanType
  <1> QED BY <1>2, <1>3, <1>4, <1>5, <1>6

\* Every end of an edge is known.
LEMMA EdgeKnown ==
    ASSUME ScanType, EnvOK, ScanOK, NEW d, NEW e, Edge(d, e)
    PROVE  /\ \E p : p # 1 /\ Known(p, d)
           /\ \E q : Known(q, e)
  <1>1. CASE \E p \in DOMAIN table : table[p].ppid # 0 /\ d = table[p].id /\ e = table[table[p].ppid].id
    <2>1. PICK p \in DOMAIN table : table[p].ppid # 0 /\ d = table[p].id /\ e = table[table[p].ppid].id BY <1>1
    <2>2. table[p].ppid \in DOMAIN table BY <2>1 DEF EnvOK
    <2>3. Known(p, d) /\ Known(table[p].ppid, e) BY <2>1, <2>2, Zenon DEF Known
    <2>4. p # 1 BY <2>1 DEF EnvOK
    <2> QED BY <2>3, <2>4
  <1>2. CASE \E i \in Index : list[i].ppid # 0 /\ d = origin[i].id /\ e = origin[i].parent
    <2>1. PICK i \in Index : list[i].ppid # 0 /\ d = origin[i].id /\ e = origin[i].parent BY <1>2
    <2>2. Known(list[i].pid, d) /\ Known(list[i].ppid, e) BY <2>1, Zenon DEF Known
    <2>3. list[i].pid # 1 BY <2>1 DEF ScanOK
    <2> QED BY <2>2, <2>3
  <1> QED BY <1>1, <1>2, Zenon DEF Edge

----------------------------------------------------------------------------
(* Processes start and end.                                                *)

\* A new process has a number of its own, and nobody's parent is it.
LEMMA ForkStep ==
    ASSUME ProcOK, NEW p \in Pid, NEW q \in Pid, NEW n \in Name, Fork(p, q, n)
    PROVE  ProcOK'
  <1> DEFINE N == MaxPid + births + 1
  <1>0. ScanType /\ EnvOK /\ ScanOK /\ KnownOK /\ Acyclic /\ LivedOK BY DEF ProcOK
  <1>1. /\ births \in Nat /\ MaxPid \in Nat /\ MaxBirths \in Nat /\ births < MaxBirths
        /\ births' = births + 1 /\ N \in Ids \ {0} /\ N \in Nat
        /\ N \notin 1 .. MaxPid + births
    BY <1>0, KnownTable DEF Fork, Ids
  <1>2. /\ p \in DOMAIN table /\ q \notin DOMAIN table /\ q # p /\ q # 1
        /\ UNCHANGED << prog, lived >>
        /\ used' = used \cup {q} /\ reused' = (reused \/ q \in used)
    BY <1>0 DEF Fork, EnvOK
  <1>3. /\ DOMAIN table' = DOMAIN table \cup {q}
        /\ \A x \in DOMAIN table : table'[x] = table[x]
        /\ table'[q] = [id |-> N, ppid |-> p, name |-> n]
    <2>1. MaxPid + births' = N BY <1>1
    <2>2. table' = [x \in DOMAIN table \cup {q} |->
                      IF x = q THEN [id |-> N, ppid |-> p, name |-> n] ELSE table[x]]
      BY <2>1, Zenon DEF Fork
    <2> HIDE DEF N
    <2> QED BY <1>2, <2>2
  <1> HIDE DEF N
  <1>4. Index' = Index BY <1>2 DEF Index
  <1>5. ScanType'
    <2>1. DOMAIN table' \subseteq Pid /\ used' \subseteq Pid /\ reused' \in BOOLEAN
      BY <1>0, <1>2, <1>3 DEF ScanType
    <2>2. \A x \in DOMAIN table' : table'[x] \in [id : Ids, ppid : 0 .. MaxPid, name : Name]
      <3>1. p \in 0 .. MaxPid BY <1>1 DEF Pid
      <3>2. table'[q] \in [id : Ids, ppid : 0 .. MaxPid, name : Name] BY <1>1, <1>3, <3>1
      <3> QED BY <1>0, <1>3, <3>2 DEF ScanType
    <2>3. births' \in 0 .. MaxBirths BY <1>1
    <2> QED BY <1>0, <1>2, <2>1, <2>2, <2>3 DEF ScanType
  <1>6. EnvOK' BY <1>0, <1>2, <1>3 DEF EnvOK
  <1>7. ScanOK' BY <1>0, <1>2, <1>4 DEF ScanOK
  <1>8. \A a, d : Known(a, d)' => Known(a, d) \/ (a = q /\ d = N)
    <2> SUFFICES ASSUME NEW a, NEW d, Known(a, d)' PROVE Known(a, d) \/ (a = q /\ d = N) OBVIOUS
    <2>1. CASE a \in DOMAIN table' /\ d = table'[a].id BY <1>3, <2>1 DEF Known
    <2>2. CASE \E i \in Index : a = list[i].pid /\ d = origin[i].id BY <2>2, Zenon DEF Known
    <2>3. CASE \E i \in Index : list[i].ppid # 0 /\ a = list[i].ppid /\ d = origin[i].parent
      BY <2>3, Zenon DEF Known
    <2> QED BY <1>2, <1>4, <2>1, <2>2, <2>3, Zenon DEF Known
  <1>9. KnownOK'
    <2>1. \A a, d : Known(a, d) => a \in used /\ d \in 1 .. MaxPid + births /\ d # N
      BY <1>0, <1>1 DEF KnownOK
    <2>2. \A a, d : Known(a, d)' => a \in used' /\ d \in 1 .. MaxPid + births'
      <3>1. N \in 1 .. MaxPid + births' BY <1>1 DEF N
      <3>2. 1 .. MaxPid + births \subseteq 1 .. MaxPid + births' BY <1>1
      <3> QED BY <1>2, <1>8, <2>1, <3>1, <3>2
    <2>3. ASSUME NEW a, NEW d, NEW b, NEW e, Known(a, d)', Known(b, e)'
          PROVE  (d = e => a = b) /\ (~reused' /\ a = b => d = e)
      <3>1. CASE Known(a, d) /\ Known(b, e) BY <1>0, <1>2, <3>1 DEF KnownOK
      <3>2. CASE a = q /\ d = N /\ Known(b, e) BY <1>2, <2>1, <3>2
      <3>3. CASE Known(a, d) /\ b = q /\ e = N BY <1>2, <2>1, <3>3
      <3>4. CASE a = q /\ d = N /\ b = q /\ e = N BY <3>4
      <3> QED BY <1>8, <2>3, <3>1, <3>2, <3>3, <3>4
    <2> QED BY <2>2, <2>3 DEF KnownOK
  <1>10. \A d, e : Edge(d, e)' => Edge(d, e) \/ (d = N /\ e = table[p].id)
    <2> SUFFICES ASSUME NEW d, NEW e, Edge(d, e)'
                 PROVE  Edge(d, e) \/ (d = N /\ e = table[p].id) OBVIOUS
    <2>1. CASE \E x \in DOMAIN table' : table'[x].ppid # 0 /\ d = table'[x].id /\ e = table'[table'[x].ppid].id
      <3>1. PICK x \in DOMAIN table' : table'[x].ppid # 0 /\ d = table'[x].id /\ e = table'[table'[x].ppid].id
        BY <2>1
      <3>2. CASE x = q BY <1>2, <1>3, <3>1, <3>2
      <3>3. CASE x # q
        <4>1. x \in DOMAIN table /\ table'[x] = table[x] /\ table[x].ppid # 0 /\ table[x].ppid \in DOMAIN table
          BY <1>0, <1>3, <3>1, <3>3 DEF EnvOK
        <4>2. d = table[x].id /\ e = table[table[x].ppid].id BY <1>3, <3>1, <4>1
        <4> QED BY <4>1, <4>2, Zenon DEF Edge
      <3> QED BY <3>2, <3>3
    <2>2. CASE \E i \in Index : list[i].ppid # 0 /\ d = origin[i].id /\ e = origin[i].parent
      BY <2>2, Zenon DEF Edge
    <2> QED BY <1>2, <1>4, <2>1, <2>2, Zenon DEF Edge
  <1>11. Acyclic'
    <2>1. \A d, e : Edge(d, e) => d # N /\ e # N
      BY <1>0, <1>1, EdgeKnown DEF KnownOK
    <2>2. table[p].id # N BY <1>0, <1>1, <1>2, KnownTable
    <2>3. ASSUME NEW T \in SUBSET Ids, T # {} PROVE \E d \in T : \A e \in T : ~Edge(d, e)'
      <3>1. CASE T \subseteq {N}
        <4>1. T = {N} BY <2>3, <3>1
        <4>2. \A d, e \in T : ~Edge(d, e)' BY <1>10, <2>1, <2>2, <4>1
        <4> QED BY <2>3, <4>2
      <3>2. CASE ~ (T \subseteq {N})
        <4>1. T \ {N} \in SUBSET Ids /\ T \ {N} # {} BY <3>2
        <4>2. PICK d \in T \ {N} : \A e \in T \ {N} : ~Edge(d, e) BY <1>0, <4>1 DEF Acyclic
        <4>3. \A e \in T : ~Edge(d, e)' BY <1>10, <2>1, <4>2
        <4> QED BY <4>2, <4>3
      <3> QED BY <3>1, <3>2
    <2> QED BY <2>3 DEF Acyclic
  <1>12. LivedOK'
    <2> SUFFICES ASSUME NEW d \in lived,
                        ~ \E i \in Index : origin[i].id = d
                 PROVE  /\ pc \in {"start", "fill", "scan", "failed"}
                        /\ \E x \in DOMAIN table' :
                              /\ table'[x].id = d
                              /\ x > cursor \/ \E k \in 1 .. Len(batch) : batch[k] = x
      BY <1>2, <1>4 DEF LivedOK
    <2>1. /\ pc \in {"start", "fill", "scan", "failed"}
          /\ \E x \in DOMAIN table :
                 table[x].id = d /\ (x > cursor \/ \E k \in 1 .. Len(batch) : batch[k] = x)
      BY <1>0 DEF LivedOK
    <2> QED BY <1>3, <2>1
  <1> QED BY <1>5, <1>6, <1>7, <1>9, <1>11, <1>12 DEF ProcOK

\* The children of a process that ends go to process 1, which has no parent: no
\* loop comes into being.
LEMMA ExitStep ==
    ASSUME ProcOK, NEW p \in Pid, Exit(p)
    PROVE  ProcOK'
  <1>0. ScanType /\ EnvOK /\ ScanOK /\ KnownOK /\ Acyclic /\ LivedOK BY DEF ProcOK
  <1>1. /\ p \in DOMAIN table /\ p # 1 /\ p # 0
        /\ UNCHANGED << prog, births, used, reused >> /\ lived' = lived \ {table[p].id}
    BY DEF Exit, Pid
  <1>2. /\ DOMAIN table' = DOMAIN table \ {p}
        /\ \A x \in DOMAIN table' :
              /\ table'[x] \in [id : Ids, ppid : 0 .. MaxPid, name : Name]
              /\ table'[x].id = table[x].id
              /\ table'[x].ppid = IF table[x].ppid = p THEN 1 ELSE table[x].ppid
    <2>1. table' = [x \in DOMAIN table \ {p} |->
                      IF table[x].ppid = p THEN [table[x] EXCEPT !.ppid = 1] ELSE table[x]]
      BY DEF Exit
    <2>2. 1 \in 0 .. MaxPid BY PstreeAssumption
    <2>3. \A x \in DOMAIN table : table[x] \in [id : Ids, ppid : 0 .. MaxPid, name : Name]
      BY <1>0 DEF ScanType
    <2>4. ASSUME NEW x \in DOMAIN table \ {p}
          PROVE  /\ table'[x] \in [id : Ids, ppid : 0 .. MaxPid, name : Name]
                 /\ table'[x].id = table[x].id
                 /\ table'[x].ppid = IF table[x].ppid = p THEN 1 ELSE table[x].ppid
      <3>1. table'[x] = IF table[x].ppid = p THEN [table[x] EXCEPT !.ppid = 1] ELSE table[x]
        BY <2>1
      <3>2. table[x] \in [id : Ids, ppid : 0 .. MaxPid, name : Name] BY <2>3
      <3> QED BY <2>2, <3>1, <3>2
    <2>5. DOMAIN table' = DOMAIN table \ {p} BY <2>1
    <2> QED BY <2>4, <2>5
  <1>3. Index' = Index BY <1>1 DEF Index
  <1>4. ScanType' BY <1>0, <1>1, <1>2 DEF ScanType
  <1>5. EnvOK'
    <2>1. 1 \in DOMAIN table' /\ table'[1].ppid = 0 BY <1>0, <1>1, <1>2 DEF EnvOK
    <2>2. ASSUME NEW x \in DOMAIN table', table'[x].ppid # 0 PROVE table'[x].ppid \in DOMAIN table'
      <3>1. CASE table[x].ppid = p BY <1>2, <2>1, <2>2, <3>1
      <3>2. CASE table[x].ppid # p
        <4>1. table'[x].ppid = table[x].ppid /\ x \in DOMAIN table BY <1>2, <2>2, <3>2
        <4>2. table[x].ppid \in DOMAIN table BY <1>0, <2>2, <4>1 DEF EnvOK
        <4> QED BY <1>2, <3>2, <4>1, <4>2
      <3> QED BY <3>1, <3>2
    <2> QED BY <2>1, <2>2 DEF EnvOK
  <1>6. ScanOK' BY <1>0, <1>1, <1>3 DEF ScanOK
  <1>7. \A a, d : Known(a, d)' => Known(a, d)
    <2> SUFFICES ASSUME NEW a, NEW d, Known(a, d)' PROVE Known(a, d) OBVIOUS
    <2>1. CASE a \in DOMAIN table' /\ d = table'[a].id BY <1>2, <2>1 DEF Known
    <2>2. CASE \E i \in Index : a = list[i].pid /\ d = origin[i].id BY <2>2, Zenon DEF Known
    <2>3. CASE \E i \in Index : list[i].ppid # 0 /\ a = list[i].ppid /\ d = origin[i].parent
      BY <2>3, Zenon DEF Known
    <2> QED BY <1>1, <1>3, <2>1, <2>2, <2>3, Zenon DEF Known
  <1>8. KnownOK'
    <2>1. births \in Nat BY <1>0, KnownTable
    <2> QED BY <1>0, <1>1, <1>7, <2>1, KnownKept
  <1>9. \A d, e : Edge(d, e)' => /\ Edge(d, e) \/ e = table[1].id
                                 /\ \E x : x # 1 /\ Known(x, d)
    <2> SUFFICES ASSUME NEW d, NEW e, Edge(d, e)'
                 PROVE  (Edge(d, e) \/ e = table[1].id) /\ \E x : x # 1 /\ Known(x, d) OBVIOUS
    <2>1. CASE \E x \in DOMAIN table' : table'[x].ppid # 0 /\ d = table'[x].id /\ e = table'[table'[x].ppid].id
      <3>1. PICK x \in DOMAIN table' : table'[x].ppid # 0 /\ d = table'[x].id /\ e = table'[table'[x].ppid].id
        BY <2>1
      <3>2. x \in DOMAIN table /\ x # 1 /\ table[x].ppid # 0 /\ d = table[x].id BY <1>0, <1>1, <1>2, <3>1 DEF EnvOK
      <3>3. Known(x, d) BY <3>2, Zenon DEF Known
      <3>4. CASE table[x].ppid = p
        <4>1. e = table'[1].id BY <1>2, <3>1, <3>4
        <4> QED BY <1>2, <1>5, <3>2, <3>3, <4>1 DEF EnvOK
      <3>5. CASE table[x].ppid # p
        <4>1. table'[x].ppid = table[x].ppid /\ table'[x].ppid \in DOMAIN table'
          BY <1>2, <1>5, <3>1, <3>5 DEF EnvOK
        <4>2. e = table[table[x].ppid].id BY <1>2, <3>1, <4>1
        <4>3. Edge(d, e) BY <3>2, <4>2, Zenon DEF Edge
        <4> QED BY <3>2, <3>3, <4>3
      <3> QED BY <3>4, <3>5
    <2>2. CASE \E i \in Index : list[i].ppid # 0 /\ d = origin[i].id /\ e = origin[i].parent
      <3>1. Edge(d, e) BY <2>2, Zenon DEF Edge
      <3> QED BY <1>0, <3>1, EdgeKnown
    <2> QED BY <1>1, <1>3, <2>1, <2>2, Zenon DEF Edge
  <1>10. Acyclic'
    <2>1. ASSUME NEW T \in SUBSET Ids, T # {} PROVE \E d \in T : \A e \in T : ~Edge(d, e)'
      <3>1. CASE table[1].id \in T
        <4>1. Known(1, table[1].id) BY <1>0, Zenon DEF Known, EnvOK
        <4>2. \A d, e : d = table[1].id => ~Edge(d, e)' BY <1>0, <1>9, <4>1 DEF KnownOK
        <4> QED BY <3>1, <4>2
      <3>2. CASE table[1].id \notin T
        <4>1. PICK d \in T : \A e \in T : ~Edge(d, e) BY <1>0, <2>1 DEF Acyclic
        <4> QED BY <1>9, <3>2, <4>1
      <3> QED BY <3>1, <3>2
    <2> QED BY <2>1 DEF Acyclic
  <1>11. LivedOK'
    <2> SUFFICES ASSUME NEW d \in lived, d # table[p].id,
                        ~ \E i \in Index : origin[i].id = d
                 PROVE  /\ pc \in {"start", "fill", "scan", "failed"}
                        /\ \E x \in DOMAIN table' :
                              /\ table'[x].id = d
                              /\ x > cursor \/ \E k \in 1 .. Len(batch) : batch[k] = x
      BY <1>1, <1>3 DEF LivedOK
    <2>1. /\ pc \in {"start", "fill", "scan", "failed"}
          /\ \E x \in DOMAIN table :
                 table[x].id = d /\ (x > cursor \/ \E k \in 1 .. Len(batch) : batch[k] = x)
      BY <1>0 DEF LivedOK
    <2> QED BY <1>2, <2>1
  <1> QED BY <1>4, <1>5, <1>6, <1>8, <1>10, <1>11 DEF ProcOK

----------------------------------------------------------------------------
(* The scan.                                                               *)

LEMMA BatchTail ==
    ASSUME ScanType, batch # << >>
    PROVE  /\ Tail(batch) \in Seq(0 .. MaxPid) /\ Len(Tail(batch)) = Len(batch) - 1
           /\ Len(batch) \in Nat \ {0} /\ Len(Tail(batch)) <= BATCH
           /\ Head(batch) = batch[1] /\ batch[1] \in Nat
           /\ \A k \in 1 .. Len(Tail(batch)) : Tail(batch)[k] = batch[k + 1] /\ k + 1 \in 1 .. Len(batch)
           /\ \A k \in 1 .. Len(batch) : k = 1 \/ \E m \in 1 .. Len(Tail(batch)) :
                                                     batch[k] = Tail(batch)[m]
  <1>1. batch \in Seq(0 .. MaxPid) /\ Len(batch) <= BATCH /\ BATCH \in Nat /\ MaxPid \in Nat
    BY PstreeAssumption DEF ScanType
  <1>2. /\ Tail(batch) \in Seq(0 .. MaxPid) /\ Len(Tail(batch)) = Len(batch) - 1
        /\ Len(batch) \in Nat \ {0} /\ Head(batch) = batch[1]
        /\ \A k \in 1 .. Len(Tail(batch)) : Tail(batch)[k] = batch[k + 1]
    BY <1>1
  <1>3. batch[1] \in 0 .. MaxPid BY <1>1, <1>2
  <1>4. \A k \in 1 .. Len(batch) : k = 1 \/ (k - 1 \in 1 .. Len(Tail(batch)) /\ (k - 1) + 1 = k)
    BY <1>2
  <1> QED BY <1>1, <1>2, <1>3, <1>4

\* The entry at the head is dealt with; who may have had its pid is not missed.
LEMMA SkipStep ==
    ASSUME ProcOK, pc = "scan", Skip, UNCHANGED << table, births, used, reused >>,
           UNCHANGED << numeric, cursor, list, origin >>,
           lived' \subseteq lived,
           \A d \in lived' : \A p \in DOMAIN table : table[p].id = d => p # Head(batch)
    PROVE  ProcOK'
  <1>0. ScanType /\ EnvOK /\ ScanOK /\ KnownOK /\ Acyclic /\ LivedOK /\ births \in Nat
    BY KnownTable DEF ProcOK
  <1>1. EnvOK' /\ KnownOK' /\ Acyclic' /\ Index' = Index BY <1>0, SameProcesses
  <1>2. batch # << >> /\ batch' = Tail(batch) /\ pc' \in {"fill", "scan"}
        /\ (pc' = "scan" => batch' # << >>)
    BY <1>0 DEF ScanOK, Skip
  <1>3. /\ batch' \in Seq(0 .. MaxPid) /\ Len(batch') = Len(batch) - 1
        /\ Len(batch) \in Nat \ {0} /\ Len(batch') <= BATCH /\ Head(batch) = batch[1]
        /\ \A k \in 1 .. Len(batch') : batch'[k] = batch[k + 1] /\ k + 1 \in 1 .. Len(batch)
        /\ \A k \in 1 .. Len(batch) : k = 1 \/ \E m \in 1 .. Len(batch') : batch[k] = batch'[m]
    BY <1>0, <1>2, BatchTail
  <1>4. ScanType' BY <1>0, <1>3 DEF ScanType
  <1>5. ScanOK'
    <2>1. \A k, m \in 1 .. Len(batch') : k < m => batch'[k] < batch'[m]
      <3> SUFFICES ASSUME NEW k \in 1 .. Len(batch'), NEW m \in 1 .. Len(batch'), k < m
                   PROVE  batch'[k] < batch'[m] OBVIOUS
      <3>1. k + 1 \in 1 .. Len(batch) /\ m + 1 \in 1 .. Len(batch) /\ k + 1 < m + 1 BY <1>3
      <3> QED BY <1>0, <1>3, <3>1 DEF ScanOK
    <2>2. \A k \in 1 .. Len(batch') : batch'[k] <= cursor BY <1>0, <1>3 DEF ScanOK
    <2>3. \A i \in Index, k \in 1 .. Len(batch') : list[i].pid < batch'[k]
      BY <1>0, <1>3 DEF ScanOK
    <2> QED BY <1>0, <1>1, <1>2, <2>1, <2>2, <2>3 DEF ScanOK
  <1>6. LivedOK'
    <2> SUFFICES ASSUME NEW d \in lived', ~ \E i \in Index : origin[i].id = d
                 PROVE  \E p \in DOMAIN table :
                            /\ table[p].id = d
                            /\ p > cursor \/ \E k \in 1 .. Len(batch') : batch'[k] = p
      BY <1>1, <1>2 DEF LivedOK
    <2>1. PICK p \in DOMAIN table :
              table[p].id = d /\ (p > cursor \/ \E k \in 1 .. Len(batch) : batch[k] = p)
      BY <1>0 DEF LivedOK
    <2>2. p # batch[1] BY <1>3, <2>1
    <2>3. CASE p > cursor BY <2>1, <2>3
    <2>4. CASE \E k \in 1 .. Len(batch) : batch[k] = p
      <3>1. PICK k \in 1 .. Len(batch) : batch[k] = p BY <2>4
      <3>2. k # 1 BY <2>2, <3>1
      <3>3. \E m \in 1 .. Len(batch') : batch'[m] = p BY <1>3, <3>1, <3>2
      <3> QED BY <2>1, <3>3
    <2> QED BY <2>1, <2>3, <2>4
  <1> QED BY <1>1, <1>4, <1>5, <1>6 DEF ProcOK

LEMMA SkipNameStep == ProcOK /\ SkipName => ProcOK'
  <1> SUFFICES ASSUME ProcOK, SkipName PROVE ProcOK' OBVIOUS
  <1>1. \A p \in DOMAIN table : p # 0
    BY KnownTable DEF ProcOK, Pid
  <1>2. /\ pc = "scan" /\ Skip /\ Head(batch) = 0
        /\ UNCHANGED << table, births, used, reused, numeric, cursor, list, origin, lived >>
    BY DEF SkipName, IsPidName
  <1> QED BY <1>1, <1>2, SkipStep

LEMMA SkipProcessStep == ProcOK /\ SkipProcess => ProcOK'
  <1> SUFFICES ASSUME ProcOK, SkipProcess PROVE ProcOK' OBVIOUS
  <1>1. /\ pc = "scan" /\ Skip
        /\ lived' = IF Head(batch) \in DOMAIN table THEN lived \ {table[Head(batch)].id} ELSE lived
        /\ UNCHANGED << table, births, used, reused, numeric, cursor, list, origin >>
    BY DEF SkipProcess
  <1>2. lived' \subseteq lived BY <1>1
  <1>3. \A d \in lived' : \A p \in DOMAIN table : table[p].id = d => p # Head(batch) BY <1>1
  <1> QED BY <1>1, <1>2, <1>3, SkipStep

\* The kernel's position moves on by one process, or the buffer is handed over;
\* when there is nothing in it nobody is left.
LEMMA NextTgidStep == ProcOK /\ NextTgid => ProcOK'
  <1> SUFFICES ASSUME ProcOK, NextTgid PROVE ProcOK' OBVIOUS
  <1>0. ScanType /\ EnvOK /\ ScanOK /\ KnownOK /\ Acyclic /\ LivedOK /\ births \in Nat
    BY KnownTable DEF ProcOK
  <1>1. /\ pc = "fill" /\ UNCHANGED << numeric, list, origin, lived >>
        /\ UNCHANGED << table, births, used, reused >>
    BY DEF NextTgid
  <1>2. EnvOK' /\ KnownOK' /\ Acyclic' /\ Index' = Index BY <1>0, <1>1, SameProcesses
  <1>3. /\ batch \in Seq(0 .. MaxPid) /\ Len(batch) \in Nat /\ cursor \in Nat /\ MaxPid \in Nat
        /\ BATCH \in Nat \ {0} /\ DOMAIN table \subseteq Pid /\ Pid \subseteq Nat
        /\ Pid \subseteq 0 .. MaxPid
        /\ \A k \in 1 .. Len(batch) : batch[k] \in Nat
        /\ \A i \in Index : list[i].pid \in Nat
    <2>1. MaxPid \in Nat /\ BATCH \in Nat \ {0} BY PstreeAssumption
    <2>2. batch \in Seq(0 .. MaxPid) /\ DOMAIN table \subseteq Pid /\ cursor \in 0 .. MaxPid
          /\ list \in Seq(Entry)
      BY <1>0 DEF ScanType
    <2>3. \A i \in Index : list[i] \in Entry BY <2>2 DEF Index
    <2> QED BY <2>1, <2>2, <2>3 DEF Pid, Entry
  <1> DEFINE rest == {p \in DOMAIN table : p > cursor}
  <1>4. CASE rest # {} /\ Len(batch) < BATCH
    <2>1. PICK p \in rest : /\ \A q \in rest : p <= q
                            /\ cursor' = p /\ batch' = Append(batch, p) /\ pc' = pc
      BY <1>4 DEF NextTgid
    <2>2. p \in DOMAIN table /\ p > cursor /\ p \in 0 .. MaxPid /\ p \in Nat BY <1>3, <2>1
    <2>3. /\ batch' \in Seq(0 .. MaxPid) /\ Len(batch') = Len(batch) + 1
          /\ batch'[Len(batch) + 1] = p
          /\ \A k \in 1 .. Len(batch) : k \in 1 .. Len(batch') /\ batch'[k] = batch[k]
          /\ \A k \in 1 .. Len(batch') : k \in 1 .. Len(batch) \/ k = Len(batch) + 1
      BY <1>3, <2>1, <2>2
    <2>4. ScanType' BY <1>0, <1>1, <1>3, <1>4, <2>1, <2>2, <2>3 DEF ScanType
    <2>5. ScanOK'
      <3>1. /\ \A i \in Index : list[i].pid <= cursor
            /\ \A k \in 1 .. Len(batch) : batch[k] <= cursor
            /\ \A k, m \in 1 .. Len(batch) : k < m => batch[k] < batch[m]
            /\ \A i \in Index, k \in 1 .. Len(batch) : list[i].pid < batch[k]
        BY <1>0 DEF ScanOK
      <3>2. \A i \in Index : list[i].pid <= cursor' BY <1>3, <2>1, <2>2, <3>1
      <3>3. \A k \in 1 .. Len(batch') : batch'[k] <= cursor' BY <1>3, <2>1, <2>2, <2>3, <3>1
      <3>4. ASSUME NEW k \in 1 .. Len(batch'), NEW m \in 1 .. Len(batch'), k < m
            PROVE  batch'[k] < batch'[m]
        <4>1. k \in 1 .. Len(batch) BY <1>3, <2>3, <3>4
        <4>2. CASE m \in 1 .. Len(batch) BY <2>3, <3>1, <3>4, <4>1, <4>2
        <4>3. CASE m = Len(batch) + 1
          <5>1. batch[k] <= cursor /\ batch[k] \in Nat BY <1>3, <3>1, <4>1
          <5> QED BY <1>3, <2>2, <2>3, <4>1, <4>3, <5>1
        <4> QED BY <2>3, <4>2, <4>3
      <3>5. ASSUME NEW i \in Index, NEW k \in 1 .. Len(batch') PROVE list[i].pid < batch'[k]
        <4>1. CASE k \in 1 .. Len(batch) BY <2>3, <3>1, <4>1
        <4>2. CASE k = Len(batch) + 1
          <5>1. list[i].pid <= cursor /\ list[i].pid \in Nat BY <1>3, <3>1
          <5> QED BY <1>3, <2>2, <2>3, <4>2, <5>1
        <4> QED BY <2>3, <4>1, <4>2
      <3>6. pc' # "scan" /\ pc' # "start" BY <1>1, <2>1
      <3> QED BY <1>0, <1>1, <1>2, <3>2, <3>3, <3>4, <3>5, <3>6 DEF ScanOK
    <2>6. LivedOK'
      <3> SUFFICES ASSUME NEW d \in lived, ~ \E i \in Index : origin[i].id = d
                   PROVE  \E x \in DOMAIN table :
                              /\ table[x].id = d
                              /\ x > cursor' \/ \E k \in 1 .. Len(batch') : batch'[k] = x
        BY <1>1, <1>2, <2>1 DEF LivedOK
      <3>1. PICK x \in DOMAIN table :
                table[x].id = d /\ (x > cursor \/ \E k \in 1 .. Len(batch) : batch[k] = x)
        BY <1>0 DEF LivedOK
      <3>2. CASE x > cursor
        <4>1. x \in rest /\ p <= x BY <2>1, <3>2
        <4>0. x \in Nat BY <1>3
        <4>2. x = p \/ x > p BY <2>2, <4>0, <4>1
        <4>3. Len(batch) + 1 \in 1 .. Len(batch') BY <1>3, <2>3
        <4> QED BY <2>1, <2>3, <3>1, <4>2, <4>3
      <3>3. CASE \E k \in 1 .. Len(batch) : batch[k] = x BY <2>3, <3>1, <3>3
      <3> QED BY <3>1, <3>2, <3>3
    <2> QED BY <1>2, <2>4, <2>5, <2>6 DEF ProcOK
  <1>5. CASE ~ (rest # {} /\ Len(batch) < BATCH)
    <2>1. pc' = (IF batch = << >> THEN "build" ELSE "scan") /\ UNCHANGED << cursor, batch >>
      BY <1>5 DEF NextTgid
    <2>2. ScanType' BY <1>0, <1>1, <2>1 DEF ScanType
    <2>3. ScanOK' BY <1>0, <1>1, <1>2, <2>1 DEF ScanOK
    <2>4. LivedOK'
      <3>1. CASE batch = << >>
        <4>1. rest = {} /\ Len(batch) = 0 BY <1>3, <1>5, <3>1
        <4>2. \A d \in lived : \E i \in Index : origin[i].id = d BY <1>0, <4>1 DEF LivedOK
        <4> QED BY <1>1, <1>2, <4>2 DEF LivedOK
      <3>2. CASE batch # << >> BY <1>0, <1>1, <1>2, <2>1, <3>2 DEF LivedOK
      <3> QED BY <3>1, <3>2
    <2> QED BY <1>2, <2>2, <2>3, <2>4 DEF ProcOK
  <1> QED BY <1>4, <1>5

LEMMA OpenDirStep == ProcOK /\ OpenDir => ProcOK'
  <1> SUFFICES ASSUME ProcOK, OpenDir PROVE ProcOK' OBVIOUS
  <1>0. ScanType /\ EnvOK /\ ScanOK /\ KnownOK /\ Acyclic /\ LivedOK /\ births \in Nat
    BY KnownTable DEF ProcOK
  <1>1. /\ pc = "start" /\ UNCHANGED << numeric, list, origin, lived, cursor >>
        /\ UNCHANGED << table, births, used, reused >>
        /\ pc' \in {"scan", "failed"} /\ (batch' = << 0 >> \/ (batch' = batch /\ pc' = "failed"))
    BY DEF OpenDir, Fail
  <1>2. EnvOK' /\ KnownOK' /\ Acyclic' /\ Index' = Index BY <1>0, <1>1, SameProcesses
  <1>3. Index = {} /\ batch = << >> /\ cursor \in Nat /\ MaxPid \in Nat /\ BATCH \in Nat \ {0}
    BY <1>0, <1>1, PstreeAssumption DEF ScanOK, Index, ScanType
  <1>4. batch' = << 0 >> \/ batch' = << >> BY <1>1, <1>3
  <1>5. ScanType'
    <2>0. 0 \in 0 .. MaxPid /\ 1 <= BATCH /\ 0 <= BATCH BY <1>3
    <2>1. batch' \in Seq(0 .. MaxPid) /\ Len(batch') <= BATCH
      <3>1. CASE batch' = << 0 >> BY <2>0, <3>1
      <3>2. CASE batch' = << >> BY <2>0, <3>2
      <3> QED BY <1>4, <3>1, <3>2
    <2> QED BY <1>0, <1>1, <2>1 DEF ScanType
  <1>6. ScanOK'
    <2>1. \A k, m \in 1 .. Len(batch') : k < m => batch'[k] < batch'[m] BY <1>4
    <2>2. \A k \in 1 .. Len(batch') : batch'[k] <= cursor BY <1>3, <1>4
    <2>3. pc' = "scan" => batch' # << >> BY <1>1
    <2> QED BY <1>1, <1>2, <1>3, <2>1, <2>2, <2>3 DEF ScanOK
  <1>7. LivedOK'
    <2>1. \A d \in lived : \E p \in DOMAIN table : table[p].id = d /\ p > cursor
      BY <1>0, <1>3 DEF LivedOK
    <2> QED BY <1>1, <2>1 DEF LivedOK
  <1> QED BY <1>2, <1>5, <1>6, <1>7 DEF ProcOK

\* What is recorded is what is known of the process that has the pid now.
LEMMA AddProcessStep == ProcOK /\ AddProcess => ProcOK'
  <1> SUFFICES ASSUME ProcOK, AddProcess PROVE ProcOK' OBVIOUS
  <1>0. ScanType /\ EnvOK /\ ScanOK /\ KnownOK /\ Acyclic /\ LivedOK /\ births \in Nat
    BY KnownTable DEF ProcOK
  <1> DEFINE p == Head(batch)
             E == [pid |-> p, ppid |-> table[p].ppid, name |-> table[p].name]
             O == [id |-> table[p].id, parent |-> IF table[p].ppid = 0 THEN 0 ELSE table[table[p].ppid].id]
             n == Len(list)
  <1>1. /\ pc = "scan" /\ p # 0 /\ p \in DOMAIN table /\ table[p].name # 0
        /\ UNCHANGED << numeric, cursor, lived >> /\ UNCHANGED << table, births, used, reused >>
        /\ \/ list' = Append(list, E) /\ origin' = Append(origin, O) /\ Skip
           \/ pc' = "failed" /\ UNCHANGED << list, origin, batch >>
    BY DEF AddProcess, HasNameAndPpid, IsPidName, Fail
  <1>2. CASE pc' = "failed" /\ UNCHANGED << list, origin, batch >>
    <2>1. EnvOK' /\ KnownOK' /\ Acyclic' /\ Index' = Index BY <1>0, <1>1, <1>2, SameProcesses
    <2>2. ScanType' BY <1>0, <1>1, <1>2 DEF ScanType
    <2>3. ScanOK' BY <1>0, <1>1, <1>2, <2>1 DEF ScanOK
    <2>4. LivedOK' BY <1>0, <1>1, <1>2, <2>1 DEF LivedOK
    <2> QED BY <2>1, <2>2, <2>3, <2>4 DEF ProcOK
  <1>3. CASE list' = Append(list, E) /\ origin' = Append(origin, O) /\ Skip
    <2>1. /\ p \in Pid /\ table[p].ppid \in 0 .. MaxPid /\ table[p].name \in Name \ {0}
          /\ table[p].id \in Ids
          /\ table[p].ppid # 0 => /\ table[p].ppid \in DOMAIN table /\ table[p].ppid \in Pid
                                  /\ table[table[p].ppid].id \in Ids
          /\ p = 1 => table[p].ppid = 0
          /\ 0 \in Ids
      <3>1. \A x \in DOMAIN table : table[x] \in [id : Ids, ppid : 0 .. MaxPid, name : Name]
        BY <1>0 DEF ScanType
      <3>2. DOMAIN table \subseteq Pid BY <1>0 DEF ScanType
      <3>3. 0 \in Ids BY PstreeAssumption DEF Ids
      <3> HIDE DEF p
      <3>4. table[p].ppid # 0 => table[p].ppid \in DOMAIN table BY <1>0, <1>1 DEF EnvOK
      <3>5. p = 1 => table[p].ppid = 0 BY <1>0 DEF EnvOK
      <3> QED BY <1>1, <3>1, <3>2, <3>3, <3>4, <3>5
    <2>2. /\ E \in Entry /\ E.pid = p /\ E.ppid = table[p].ppid
          /\ O \in [id : Ids, parent : Ids] /\ O.id = table[p].id
          /\ O.parent = IF table[p].ppid = 0 THEN 0 ELSE table[table[p].ppid].id
      <3> HIDE DEF p
      <3> QED BY <2>1 DEF Entry
    <2>3. list \in Seq(Entry) /\ origin \in Seq([id : Ids, parent : Ids]) /\ Len(origin) = n
      BY <1>0 DEF ScanType
    <2>4. batch # << >> BY <1>0, <1>1 DEF ScanOK
    <2>5. /\ batch' \in Seq(0 .. MaxPid) /\ Len(batch') = Len(batch) - 1
          /\ Len(batch) \in Nat \ {0} /\ Len(batch') <= BATCH /\ p = batch[1]
          /\ \A k \in 1 .. Len(batch') : batch'[k] = batch[k + 1] /\ k + 1 \in 1 .. Len(batch)
          /\ \A k \in 1 .. Len(batch) : k = 1 \/ \E m \in 1 .. Len(batch') : batch[k] = batch'[m]
          /\ pc' \in {"fill", "scan"} /\ (pc' = "scan" => batch' # << >>)
      BY <1>0, <1>3, <2>4, BatchTail DEF Skip
    <2> HIDE DEF p, E, O
    <2>6. /\ n \in Nat /\ Index = 1 .. n /\ Index' = 1 .. n + 1 /\ Len(list') = n + 1
          /\ list' \in Seq(Entry) /\ list'[n + 1] = E /\ \A i \in 1 .. n : list'[i] = list[i]
          /\ origin' \in Seq([id : Ids, parent : Ids]) /\ Len(origin') = n + 1
          /\ origin'[n + 1] = O /\ \A i \in 1 .. n : origin'[i] = origin[i]
          /\ \A i \in Index' : i \in Index \/ i = n + 1
          /\ n + 1 \in Index' /\ Index \subseteq Index'
      <3>1. n \in Nat BY <2>3
      <3>2. Len(list') = n + 1 /\ list' \in Seq(Entry) /\ list'[n + 1] = E
            /\ \A i \in 1 .. n : list'[i] = list[i]
        BY <1>3, <2>2, <2>3
      <3>3. Len(origin') = n + 1 /\ origin' \in Seq([id : Ids, parent : Ids])
            /\ origin'[n + 1] = O /\ \A i \in 1 .. n : origin'[i] = origin[i]
        <4> DEFINE OT == [id : Ids, parent : Ids]
        <4>1. O \in OT /\ origin \in Seq(OT) BY <2>2, <2>3
        <4> HIDE DEF OT
        <4>2. Len(origin') = n + 1 /\ origin' \in Seq(OT)
              /\ origin'[n + 1] = O /\ \A i \in 1 .. n : origin'[i] = origin[i]
          BY <1>3, <2>3, <4>1
        <4> QED BY <4>2 DEF OT
      <3>4. Index = 1 .. n /\ Index' = 1 .. n + 1 BY <3>2 DEF Index
      <3> HIDE DEF n
      <3> QED BY <3>1, <3>2, <3>3, <3>4
    <2>7. ScanType' BY <1>0, <1>1, <2>5, <2>6 DEF ScanType
    <2>8. EnvOK' BY <1>0, <1>1 DEF EnvOK
    <2>9. ScanOK'
      <3>1. /\ \A i, j \in Index : i < j => list[i].pid < list[j].pid
            /\ \A i \in Index : list[i].pid <= cursor
            /\ \A k, m \in 1 .. Len(batch) : k < m => batch[k] < batch[m]
            /\ \A k \in 1 .. Len(batch) : batch[k] <= cursor
            /\ \A i \in Index, k \in 1 .. Len(batch) : list[i].pid < batch[k]
            /\ \A i \in Index : /\ list[i].pid = 1 => list[i].ppid = 0
                                /\ IF list[i].ppid = 0 THEN origin[i].parent = 0
                                                       ELSE list[i].ppid \in Pid
        BY <1>0 DEF ScanOK
      <3>2. 1 \in 1 .. Len(batch) BY <2>5
      <3> HIDE DEF n
      <3>3. \A i \in Index : list'[i] = list[i] /\ origin'[i] = origin[i] BY <2>6
      <3>4. \A i \in Index : list[i].pid < p BY <2>5, <3>1, <3>2
      <3>5. ASSUME NEW i \in Index', NEW j \in Index', i < j PROVE list'[i].pid < list'[j].pid
        <4>1. i \in Index BY <2>6, <3>5
        <4>2. CASE j \in Index BY <3>1, <3>3, <3>5, <4>1, <4>2
        <4>3. CASE j = n + 1 BY <2>2, <2>6, <3>3, <3>4, <4>1, <4>3
        <4> QED BY <2>6, <4>2, <4>3
      <3>6. ASSUME NEW i \in Index' PROVE list'[i].pid <= cursor
        <4>1. CASE i \in Index BY <3>1, <3>3, <4>1
        <4>2. CASE i = n + 1 BY <2>2, <2>5, <2>6, <3>1, <3>2, <4>2
        <4> QED BY <2>6, <4>1, <4>2
      <3>7. ASSUME NEW k \in 1 .. Len(batch'), NEW m \in 1 .. Len(batch'), k < m
            PROVE  batch'[k] < batch'[m]
        <4>1. k + 1 \in 1 .. Len(batch) /\ m + 1 \in 1 .. Len(batch) /\ k + 1 < m + 1 BY <2>5, <3>7
        <4> QED BY <2>5, <3>1, <4>1
      <3>8. \A k \in 1 .. Len(batch') : batch'[k] <= cursor BY <2>5, <3>1
      <3>9. ASSUME NEW i \in Index', NEW k \in 1 .. Len(batch') PROVE list'[i].pid < batch'[k]
        <4>1. k + 1 \in 1 .. Len(batch) /\ batch'[k] = batch[k + 1] /\ 1 < k + 1 BY <2>5
        <4>2. CASE i \in Index BY <3>1, <3>3, <4>1, <4>2
        <4>3. CASE i = n + 1
          <5>1. batch[1] < batch[k + 1] BY <3>1, <3>2, <4>1
          <5> QED BY <2>2, <2>5, <2>6, <4>1, <4>3, <5>1
        <4> QED BY <2>6, <4>2, <4>3
      <3>10. ASSUME NEW i \in Index'
             PROVE  /\ list'[i].pid = 1 => list'[i].ppid = 0
                    /\ IF list'[i].ppid = 0 THEN origin'[i].parent = 0
                                            ELSE list'[i].ppid \in Pid
        <4>1. CASE i \in Index BY <3>1, <3>3, <4>1
        <4>2. CASE i = n + 1 BY <2>1, <2>2, <2>6, <4>2
        <4> QED BY <2>6, <4>1, <4>2
      <3>11. pc' # "start" /\ (pc' = "scan" => batch' # << >>) BY <2>5
      <3> QED BY <1>1, <3>5, <3>6, <3>7, <3>8, <3>9, <3>10, <3>11 DEF ScanOK
    <2> HIDE DEF n
    <2>i. \A i \in Index : list'[i] = list[i] /\ origin'[i] = origin[i] BY <2>6
    <2>10. KnownOK'
      <3>1. ASSUME NEW a, NEW d, Known(a, d)' PROVE Known(a, d)
        <4>1. CASE a \in DOMAIN table /\ d = table[a].id BY <4>1, Zenon DEF Known
        <4>2. CASE \E i \in Index' : a = list'[i].pid /\ d = origin'[i].id
          <5>1. PICK i \in Index' : a = list'[i].pid /\ d = origin'[i].id BY <4>2
          <5>2. CASE i \in Index BY <2>i, <5>1, <5>2, Zenon DEF Known
          <5>3. CASE i = n + 1
            <6>1. a = p /\ d = table[p].id BY <2>2, <2>6, <5>1, <5>3
            <6> QED BY <1>1, <6>1, Zenon DEF Known
          <5> QED BY <2>6, <5>2, <5>3
        <4>3. CASE \E i \in Index' : list'[i].ppid # 0 /\ a = list'[i].ppid /\ d = origin'[i].parent
          <5>1. PICK i \in Index' : list'[i].ppid # 0 /\ a = list'[i].ppid /\ d = origin'[i].parent
            BY <4>3
          <5>2. CASE i \in Index BY <2>i, <5>1, <5>2, Zenon DEF Known
          <5>3. CASE i = n + 1
            <6>1. table[p].ppid # 0 /\ a = table[p].ppid /\ d = table[table[p].ppid].id
              BY <2>2, <2>6, <5>1, <5>3
            <6>2. a \in DOMAIN table /\ d = table[a].id BY <2>1, <6>1
            <6> QED BY <6>2, Zenon DEF Known
          <5> QED BY <2>6, <5>2, <5>3
        <4> QED BY <1>1, <3>1, <4>1, <4>2, <4>3, Zenon DEF Known
      <3> QED BY <1>0, <1>1, <3>1, KnownKept
    <2>11. Acyclic'
      <3>1. ASSUME NEW d, NEW e, Edge(d, e)' PROVE Edge(d, e)
        <4>1. CASE \E x \in DOMAIN table : table[x].ppid # 0 /\ d = table[x].id /\ e = table[table[x].ppid].id
          BY <4>1, Zenon DEF Edge
        <4>2. CASE \E i \in Index' : list'[i].ppid # 0 /\ d = origin'[i].id /\ e = origin'[i].parent
          <5>1. PICK i \in Index' : list'[i].ppid # 0 /\ d = origin'[i].id /\ e = origin'[i].parent
            BY <4>2
          <5>2. CASE i \in Index BY <2>i, <5>1, <5>2, Zenon DEF Edge
          <5>3. CASE i = n + 1
            <6>1. table[p].ppid # 0 /\ d = table[p].id /\ e = table[table[p].ppid].id
              BY <2>2, <2>6, <5>1, <5>3
            <6>2. p \in DOMAIN table /\ table[p].ppid # 0 BY <1>1, <6>1
            <6> QED BY <6>1, <6>2, Zenon DEF Edge
          <5> QED BY <2>6, <5>2, <5>3
        <4> QED BY <1>1, <3>1, <4>1, <4>2, Zenon DEF Edge
      <3> QED BY <1>0, <3>1, AcyclicKept
    <2>12. LivedOK'
      <3> SUFFICES ASSUME NEW d \in lived, ~ \E i \in Index' : origin'[i].id = d
                   PROVE  \E x \in DOMAIN table :
                              /\ table[x].id = d
                              /\ x > cursor \/ \E k \in 1 .. Len(batch') : batch'[k] = x
        BY <1>1, <2>5 DEF LivedOK
      <3>1. ~ \E i \in Index : origin[i].id = d BY <2>6, <2>i
      <3>2. PICK x \in DOMAIN table :
                table[x].id = d /\ (x > cursor \/ \E k \in 1 .. Len(batch) : batch[k] = x)
        BY <1>0, <3>1 DEF LivedOK
      <3>3. x # p BY <2>2, <2>6, <3>2
      <3>4. CASE x > cursor BY <3>2, <3>4
      <3>5. CASE \E k \in 1 .. Len(batch) : batch[k] = x
        <4>1. PICK k \in 1 .. Len(batch) : batch[k] = x BY <3>5
        <4>2. k # 1 BY <2>5, <3>3, <4>1
        <4>3. \E m \in 1 .. Len(batch') : batch'[m] = x BY <2>5, <4>1, <4>2
        <4> QED BY <3>2, <4>3
      <3> QED BY <3>2, <3>4, <3>5
    <2> QED BY <2>7, <2>8, <2>9, <2>10, <2>11, <2>12 DEF ProcOK
  <1> QED BY <1>1, <1>2, <1>3

\* The processes of the start, whose parents form a forest.
LEMMA ProcInit == Init => ProcOK
  <1> SUFFICES ASSUME Init PROVE ProcOK OBVIOUS
  <1>1. PICK S \in {S \in SUBSET Pid : 1 \in S} :
           table \in {[p \in S |-> [id |-> p, ppid |-> f[p], name |-> InitName[p]]] : f \in Parents(S)}
    BY DEF Init, Tables
  <1>2. PICK f \in Parents(S) :
           table = [p \in S |-> [id |-> p, ppid |-> f[p], name |-> InitName[p]]]
    BY <1>1
  <1>3. /\ S \subseteq Pid /\ 1 \in S /\ f \in [S -> S \cup {0}] /\ f[1] = 0
        /\ \A p \in S : f[p] # 0 => f[p] \in S
        /\ \A T \in SUBSET (S \ {1}) : T # {} => \E p \in T : f[p] \notin T
    BY <1>1, <1>2 DEF Parents
  <1>4. /\ MaxPid \in Nat \ {0} /\ MaxBirths \in Nat /\ BATCH \in Nat \ {0}
        /\ \A p \in Pid : InitName[p] \in Name
    BY PstreeAssumption DEF Pid
  <1>5. /\ DOMAIN table = S
        /\ \A p \in S : /\ table[p] = [id |-> p, ppid |-> f[p], name |-> InitName[p]]
                        /\ table[p].id = p /\ table[p].ppid = f[p]
    BY <1>2
  <1>6. /\ lived = {table[p].id : p \in DOMAIN table} /\ used = DOMAIN table /\ births = 0
        /\ reused = FALSE /\ pc = "start" /\ cursor = 0 /\ batch = << >> /\ list = << >>
        /\ origin = << >> /\ numeric \in BOOLEAN
    BY DEF Init
  <1>7. Index = {} BY <1>6 DEF Index
  <1>8. Pid \subseteq Ids /\ Pid \subseteq 0 .. MaxPid /\ 0 \in 0 .. MaxPid /\ Pid = 1 .. MaxPid
        /\ Pid \subseteq Nat
    BY <1>4 DEF Pid, Ids
  <1>s. S \subseteq Pid /\ \A p \in S : p \in Ids /\ p \in 1 .. MaxPid /\ p > 0
    <2>1. S \subseteq Pid BY <1>3
    <2>2. \A p \in Pid : p \in Ids /\ p \in 1 .. MaxPid /\ p > 0 BY <1>8
    <2> QED BY <2>1, <2>2
  <1>9. ScanType
    <2>1. ASSUME NEW p \in S
          PROVE  table[p] \in [id : Ids, ppid : 0 .. MaxPid, name : Name]
      <3>1. p \in Ids /\ InitName[p] \in Name BY <1>3, <1>4, <1>8
      <3>2. f[p] \in 0 .. MaxPid BY <1>3, <1>8
      <3>3. table[p] = [id |-> p, ppid |-> f[p], name |-> InitName[p]] BY <1>5
      <3> QED BY <3>1, <3>2, <3>3
    <2>2. lived \subseteq Ids
      <3>1. \A p \in S : table[p].id \in Ids BY <1>s, <1>5
      <3> QED BY <1>5, <1>6, <3>1
    <2>3. /\ DOMAIN table \subseteq Pid /\ used \subseteq Pid /\ reused \in BOOLEAN
          /\ births \in 0 .. MaxBirths /\ cursor \in 0 .. MaxPid
      <3>1. births \in 0 .. MaxBirths /\ cursor \in 0 .. MaxPid BY <1>4, <1>6
      <3>2. reused \in BOOLEAN BY <1>6
      <3> QED BY <1>5, <1>6, <1>s, <3>1, <3>2
    <2>4. batch \in Seq(0 .. MaxPid) /\ Len(batch) <= BATCH BY <1>4, <1>6
    <2>5. list \in Seq(Entry) /\ origin \in Seq([id : Ids, parent : Ids]) /\ Len(origin) = Len(list)
      BY <1>6
    <2> QED BY <1>5, <1>6, <2>1, <2>2, <2>3, <2>4, <2>5 DEF ScanType
  <1>10. EnvOK BY <1>3, <1>5 DEF EnvOK
  <1>11. ScanOK BY <1>6, <1>7 DEF ScanOK
  <1>12. \A a, d : Known(a, d) => a \in S /\ d = a BY <1>5, <1>7 DEF Known
  <1>13. KnownOK
    <2>1. \A a, d : Known(a, d) => a \in used /\ d \in 1 .. MaxPid + births
      <3>1. MaxPid + births = MaxPid BY <1>4, <1>6
      <3> QED BY <1>5, <1>6, <1>s, <1>12, <3>1
    <2> QED BY <1>12, <2>1 DEF KnownOK
  <1>14. \A d, e : Edge(d, e) => d \in S \ {1} /\ e = f[d] BY <1>3, <1>5, <1>7 DEF Edge
  <1>15. Acyclic
    <2> SUFFICES ASSUME NEW T \in SUBSET Ids, T # {}
                 PROVE  \E d \in T : \A e \in T : ~Edge(d, e)
      BY DEF Acyclic
    <2>1. CASE T \subseteq S \ {1}
      <3>1. PICK d \in T : f[d] \notin T BY <1>3, <2>1
      <3> QED BY <1>14, <3>1
    <2>2. CASE ~ (T \subseteq S \ {1}) BY <1>14, <2>2
    <2> QED BY <2>1, <2>2
  <1>16. LivedOK
    <2>1. ASSUME NEW d \in lived PROVE \E p \in DOMAIN table : table[p].id = d /\ p > cursor
      <3>1. PICK p \in DOMAIN table : d = table[p].id BY <1>6
      <3> QED BY <1>5, <1>6, <1>s, <3>1
    <2> QED BY <1>6, <2>1 DEF LivedOK
  <1> QED BY <1>9, <1>10, <1>11, <1>13, <1>15, <1>16 DEF ProcOK

\* After the scan the processes do not matter any more.
LEMMA ScanOver ==
    ASSUME ProcOK, pc \in {"build", "sort", "roots", "print"},
           pc' \notin {"start", "scan"},
           UNCHANGED << table, births, lived, used, reused >>,
           UNCHANGED << numeric, cursor, batch, list, origin >>
    PROVE  ProcOK' /\ Index' = Index
  <1>0. ScanType /\ EnvOK /\ ScanOK /\ KnownOK /\ Acyclic /\ LivedOK /\ births \in Nat
    BY KnownTable DEF ProcOK
  <1>1. EnvOK' /\ KnownOK' /\ Acyclic' /\ Index' = Index BY <1>0, SameProcesses
  <1>2. ScanType' BY <1>0 DEF ScanType
  <1>3. ScanOK' BY <1>0, <1>1 DEF ScanOK
  <1>4. LivedOK' BY <1>0, <1>1 DEF LivedOK
  <1> QED BY <1>1, <1>2, <1>3, <1>4 DEF ProcOK

----------------------------------------------------------------------------
(* The lines.                                                              *)

LineType == [index : Index, depth : Nat]

\* The places of a sequence into which k elements are put after the first n + 1:
\* those of the new elements, and those of the old ones behind them.
LEMMA MiddlePlace ==
    ASSUME NEW n \in Nat, NEW k \in Nat, NEW x \in Int, x > n + 1, x <= n + 1 + k
    PROVE  \E y \in 1 .. k : x = n + 1 + y
  <1>1. x - (n + 1) \in 1 .. k /\ x = n + 1 + (x - (n + 1)) OBVIOUS
  <1> QED BY <1>1

LEMMA LatePlace ==
    ASSUME NEW n \in Nat, NEW k \in Nat, NEW N \in Nat, NEW x \in Int,
           x > n + 1 + k, x <= N + k
    PROVE  \E z \in n + 2 .. N : z \in 1 .. N /\ z > n + 1 /\ x = z + k
  <1>1. x - k \in n + 2 .. N /\ x - k \in 1 .. N /\ x - k > n + 1 /\ x = (x - k) + k OBVIOUS
  <1> QED BY <1>1

\* An old element behind the new ones is at a later place than each of them.
LEMMA PlacesApart ==
    ASSUME NEW n \in Nat, NEW k \in Nat, NEW y \in 1 .. k, NEW z \in Nat, z > n + 1
    PROVE  ~ (z + k < n + 1 + y)
  OBVIOUS

\* A line is printed and the calls for its children, the lines c, are put in
\* front of those to come.
LEMMA Insert ==
    ASSUME TypeOK, ScanOK, NEW W \in Seq(LineType), NEW n \in Nat, n < Len(W), Good(W, n),
           NEW c, Lists(c, Kids(W[n + 1].index)),
           W[n + 1].index \notin unsorted =>
              \A y, z \in 1 .. Len(c) : y < z => Before(c[y], c[z]),
           NEW V \in Seq(LineType), Len(V) = Len(W) + Len(c),
           \A x \in 1 .. n + 1 : V[x] = W[x],
           \A y \in 1 .. Len(c) : V[n + 1 + y] = [index |-> c[y], depth |-> W[n + 1].depth + 1],
           \A x \in n + 2 .. Len(W) : V[x + Len(c)] = W[x]
    PROVE  Good(V, n + 1)
  <1> DEFINE N == Len(W)
             k == Len(c)
             h == W[n + 1].index
             d == W[n + 1].depth
             Old(x, z) == /\ z \in 1 .. N /\ V[x] = W[z]
                          /\ \/ x = z /\ z <= n + 1
                             \/ x = z + k /\ z > n + 1
             New(x, y) == /\ y \in 1 .. k /\ x = n + 1 + y
                          /\ V[x].index = c[y] /\ V[x].depth = d + 1
  <1>1. /\ N \in Nat /\ k \in Nat /\ n + 1 \in 1 .. N /\ Len(V) = N + k
        /\ c \in Seq(Kids(h)) /\ h \in Index /\ d \in Nat
        /\ \A x \in 1 .. N : W[x].index \in Index /\ W[x].depth \in Nat
    <2>1. /\ N \in Nat /\ n + 1 \in 1 .. N /\ \A x \in 1 .. N : W[x] \in LineType OBVIOUS
    <2>2. c \in Seq(Kids(h)) BY DEF Lists
    <2>3. k \in Nat BY <2>2
    <2> QED BY <2>1, <2>2, <2>3 DEF LineType
  <1>2. Once(W) /\ Placed(W, n) /\ Nested(W, n) /\ Reached(W, n) /\ InOrder(W) BY DEF Good
  <1>3. \A y \in 1 .. k : c[y] \in Index /\ Up(c[y]) = h
    <2>1. \A y \in 1 .. k : c[y] \in Kids(h) BY <1>1
    <2> QED BY <2>1 DEF Kids
  <1>4. h # 0 BY <1>1, ListTypes DEF Index
  <1>5. \A z \in 1 .. N : Up(W[z].index) # h
    <2> SUFFICES ASSUME NEW z \in 1 .. N, Up(W[z].index) = h PROVE FALSE OBVIOUS
    <2>1. W[z].depth # 0 BY <1>2, <1>4 DEF Placed
    <2>2. PICK m \in 1 .. n : Under(W, n, z, m) BY <1>2, <2>1 DEF Placed
    <2>3. W[m].index = W[n + 1].index /\ m \in 1 .. N /\ m # n + 1 BY <1>1, <2>2 DEF Under
    <2> QED BY <1>1, <1>2, <2>3 DEF Once
  <1>c. \A y \in 1 .. k : V[n + 1 + y].index = c[y] /\ V[n + 1 + y].depth = d + 1
    <2> SUFFICES ASSUME NEW y \in 1 .. k
                 PROVE  V[n + 1 + y].index = c[y] /\ V[n + 1 + y].depth = d + 1
      OBVIOUS
    <2>1. V[n + 1 + y] = [index |-> c[y], depth |-> d + 1] OBVIOUS
    <2> HIDE DEF d
    <2> QED BY <2>1
  <1>6. \A x \in 1 .. Len(V) : (\E z : Old(x, z)) \/ (\E y : New(x, y))
    <2> SUFFICES ASSUME NEW x \in 1 .. Len(V) PROVE (\E z : Old(x, z)) \/ (\E y : New(x, y)) OBVIOUS
    <2>1. CASE x <= n + 1
      <3>1. Old(x, x) BY <1>1, <2>1
      <3> QED BY <3>1
    <2>2. CASE x > n + 1 /\ x <= n + 1 + k
      <3> HIDE DEF N, k, h, d, Old
      <3>0. x \in Int /\ n \in Nat /\ k \in Nat BY <1>1
      <3>1. PICK y \in 1 .. k : x = n + 1 + y BY <2>2, <3>0, MiddlePlace
      <3>2. V[x].index = c[y] /\ V[x].depth = d + 1 BY <1>c, <3>1
      <3>3. New(x, y) BY <3>1, <3>2
      <3> QED BY <3>3
    <2>3. CASE x > n + 1 + k
      <3>0. x \in Int /\ n \in Nat /\ k \in Nat /\ N \in Nat /\ x <= N + k
        <4> HIDE DEF N, k, h, d, Old, New
        <4> QED BY <1>1
      <3>1. PICK z \in n + 2 .. N : z \in 1 .. N /\ z > n + 1 /\ x = z + k
        <4> HIDE DEF N, k, h, d, Old, New
        <4> QED BY <2>3, <3>0, LatePlace
      <3>2. V[x] = W[z] BY <3>1
      <3>3. Old(x, z) BY <3>1, <3>2
      <3> QED BY <3>3
    <2> QED BY <1>1, <2>1, <2>2, <2>3
  <1>7. \A z \in 1 .. N : \E x \in 1 .. Len(V) : V[x] = W[z]
    <2> SUFFICES ASSUME NEW z \in 1 .. N PROVE \E x \in 1 .. Len(V) : V[x] = W[z] OBVIOUS
    <2>1. CASE z <= n + 1
      <3>1. z \in 1 .. n + 1 /\ z \in 1 .. Len(V) BY <1>1, <2>1
      <3> QED BY <3>1
    <2>2. CASE z > n + 1
      <3>1. z \in n + 2 .. N /\ z + k \in 1 .. Len(V) BY <1>1, <2>2
      <3> QED BY <3>1
    <2> QED BY <1>1, <2>1, <2>2
  <1>8. \A y \in 1 .. k : n + 1 + y \in 1 .. Len(V) /\ V[n + 1 + y].index = c[y]
    <2> HIDE DEF N, k
    <2> QED BY <1>1, <1>c
  <1> HIDE DEF N, k, h, d
  <1>9. \A x, z : Old(x, z) => z \in 1 .. N /\ V[x].index = W[z].index /\ V[x].depth = W[z].depth
    OBVIOUS
  <1>s. ASSUME NEW x, NEW y, NEW z, NEW w, Old(x, z), Old(y, w), x < y
        PROVE  z \in 1 .. N /\ w \in 1 .. N /\ z < w
    <2>1. z \in Nat /\ w \in Nat /\ z \in 1 .. N /\ w \in 1 .. N BY <1>1, <1>s
    <2>2. (x = z /\ z <= n + 1) \/ (x = z + k /\ z > n + 1) BY <1>s
    <2>3. (y = w /\ w <= n + 1) \/ (y = w + k /\ w > n + 1) BY <1>s
    <2> HIDE DEF Old
    <2> QED BY <1>1, <1>s, <2>1, <2>2, <2>3
  <1>10. Once(V)
    <2> SUFFICES ASSUME NEW x \in 1 .. Len(V), NEW y \in 1 .. Len(V), V[x].index = V[y].index
                 PROVE  x = y
      BY DEF Once
    <2>1. ASSUME NEW z, NEW w, Old(x, z), Old(y, w) PROVE x = y
      <3>1. z = w BY <1>2, <1>9, <2>1 DEF Once, N
      <3> QED BY <1>1, <2>1, <3>1
    <2>2. ASSUME NEW z, NEW w, New(x, z), New(y, w) PROVE x = y
      <3>1. z = w BY <2>2 DEF Lists, k
      <3> QED BY <2>2, <3>1
    <2>3. ASSUME NEW z, NEW w, Old(x, z), New(y, w) PROVE FALSE BY <1>3, <1>5, <1>9, <2>3
    <2>4. ASSUME NEW z, NEW w, New(x, z), Old(y, w) PROVE FALSE BY <1>3, <1>5, <1>9, <2>4
    <2> HIDE DEF Old, New
    <2> QED BY <1>6, <2>1, <2>2, <2>3, <2>4
  <1>11. Placed(V, n + 1)
    <2> SUFFICES ASSUME NEW x \in 1 .. Len(V)
                 PROVE  /\ V[x].depth <= n + 1
                        /\ V[x].depth = 0 <=> Up(V[x].index) = 0
                        /\ V[x].depth # 0 => \E m \in 1 .. n + 1 : m < x /\ Under(V, n + 1, x, m)
      BY DEF Placed
    <2>1. ASSUME NEW z, Old(x, z)
          PROVE  /\ V[x].depth <= n + 1
                 /\ V[x].depth = 0 <=> Up(V[x].index) = 0
                 /\ V[x].depth # 0 => \E m \in 1 .. n + 1 : m < x /\ Under(V, n + 1, x, m)
      <3>1. /\ z \in 1 .. N /\ V[x].index = W[z].index /\ V[x].depth = W[z].depth
            /\ W[z].depth \in Nat
        BY <1>1, <2>1
      <3>2. /\ W[z].depth <= n /\ (W[z].depth = 0 <=> Up(W[z].index) = 0)
            /\ W[z].depth # 0 => \E m \in 1 .. n : m < z /\ Under(W, n, z, m)
        BY <1>2, <3>1 DEF Placed, N
      <3>3. ASSUME V[x].depth # 0 PROVE \E m \in 1 .. n + 1 : m < x /\ Under(V, n + 1, x, m)
        <4>1. PICK m \in 1 .. n : m < z /\ Under(W, n, z, m) BY <3>1, <3>2, <3>3
        <4>2. m \in 1 .. n + 1 /\ m < x /\ V[m] = W[m] BY <1>1, <2>1, <4>1
        <4>3. V[m].index = Up(V[x].index) /\ V[m].depth = V[x].depth - 1
          BY <3>1, <4>1, <4>2 DEF Under
        <4>4. ASSUME NEW w \in m + 1 .. x - 1, w <= n + 1 PROVE V[w].depth >= V[x].depth
          <5>1. w \in 1 .. n + 1 /\ V[w] = W[w] BY <4>1, <4>4
          <5>2. CASE w <= n /\ w < z
            <6>1. w \in m + 1 .. z - 1 BY <1>1, <3>1, <4>1, <4>4, <5>2
            <6> QED BY <3>1, <4>1, <5>1, <5>2, <6>1 DEF Under
          <5>3. CASE w = n + 1 /\ z > n + 1
            <6>1. n + 1 \in n + 1 .. N /\ z \in n + 1 .. N BY <1>1, <3>1, <5>3
            <6>2. W[n + 1].depth >= W[z].depth BY <1>2, <5>3, <6>1 DEF Nested, N
            <6> QED BY <3>1, <5>1, <5>3, <6>2
          <5>4. (w <= n /\ w < z) \/ (w = n + 1 /\ z > n + 1)
            BY <1>1, <2>1, <4>1, <4>4
          <5> QED BY <5>2, <5>3, <5>4
        <4>5. Under(V, n + 1, x, m) BY <4>3, <4>4 DEF Under
        <4> QED BY <4>2, <4>5
      <3> QED BY <3>1, <3>2, <3>3
    <2>2. ASSUME NEW y, New(x, y)
          PROVE  /\ V[x].depth <= n + 1
                 /\ V[x].depth = 0 <=> Up(V[x].index) = 0
                 /\ V[x].depth # 0 => \E m \in 1 .. n + 1 : m < x /\ Under(V, n + 1, x, m)
      <3>1. y \in 1 .. k /\ x = n + 1 + y /\ V[x].index = c[y] /\ V[x].depth = d + 1 BY <2>2
      <3>2. Up(V[x].index) = h BY <1>3, <3>1
      <3>3. d <= n BY <1>1, <1>2 DEF Placed, N, d
      <3>4. V[n + 1].index = h /\ V[n + 1].depth = d BY DEF h, d
      <3>5. Under(V, n + 1, x, n + 1) BY <1>1, <3>1, <3>2, <3>4 DEF Under
      <3>6. n + 1 \in 1 .. n + 1 /\ n + 1 < x BY <1>1, <3>1
      <3> QED BY <1>1, <1>4, <3>1, <3>2, <3>3, <3>5, <3>6
    <2> HIDE DEF Old, New
    <2> QED BY <1>6, <2>1, <2>2
  <1>12. Nested(V, n + 1)
    <2> SUFFICES ASSUME NEW x \in n + 2 .. Len(V), NEW y \in n + 2 .. Len(V), x < y
                 PROVE  V[x].depth >= V[y].depth
      BY DEF Nested
    <2>0. x \in 1 .. Len(V) /\ y \in 1 .. Len(V) /\ x > n + 1 /\ y > n + 1 OBVIOUS
    <2>1. \A z \in n + 2 .. N : d >= W[z].depth
      <3>1. \A z \in n + 2 .. N : z \in n + 1 .. N /\ n + 1 \in n + 1 .. N /\ n + 1 < z BY <1>1
      <3> QED BY <1>2, <3>1 DEF Nested, N, d
    <2>2. ASSUME NEW z, NEW w, Old(x, z), Old(y, w) PROVE V[x].depth >= V[y].depth
      <3>0. z \in 1 .. N /\ w \in 1 .. N /\ z < w BY <1>s, <2>2
      <3>1. z \in n + 1 .. N /\ w \in n + 1 .. N /\ z < w BY <1>1, <2>0, <2>2, <3>0
      <3> QED BY <1>2, <1>9, <2>2, <3>1 DEF Nested, N
    <2>3. ASSUME NEW z, NEW w, New(x, z), New(y, w) PROVE V[x].depth >= V[y].depth
      BY <1>1, <2>3
    <2>4. ASSUME NEW z, NEW w, New(x, z), Old(y, w) PROVE V[x].depth >= V[y].depth
      <3>1. w \in n + 2 .. N /\ V[y].depth = W[w].depth /\ V[x].depth = d + 1 BY <1>1, <2>0, <2>4
      <3>2. W[w].depth \in Nat /\ d \in Nat BY <1>1, <1>9, <2>4
      <3> QED BY <2>1, <3>1, <3>2
    <2>5. ASSUME NEW z, NEW w, Old(x, z), New(y, w) PROVE FALSE
      <3>1. w \in 1 .. k /\ y = n + 1 + w BY <2>5
      <3>2. z \in 1 .. N /\ ((x = z /\ z <= n + 1) \/ (x = z + k /\ z > n + 1)) BY <2>5
      <3> HIDE DEF Old, New
      <3>3. x = z + k /\ z > n + 1 BY <2>0, <3>2
      <3>4. n \in Nat /\ k \in Nat /\ z \in Nat BY <1>1, <3>2
      <3>5. ~ (z + k < n + 1 + w) BY <3>1, <3>3, <3>4, PlacesApart
      <3>6. z + k < n + 1 + w BY <3>1, <3>3
      <3> QED BY <3>5, <3>6
    <2> HIDE DEF Old, New
    <2> QED BY <1>6, <2>0, <2>2, <2>3, <2>4, <2>5
  <1>13. Reached(V, n + 1)
    <2> SUFFICES ASSUME NEW i \in Index, Up(i) = 0 \/ \E m \in 1 .. n + 1 : V[m].index = Up(i)
                 PROVE  \E x \in 1 .. Len(V) : V[x].index = i
      BY DEF Reached
    <2>1. CASE Up(i) = h
      <3>1. PICK y \in 1 .. k : c[y] = i BY <2>1 DEF Lists, Kids, h, k
      <3> QED BY <1>8, <3>1
    <2>2. CASE Up(i) # h
      <3>1. Up(i) = 0 \/ \E m \in 1 .. n : W[m].index = Up(i)
        <4> SUFFICES ASSUME NEW m \in 1 .. n + 1, V[m].index = Up(i)
                     PROVE  \E w \in 1 .. n : W[w].index = Up(i)
          OBVIOUS
        <4>1. W[m].index = Up(i) OBVIOUS
        <4>2. m # n + 1 BY <2>2, <4>1 DEF h
        <4>3. m \in 1 .. n BY <4>2
        <4> QED BY <4>1, <4>3
      <3>2. PICK z \in 1 .. N : W[z].index = i BY <1>2, <3>1 DEF Reached, N
      <3> QED BY <1>7, <3>2
    <2> QED BY <2>1, <2>2
  <1>14. InOrder(V)
    <2> SUFFICES ASSUME NEW x \in 1 .. Len(V), NEW y \in 1 .. Len(V), x < y,
                        Up(V[x].index) = Up(V[y].index), Up(V[x].index) \notin unsorted
                 PROVE  Before(V[x].index, V[y].index)
      BY DEF InOrder
    <2>1. ASSUME NEW z, NEW w, Old(x, z), Old(y, w) PROVE Before(V[x].index, V[y].index)
      <3>1. z < w BY <1>s, <2>1
      <3> QED BY <1>2, <1>9, <2>1, <3>1 DEF InOrder, N
    <2>2. ASSUME NEW z, NEW w, New(x, z), New(y, w) PROVE Before(V[x].index, V[y].index)
      <3>1. z \in 1 .. k /\ w \in 1 .. k /\ z < w /\ V[x].index = c[z] /\ V[y].index = c[w]
        BY <1>1, <2>2
      <3>2. h \notin unsorted BY <1>3, <3>1
      <3> QED BY <3>1, <3>2 DEF h, k
    <2>3. ASSUME NEW z, NEW w, Old(x, z), New(y, w) PROVE FALSE BY <1>3, <1>5, <1>9, <2>3
    <2>4. ASSUME NEW z, NEW w, New(x, z), Old(y, w) PROVE FALSE BY <1>3, <1>5, <1>9, <2>4
    <2> HIDE DEF Old, New
    <2> QED BY <1>6, <2>1, <2>2, <2>3, <2>4
  <1> QED BY <1>10, <1>11, <1>12, <1>13, <1>14 DEF Good

----------------------------------------------------------------------------
(* The steps after the scan.                                               *)

LEMMA FindDef ==
    \A p : FindProcessIndex(p) =
        IF {i \in 1 .. Len(list) : list[i].pid = p} # {}
        THEN Min({i \in 1 .. Len(list) : list[i].pid = p}) ELSE 0
  BY Zenon DEF FindProcessIndex, SelectInSeq

LEMMA UpDef == \A i, p : p = list[i].ppid => Up(i) = FindProcessIndex(p)
  BY Zenon DEF Up

\* As long as the list and the order asked for are the same, so are the tree
\* and what is said about the lines.
LEMMA SameList ==
    ASSUME UNCHANGED << list, numeric >>
    PROVE  /\ Index' = Index /\ \A i : Up(i)' = Up(i) /\ Kids(i)' = Kids(i)
           /\ \A i, j : Before(i, j)' <=> Before(i, j)
  <1>1. Index' = Index BY DEF Index
  <1>2. \A p : FindProcessIndex(p)' = FindProcessIndex(p)
    <2> DEFINE F(s, p) == IF {i \in 1 .. Len(s) : s[i].pid = p} # {}
                          THEN Min({i \in 1 .. Len(s) : s[i].pid = p}) ELSE 0
    <2>1. (\A p : FindProcessIndex(p) =
             IF {i \in 1 .. Len(list) : list[i].pid = p} # {}
             THEN Min({i \in 1 .. Len(list) : list[i].pid = p}) ELSE 0)'
      BY FindDef, PTL
    <2>2. \A p : FindProcessIndex(p)' = F(list', p) BY <2>1, Zenon
    <2>3. \A p : FindProcessIndex(p) = F(list, p) BY FindDef, Zenon
    <2> HIDE DEF F
    <2>4. list' = list OBVIOUS
    <2> QED BY <2>2, <2>3, <2>4, Zenon
  <1>3. \A i : Up(i)' = Up(i)
    <2>1. (\A i, p : p = list[i].ppid => Up(i) = FindProcessIndex(p))' BY UpDef, PTL
    <2>2. \A i, p : p = list[i].ppid => Up(i)' = FindProcessIndex(p)' BY <2>1, Zenon
    <2> QED BY <1>2, <2>2, UpDef, Zenon
  <1>4. \A i : Kids(i)' = Kids(i) BY <1>1, <1>3, Zenon DEF Kids
  <1>5. \A i, j : Before(i, j)' <=> Before(i, j) BY Zenon DEF Before
  <1> QED BY <1>1, <1>3, <1>4, <1>5

LEMMA SameGood ==
    ASSUME UNCHANGED << list, numeric, unsorted >>, NEW W, NEW n
    PROVE  Good(W, n)' <=> Good(W, n)
  <1>1. /\ Index' = Index /\ \A i : Up(i)' = Up(i) /\ Kids(i)' = Kids(i)
        /\ \A i, j : Before(i, j)' <=> Before(i, j)
    BY SameList
  <1>2. Once(W)' <=> Once(W) BY Zenon DEF Once
  <1>3. \A x, m : Under(W, n, x, m)' <=> Under(W, n, x, m)
    <2> SUFFICES ASSUME NEW x, NEW m PROVE Under(W, n, x, m)' <=> Under(W, n, x, m) OBVIOUS
    <2>1. Up(W[x].index)' = Up(W[x].index) BY <1>1
    <2> QED BY <2>1, Zenon DEF Under
  <1>4. Placed(W, n)' <=> Placed(W, n) BY <1>1, <1>3, Zenon DEF Placed
  <1>5. Nested(W, n)' <=> Nested(W, n) BY Zenon DEF Nested
  <1>6. Reached(W, n)' <=> Reached(W, n) BY <1>1, Zenon DEF Reached
  <1>7. InOrder(W)' <=> InOrder(W)
    <2>1. \A x, y : /\ Up(W[x].index)' = Up(W[x].index)
                    /\ Up(W[y].index)' = Up(W[y].index)
                    /\ Before(W[x].index, W[y].index)' <=> Before(W[x].index, W[y].index)
      BY <1>1, Zenon
    <2>2. unsorted' = unsorted OBVIOUS
    <2> QED BY <2>1, <2>2, Zenon DEF InOrder
  <1> QED BY <1>2, <1>4, <1>5, <1>6, <1>7, Zenon DEF Good

\* PrintOK in a form of which the primed version can be used.
LEMMA PrintDef ==
    PrintOK <=> /\ pc \in {"print", "ok"} =>
                      \E W, n : W = out \o stack /\ n = Len(out) /\ Good(W, n)
                /\ pc = "ok" => stack = << >>
  BY Zenon DEF PrintOK

\* Before the tree is printed there are no lines.
LEMMA NoLines ==
    ASSUME pc' \notin {"print", "ok"}
    PROVE  PrintOK'
  BY DEF PrintOK

\* Nothing about the tree changes during the scan.
LEMMA EarlyTree ==
    ASSUME TreeType, TreeOK, pc \in {"start", "fill", "scan"},
           pc' \in {"start", "fill", "scan", "build", "failed"},
           UNCHANGED << children, stack, out, unsorted >>
    PROVE  TreeType' /\ TreeOK' /\ PrintOK'
  <1>1. children = << >> /\ unsorted = {} /\ stack = << >> /\ out = << >> BY DEF TreeOK
  <1>2. TreeOK' BY <1>1 DEF TreeOK
  <1>3. TreeType' BY <1>1 DEF TreeType
  <1> QED BY <1>2, <1>3, NoLines

\* The last part of TreeOK in a form of which the primed version can be used.
LEMMA TreeDef ==
    TreeOK <=>
      /\ pc \in {"start", "fill", "scan", "build"} => children = << >> /\ unsorted = {}
      /\ pc \notin {"print", "ok"} => stack = << >> /\ out = << >>
      /\ pc \in {"sort", "roots", "print", "ok"} =>
            /\ Len(children) = Len(list)
            /\ \A i \in Index : \A s, S : s = children[i] /\ S = Kids(i) => Lists(s, S)
      /\ pc \in {"roots", "print", "ok"} =>
            \A i \in Index \ unsorted : \A k, m \in 1 .. Len(children[i]) : \A a, b :
                k < m /\ a = children[i][k] /\ b = children[i][m] => Before(a, b)
  <1>1. (\A i \in Index : \A s, S : s = children[i] /\ S = Kids(i) => Lists(s, S))
        <=> \A i \in Index : Lists(children[i], Kids(i))
    BY Zenon
  <1>2. (\A i \in Index \ unsorted : \A k, m \in 1 .. Len(children[i]) : \A a, b :
            k < m /\ a = children[i][k] /\ b = children[i][m] => Before(a, b))
        <=> \A i \in Index \ unsorted : \A k, m \in 1 .. Len(children[i]) :
              k < m => Before(children[i][k], children[i][m])
    BY Zenon
  <1> QED BY <1>1, <1>2, Zenon DEF TreeOK

\* What is needed for TreeOK after a step that leaves the list alone.
LEMMA TreeKept ==
    ASSUME UNCHANGED << list, numeric >>,
           pc' \in {"sort", "roots", "print", "ok"},
           pc' \notin {"print", "ok"} => stack' = << >> /\ out' = << >>,
           Len(children') = Len(list),
           \A i \in Index : Lists(children'[i], Kids(i)),
           pc' # "sort" => \A i \in Index \ unsorted' : \A k, m \in 1 .. Len(children'[i]) :
                              k < m => Before(children'[i][k], children'[i][m])
    PROVE  TreeOK'
  <1>1. /\ Index' = Index /\ \A i : Kids(i)' = Kids(i)
        /\ \A i, j : Before(i, j)' <=> Before(i, j)
    BY SameList
  <1>2. \A i \in Index' : \A s, S : s = children'[i] /\ S = Kids(i)' => Lists(s, S)
    BY <1>1, Zenon
  <1>3. pc' # "sort" => \A i \in Index' \ unsorted' : \A k, m \in 1 .. Len(children'[i]) : \A a, b :
            k < m /\ a = children'[i][k] /\ b = children'[i][m] => Before(a, b)'
    <2> SUFFICES ASSUME pc' # "sort", NEW i \in Index' \ unsorted',
                        NEW k \in 1 .. Len(children'[i]), NEW m \in 1 .. Len(children'[i]),
                        NEW a, NEW b, k < m, a = children'[i][k], b = children'[i][m]
                 PROVE  Before(a, b)'
      BY Zenon
    <2>1. i \in Index \ unsorted' BY <1>1
    <2>2. Before(a, b) BY <2>1
    <2> QED BY <1>1, <2>2, Zenon
  <1>4. (TreeOK <=>
      /\ pc \in {"start", "fill", "scan", "build"} => children = << >> /\ unsorted = {}
      /\ pc \notin {"print", "ok"} => stack = << >> /\ out = << >>
      /\ pc \in {"sort", "roots", "print", "ok"} =>
            /\ Len(children) = Len(list)
            /\ \A i \in Index : \A s, S : s = children[i] /\ S = Kids(i) => Lists(s, S)
      /\ pc \in {"roots", "print", "ok"} =>
            \A i \in Index \ unsorted : \A k, m \in 1 .. Len(children[i]) : \A a, b :
                k < m /\ a = children[i][k] /\ b = children[i][m] => Before(a, b))'
    BY TreeDef, PTL
  <1>5. Len(children') = Len(list') OBVIOUS
  <1>6. pc' \notin {"start", "fill", "scan", "build"} OBVIOUS
  <1>7. pc' \in {"roots", "print", "ok"} => pc' # "sort" OBVIOUS
  <1> QED BY <1>2, <1>3, <1>4, <1>5, <1>6, <1>7, Zenon

LEMMA KidsSeq == \A s, i : Lists(s, Kids(i)) => s \in Seq(Index)
  <1> SUFFICES ASSUME NEW s, NEW i, Lists(s, Kids(i)) PROVE s \in Seq(Index) OBVIOUS
  <1>1. s \in Seq(Kids(i)) BY DEF Lists
  <1>2. Kids(i) \subseteq Index BY DEF Kids
  <1> HIDE DEF Kids
  <1> QED BY <1>1, <1>2

\* build_tree lists the children of everybody, or runs out of memory.
LEMMA BuildTreeStep == Inv /\ BuildTree => Inv'
  <1> SUFFICES ASSUME Inv, BuildTree PROVE Inv' OBVIOUS
  <1>0. ProcOK /\ TreeType /\ TreeOK /\ TypeOK /\ ScanOK BY TypeSplit DEF Inv, ProcOK
  <1>1. /\ pc = "build" /\ UNCHANGED << numeric, cursor, batch, list, stack, out, origin, unsorted >>
        /\ UNCHANGED << table, births, lived, used, reused >>
        /\ \/ pc' = "sort" /\ children' = [i \in Index |-> ChildrenOf(i)]
           \/ pc' = "failed" /\ UNCHANGED children
    BY Zenon DEF BuildTree, Fail
  <1>2. ProcOK' /\ Index' = Index BY <1>0, <1>1, ScanOver
  <1>3. children = << >> /\ unsorted = {} /\ stack = << >> /\ out = << >>
    BY <1>0, <1>1 DEF TreeOK
  <1>4. PrintOK' BY <1>1, NoLines
  <1>5. CASE pc' = "failed"
    <2>1. TreeType' BY <1>0, <1>1, <1>2, <1>5 DEF TreeType
    <2>2. TreeOK' BY <1>1, <1>3, <1>5 DEF TreeOK
    <2> QED BY <1>2, <1>4, <2>1, <2>2 DEF Inv
  <1>6. CASE pc' = "sort"
    <2>1. children' = [i \in Index |-> ChildrenOf(i)] BY <1>1, <1>6
    <2>2. \A i \in Index : Lists(children'[i], Kids(i)) BY <1>0, <2>1, ChildrenLists
    <2>3. \A i \in Index : children'[i] \in Seq(Index) BY <2>2, KidsSeq
    <2>4. children' \in Seq(Seq(Index)) /\ Len(children') = Len(list)
      BY <1>0, <2>1, <2>3, ListTypes DEF Index
    <2>5. TreeType' BY <1>1, <1>2, <1>3, <1>6, <2>4 DEF TreeType
    <2>6. TreeOK' BY <1>1, <1>3, <1>6, <2>2, <2>4, TreeKept
    <2> QED BY <1>2, <1>4, <2>5, <2>6 DEF Inv
  <1> QED BY <1>1, <1>5, <1>6

\* sort_tree: the children are the same, in order unless memory was refused.
LEMMA SortTreeStep == Inv /\ SortTree => Inv'
  <1> SUFFICES ASSUME Inv, SortTree PROVE Inv' OBVIOUS
  <1>0. ProcOK /\ TreeType /\ TreeOK /\ TypeOK /\ ScanOK BY TypeSplit DEF Inv, ProcOK
  <1>1. /\ pc = "sort" /\ pc' = "roots"
        /\ UNCHANGED << numeric, cursor, batch, list, stack, out, origin >>
        /\ UNCHANGED << table, births, lived, used, reused >>
    BY Zenon DEF SortTree
  <1>2. ProcOK' /\ Index' = Index BY <1>0, <1>1, ScanOver
  <1>3. /\ Len(children) = Len(list) /\ stack = << >> /\ out = << >>
        /\ \A i \in Index : Lists(children[i], Kids(i))
    BY <1>0, <1>1 DEF TreeOK
  <1>4. unsorted' \subseteq Index BY Zenon DEF SortTree
  <1>5. children' = [i \in Index |-> IF i \in unsorted' THEN children[i]
                                     ELSE Sorted(Range(children[i]))]
    BY Zenon DEF SortTree
  <1>6. ASSUME NEW i \in Index
        PROVE  /\ Lists(children'[i], Kids(i))
               /\ i \notin unsorted' =>
                    \A k, m \in 1 .. Len(children'[i]) :
                       k < m => Before(children'[i][k], children'[i][m])
    <2>1. Lists(children[i], Kids(i)) BY <1>3
    <2>2. Range(children[i]) = Kids(i) BY <2>1 DEF Lists, Range
    <2>3. Kids(i) \in SUBSET Index BY DEF Kids
    <2>4. CASE i \in unsorted' BY <1>5, <2>1, <2>4
    <2>5. CASE i \notin unsorted'
      <3>1. children'[i] = Sorted(Kids(i)) BY <1>5, <2>2, <2>5
      <3> QED BY <1>0, <2>3, <3>1, SortedLists
    <2> QED BY <2>4, <2>5
  <1>7. \A i \in Index : children'[i] \in Seq(Index) BY <1>6, KidsSeq
  <1>8. children' \in Seq(Seq(Index)) /\ Len(children') = Len(list)
    BY <1>0, <1>5, <1>7, ListTypes DEF Index
  <1>9. TreeType' BY <1>1, <1>2, <1>3, <1>4, <1>8 DEF TreeType
  <1>10. TreeOK' BY <1>1, <1>3, <1>6, <1>8, TreeKept
  <1>11. PrintOK' BY <1>1, NoLines
  <1> QED BY <1>2, <1>9, <1>10, <1>11 DEF Inv

LEMMA FirstNumbers ==
    ASSUME NEW k \in Nat
    PROVE  IsFiniteSet(1 .. k) /\ Cardinality(1 .. k) = k
  <1>1. IsFiniteSet(1 .. k) /\ Cardinality(1 .. k) = IF 1 > k THEN 0 ELSE k - 1 + 1
    <2>1. 1 \in Int /\ k \in Int OBVIOUS
    <2> QED BY <2>1, FS_Interval, Zenon
  <1>2. (IF 1 > k THEN 0 ELSE k - 1 + 1) = k OBVIOUS
  <1> QED BY <1>1, <1>2

\* Lines that come once are no more than the entries of the list.
LEMMA OnceBound ==
    ASSUME TypeOK, NEW W \in Seq(LineType), Once(W)
    PROVE  Len(W) <= Len(list)
  <1> DEFINE f == [x \in 1 .. Len(W) |-> W[x].index]
  <1>1. Len(W) \in Nat /\ \A x \in 1 .. Len(W) : W[x] \in LineType OBVIOUS
  <1>2. \A x \in 1 .. Len(W) : W[x].index \in Index BY <1>1 DEF LineType
  <1>3. f \in Injection(1 .. Len(W), Index) BY <1>2 DEF Once, Injection, IsInjective
  <1>4. IsFiniteSet(1 .. Len(W)) /\ Cardinality(1 .. Len(W)) = Len(W) BY <1>1, FirstNumbers
  <1>5. IsFiniteSet(Index) /\ Cardinality(Index) = Len(list) /\ Len(list) \in Nat
    <2>1. Len(list) \in Nat BY ListTypes
    <2> QED BY <2>1, FirstNumbers DEF Index
  <1> HIDE DEF f
  <1>6. Cardinality(1 .. Len(W)) <= Cardinality(Index) BY <1>3, <1>5, FS_Injection
  <1> QED BY <1>4, <1>5, <1>6

LEMMA PrintPrimed ==
    (PrintOK <=> /\ pc \in {"print", "ok"} =>
                      \E W, n : W = out \o stack /\ n = Len(out) /\ Good(W, n)
                 /\ pc = "ok" => stack = << >>)'
  BY PrintDef, PTL

\* The lines before and after a step of print_tree.
LEMMA PrintKept ==
    ASSUME UNCHANGED << list, numeric, unsorted >>, Good(out' \o stack', Len(out')),
           pc' = "ok" => stack' = << >>
    PROVE  PrintOK'
  <1>1. PrintOK' <=> /\ pc' \in {"print", "ok"} =>
                          \E W, n : W = out' \o stack' /\ n = Len(out') /\ Good(W, n)'
                     /\ pc' = "ok" => stack' = << >>
    BY PrintPrimed, Zenon
  <1>2. PICK X, m : X = out' \o stack' /\ m = Len(out') /\ Good(X, m) OBVIOUS
  <1>3. Good(X, m)' BY <1>2, SameGood
  <1>4. \E W, n : W = out' \o stack' /\ n = Len(out') /\ Good(W, n)' BY <1>2, <1>3, Zenon
  <1> QED BY <1>1, <1>4, Zenon

\* print_forest: the roots come first, in order.
LEMMA PrintForestStep == Inv /\ PrintForest => Inv'
  <1> SUFFICES ASSUME Inv, PrintForest PROVE Inv' OBVIOUS
  <1>0. ProcOK /\ TreeType /\ TreeOK /\ TypeOK /\ ScanOK BY TypeSplit DEF Inv, ProcOK
  <1>1. /\ pc = "roots"
        /\ UNCHANGED << numeric, cursor, batch, list, children, out, origin, unsorted >>
        /\ UNCHANGED << table, births, lived, used, reused >>
        /\ \/ pc' = "print" /\ stack' = Calls(Sorted(Roots), 0)
           \/ pc' = "failed" /\ UNCHANGED stack
    BY Zenon DEF PrintForest, Fail
  <1>2. ProcOK' /\ Index' = Index BY <1>0, <1>1, ScanOver
  <1>3. /\ Len(children) = Len(list) /\ stack = << >> /\ out = << >>
        /\ \A i \in Index : Lists(children[i], Kids(i))
        /\ \A i \in Index \ unsorted : \A k, m \in 1 .. Len(children[i]) :
              k < m => Before(children[i][k], children[i][m])
    BY <1>0, <1>1 DEF TreeOK
  <1>4. CASE pc' = "failed"
    <2>1. TreeType' BY <1>0, <1>1, <1>2, <1>4 DEF TreeType
    <2>2. TreeOK' BY <1>1, <1>3, <1>4 DEF TreeOK
    <2> QED BY <1>2, <1>4, <2>1, <2>2, NoLines DEF Inv
  <1>5. CASE pc' = "print"
    <2> DEFINE r == Sorted(Roots)
               V == stack'
    <2>1. Roots = {i \in Index : Up(i) = 0}
      <3>1. ASSUME NEW i \in Index, list[i].ppid = 0 PROVE Up(i) = 0
        <4>1. \A j \in Index : list[j].pid # 0 BY <1>0, ListTypes DEF Pid
        <4> QED BY <1>0, <3>1, <4>1, UpIs
      <3>2. \A i \in Index : Up(i) = FindProcessIndex(list[i].ppid) BY Zenon DEF Up
      <3> QED BY <3>1, <3>2 DEF Roots
    <2>2. Roots \in SUBSET Index BY <2>1
    <2>3. Lists(r, Roots) /\ \A k, m \in 1 .. Len(r) : k < m => Before(r[k], r[m])
      BY <1>0, <2>2, SortedLists
    <2>4. V = [k \in 1 .. Len(r) |-> [index |-> r[k], depth |-> 0]]
      BY <1>1, <1>5, Zenon DEF Calls
    <2> HIDE DEF r, V
    <2>5. r \in Seq(Roots) /\ Len(r) \in Nat BY <2>3 DEF Lists
    <2>6. \A k \in 1 .. Len(r) : r[k] \in Index /\ Up(r[k]) = 0
      <3> HIDE DEF Roots
      <3>1. \A k \in 1 .. Len(r) : r[k] \in Roots BY <2>5
      <3> QED BY <2>1, <3>1
    <2>7. /\ Len(V) = Len(r) /\ \A x \in 1 .. Len(V) : V[x].index = r[x] /\ V[x].depth = 0
          /\ V \in Seq([index : Index, depth : 0 .. Len(list)])
      <3>1. Len(list) \in Nat BY <1>0, ListTypes
      <3>2. Len(V) = Len(r) BY <2>4, <2>5
      <3>3. \A x \in 1 .. Len(V) : V[x] = [index |-> r[x], depth |-> 0] BY <2>4, <3>2
      <3>4. ASSUME NEW x \in 1 .. Len(V)
            PROVE  /\ V[x].index = r[x] /\ V[x].depth = 0
                   /\ V[x] \in [index : Index, depth : 0 .. Len(list)]
        <4>1. r[x] \in Index /\ 0 \in 0 .. Len(list) BY <2>6, <3>1, <3>2
        <4>2. V[x] = [index |-> r[x], depth |-> 0] BY <3>3
        <4> QED BY <4>1, <4>2
      <3> DEFINE L == [index : Index, depth : 0 .. Len(list)]
      <3>6. V \in Seq(L)
        <4>1. \A x \in 1 .. Len(r) : V[x] \in L BY <3>2, <3>4
        <4> HIDE DEF L
        <4> QED BY <2>4, <2>5, <4>1
      <3> QED BY <3>2, <3>4, <3>6
    <2>8. Once(V) BY <2>3, <2>7 DEF Once, Lists
    <2>9. Placed(V, 0) BY <2>6, <2>7 DEF Placed
    <2>10. Nested(V, 0)
      <3>1. \A x \in 0 + 1 .. Len(V) : x \in 1 .. Len(V) OBVIOUS
      <3> QED BY <2>7, <3>1 DEF Nested
    <2>11. Reached(V, 0)
      <3> SUFFICES ASSUME NEW i \in Index, Up(i) = 0 \/ \E m \in 1 .. 0 : V[m].index = Up(i)
                   PROVE  \E x \in 1 .. Len(V) : V[x].index = i
        BY DEF Reached
      <3>1. i \in Roots BY <2>1
      <3>2. PICK k \in 1 .. Len(r) : r[k] = i BY <2>3, <3>1 DEF Lists
      <3> QED BY <2>7, <3>2
    <2>12. InOrder(V) BY <2>3, <2>7 DEF InOrder
    <2>13. Good(V, 0) BY <2>8, <2>9, <2>10, <2>11, <2>12 DEF Good
    <2>14. out' \o stack' = V /\ Len(out') = 0
      <3>1. out' = << >> BY <1>1, <1>3
      <3> QED BY <2>7, <3>1 DEF V
    <2>15. PrintOK' BY <1>1, <1>5, <2>13, <2>14, PrintKept
    <2>16. TreeOK' BY <1>1, <1>3, <1>5, TreeKept
    <2>17. TreeType' BY <1>0, <1>1, <1>2, <1>5, <2>7 DEF TreeType, V
    <2> QED BY <1>2, <2>15, <2>16, <2>17 DEF Inv
  <1> QED BY <1>1, <1>4, <1>5

\* One call of print_tree prints its line and puts those of the children next.
LEMMA PrintTreeStep == Inv /\ PrintTree => Inv'
  <1> SUFFICES ASSUME Inv, PrintTree PROVE Inv' OBVIOUS
  <1> DEFINE L == [index : Index, depth : 0 .. Len(list)]
             W == out \o stack
             n == Len(out)
             h == Head(stack)
             c == children[h.index]
             V == out' \o stack'
  <1>0. ProcOK /\ TreeType /\ TreeOK /\ PrintOK /\ TypeOK /\ ScanOK BY TypeSplit DEF Inv, ProcOK
  <1>1. /\ pc = "print"
        /\ UNCHANGED << numeric, cursor, batch, list, children, origin, unsorted >>
        /\ UNCHANGED << table, births, lived, used, reused >>
        /\ \/ /\ stack # << >> /\ out' = Append(out, h)
              /\ stack' = Calls(c, h.depth + 1) \o Tail(stack) /\ pc' = pc
           \/ stack = << >> /\ pc' = "ok" /\ UNCHANGED << stack, out >>
    BY Zenon DEF PrintTree
  <1>2. ProcOK' /\ Index' = Index BY <1>0, <1>1, ScanOver
  <1>3. /\ Len(children) = Len(list)
        /\ \A i \in Index : Lists(children[i], Kids(i))
        /\ \A i \in Index \ unsorted : \A k, m \in 1 .. Len(children[i]) :
              k < m => Before(children[i][k], children[i][m])
    BY <1>0, <1>1 DEF TreeOK
  <1>4. TreeOK'
    <2>1. pc' \in {"print", "ok"} BY <1>1
    <2> QED BY <1>1, <1>3, <2>1, TreeKept
  <1>5. Good(W, n) BY <1>0, <1>1 DEF PrintOK
  <1>6. out \in Seq(L) /\ stack \in Seq(L) BY <1>0 DEF TreeType
  <1>7. Len(list) \in Nat BY <1>0, ListTypes
  <1>8. CASE stack = << >>
    <2>1. pc' = "ok" /\ UNCHANGED << stack, out >> BY <1>1, <1>8
    <2>2. PrintOK' BY <1>1, <1>5, <1>8, <2>1, PrintKept
    <2>3. TreeType' BY <1>0, <1>1, <1>2, <2>1 DEF TreeType
    <2> QED BY <1>2, <1>4, <2>2, <2>3 DEF Inv
  <1>9. CASE stack # << >>
    <2>1. out' = Append(out, h) /\ stack' = Calls(c, h.depth + 1) \o Tail(stack) /\ pc' = "print"
      BY <1>1, <1>9
    <2>2. h \in L /\ h = stack[1] /\ Len(stack) \in Nat \ {0} /\ n \in Nat
      <3> HIDE DEF L
      <3> QED BY <1>6, <1>9
    <2>3. h.index \in Index /\ h.depth \in 0 .. Len(list) BY <2>2
    <2>4. Lists(c, Kids(h.index)) BY <1>3, <2>3
    <2>5. c \in Seq(Index) BY <2>4, KidsSeq
    <2>6. L \subseteq LineType BY <1>7 DEF LineType
    <2>7. W \in Seq(L) /\ Len(W) = n + Len(stack) /\ W[n + 1] = h
      <3> HIDE DEF L
      <3> QED BY <1>6, <2>2
    <2> HIDE DEF c, h, n, W
    <2>8. W \in Seq(LineType)
      <3> HIDE DEF L
      <3> QED BY <2>6, <2>7
    <2>9. n + 1 <= Len(list) /\ h.depth <= n
      <3>1. Once(W) /\ Placed(W, n) BY <1>5 DEF Good
      <3>2. Len(W) <= Len(list) BY <1>0, <2>8, <3>1, OnceBound
      <3>3. n + 1 \in 1 .. Len(W) BY <2>2, <2>7
      <3>4. W[n + 1].depth <= n BY <3>1, <3>3 DEF Placed
      <3> QED BY <1>7, <2>2, <2>7, <3>2, <3>4
    <2> DEFINE C == Calls(c, h.depth + 1)
               k == Len(c)
    <2>10. h.depth + 1 \in 0 .. Len(list) BY <1>7, <2>2, <2>3, <2>9
    <2>11. /\ k \in Nat /\ C = [y \in 1 .. k |-> [index |-> c[y], depth |-> h.depth + 1]]
           /\ \A y \in 1 .. k : c[y] \in Index
      BY <2>5 DEF Calls
    <2>12. C \in Seq(L) /\ Len(C) = k
      <3>1. \A y \in 1 .. k : C[y] = [index |-> c[y], depth |-> h.depth + 1] BY <2>11
      <3>2. \A y \in 1 .. k : [index |-> c[y], depth |-> h.depth + 1] \in L BY <2>10, <2>11
      <3>3. \A y \in 1 .. k : C[y] \in L BY <3>1, <3>2
      <3> HIDE DEF L, k
      <3> QED BY <2>11, <3>3
    <2>13. \A y \in 1 .. k : C[y] = [index |-> c[y], depth |-> h.depth + 1] BY <2>11
    <2> HIDE DEF L, C, k
    <2>14. Tail(stack) \in Seq(L) /\ Len(Tail(stack)) = Len(stack) - 1
           /\ \A x \in 1 .. Len(stack) - 1 : Tail(stack)[x] = stack[x + 1]
      BY <1>6, <1>9
    <2>15. out' \in Seq(L) /\ stack' \in Seq(L) BY <1>6, <2>1, <2>2, <2>12, <2>14 DEF C
    <2>16. Len(out') = n + 1 /\ Len(stack') = k + Len(stack) - 1
      <3>1. Len(out') = Len(out) + 1 BY <1>6, <2>1, <2>2
      <3>2. Len(stack') = Len(C) + Len(Tail(stack)) BY <2>1, <2>12, <2>14 DEF C
      <3> QED BY <2>2, <2>11, <2>12, <2>14, <3>1, <3>2 DEF n
    <2>17. V \in Seq(LineType) /\ Len(V) = Len(W) + k
      <3>1. V \in Seq(L) /\ Len(V) = Len(out') + Len(stack') BY <2>15
      <3>2. Len(V) = Len(W) + k BY <2>2, <2>7, <2>11, <2>16, <3>1
      <3> HIDE DEF V
      <3> QED BY <2>6, <3>1, <3>2
    <2>18. \A x \in 1 .. n + 1 : V[x] = W[x]
      <3> SUFFICES ASSUME NEW x \in 1 .. n + 1 PROVE V[x] = W[x] OBVIOUS
      <3>1. V[x] = out'[x] BY <2>15, <2>16
      <3>2. CASE x <= n
        <4>1. out'[x] = out[x] BY <1>6, <2>1, <2>2, <3>2 DEF n
        <4>2. W[x] = out[x] BY <1>6, <2>2, <3>2 DEF n, W
        <4> QED BY <3>1, <4>1, <4>2
      <3>3. CASE x = n + 1
        <4>1. out'[x] = h BY <1>6, <2>1, <2>2, <3>3 DEF n
        <4> QED BY <2>7, <3>1, <3>3, <4>1
      <3>4. x <= n \/ x = n + 1
        <4> HIDE DEF V
        <4> QED BY <2>2
      <3> QED BY <3>2, <3>3, <3>4
    <2>19. \A y \in 1 .. k : V[n + 1 + y] = [index |-> c[y], depth |-> h.depth + 1]
      <3> SUFFICES ASSUME NEW y \in 1 .. k PROVE V[n + 1 + y] = C[y] BY <2>13
      <3>1. V[n + 1 + y] = stack'[y] BY <2>2, <2>11, <2>15, <2>16
      <3>2. stack'[y] = C[y] BY <2>1, <2>11, <2>12, <2>14 DEF C
      <3> QED BY <3>1, <3>2
    <2>20. \A x \in n + 2 .. Len(W) : V[x + k] = W[x]
      <3> SUFFICES ASSUME NEW x \in n + 2 .. Len(W) PROVE V[x + k] = W[x] OBVIOUS
      <3> DEFINE z == x - n - 1
      <3>1. z \in 1 .. Len(stack) - 1 /\ x + k = n + 1 + (k + z) /\ x = n + (z + 1)
            /\ k + z \in 1 .. Len(stack') /\ z + 1 \in 1 .. Len(stack)
        BY <2>2, <2>7, <2>11, <2>16
      <3> HIDE DEF z
      <3>2. V[n + 1 + (k + z)] = stack'[k + z]
        <4> DEFINE w == k + z
        <4>1. w \in 1 .. Len(stack') BY <3>1
        <4> HIDE DEF w
        <4>2. V[n + 1 + w] = stack'[w] BY <2>2, <2>15, <2>16, <4>1
        <4> QED BY <4>2 DEF w
      <3>3. stack'[k + z] = Tail(stack)[z] BY <2>1, <2>11, <2>12, <2>14, <3>1 DEF C
      <3>4. W[n + (z + 1)] = stack[z + 1] BY <1>6, <2>2, <3>1 DEF W, n
      <3> QED BY <2>14, <3>1, <3>2, <3>3, <3>4
    <2>21. h.index \notin unsorted => \A y, z \in 1 .. k : y < z => Before(c[y], c[z])
      BY <1>3, <2>3 DEF c, k
    <2>22. Good(V, n + 1)
      <3>1. n < Len(W) BY <2>2, <2>7
      <3>2. Lists(c, Kids(W[n + 1].index)) BY <2>4, <2>7
      <3>3. W[n + 1].index \notin unsorted =>
              \A y, z \in 1 .. Len(c) : y < z => Before(c[y], c[z])
        BY <2>7, <2>21 DEF k
      <3>4. \A y \in 1 .. Len(c) :
              V[n + 1 + y] = [index |-> c[y], depth |-> W[n + 1].depth + 1]
        BY <2>7, <2>19 DEF k
      <3>5. Len(V) = Len(W) + Len(c) /\ \A x \in n + 2 .. Len(W) : V[x + Len(c)] = W[x]
        BY <2>17, <2>20 DEF k
      <3>6. n \in Nat /\ V \in Seq(LineType) BY <2>2, <2>17
      <3> HIDE DEF V
      <3> QED BY <1>0, <1>5, <2>8, <2>18, <3>1, <3>2, <3>3, <3>4, <3>5, <3>6, Insert, Zenon
    <2>23. PrintOK' BY <1>1, <2>1, <2>16, <2>22, PrintKept
    <2>24. TreeType' BY <1>0, <1>1, <1>2, <2>1, <2>15 DEF TreeType, L
    <2> QED BY <1>2, <1>4, <2>23, <2>24 DEF Inv
  <1> QED BY <1>8, <1>9

----------------------------------------------------------------------------
(* The invariant.                                                          *)

LEMMA InvInit == Init => Inv
  <1> SUFFICES ASSUME Init PROVE Inv OBVIOUS
  <1>1. ProcOK BY ProcInit
  <1>2. /\ pc = "start" /\ list = << >> /\ children = << >> /\ stack = << >> /\ out = << >>
        /\ unsorted = {}
    BY DEF Init
  <1>3. TreeType BY <1>2 DEF TreeType
  <1>4. TreeOK BY <1>2 DEF TreeOK
  <1>5. PrintOK BY <1>2 DEF PrintOK
  <1> QED BY <1>1, <1>3, <1>4, <1>5 DEF Inv

LEMMA StutterStep == Inv /\ UNCHANGED vars => Inv'
  <1> SUFFICES ASSUME Inv, UNCHANGED vars PROVE Inv' OBVIOUS
  <1>0. /\ ProcOK /\ TreeType /\ TreeOK /\ PrintOK
        /\ ScanType /\ EnvOK /\ ScanOK /\ KnownOK /\ Acyclic /\ LivedOK /\ births \in Nat
    BY KnownTable DEF Inv, ProcOK
  <1>1. /\ UNCHANGED << table, births, lived, used, reused >>
        /\ UNCHANGED << pc, numeric, cursor, batch, list >>
        /\ UNCHANGED << children, stack, out, origin, unsorted >>
    BY DEF vars
  <1>2. ProcOK'
    <2>1. EnvOK' /\ KnownOK' /\ Acyclic' /\ Index' = Index BY <1>0, <1>1, SameProcesses
    <2>2. ScanType' BY <1>0, <1>1 DEF ScanType
    <2>3. ScanOK' BY <1>0, <1>1, <2>1 DEF ScanOK
    <2>4. LivedOK' BY <1>0, <1>1, <2>1 DEF LivedOK
    <2> QED BY <2>1, <2>2, <2>3, <2>4 DEF ProcOK
  <1>3. TreeType'
    <2>1. Index' = Index BY <1>1 DEF Index
    <2> QED BY <1>0, <1>1, <2>1 DEF TreeType
  <1>4. CASE pc \in {"start", "fill", "scan", "build", "failed"}
    <2>1. TreeOK' BY <1>0, <1>1, <1>4 DEF TreeOK
    <2>2. PrintOK' BY <1>1, <1>4, NoLines
    <2> QED BY <1>2, <1>3, <2>1, <2>2 DEF Inv
  <1>5. CASE pc \in {"sort", "roots", "print", "ok"}
    <2>1. TreeOK' BY <1>0, <1>1, <1>5, TreeKept DEF TreeOK
    <2>2. CASE pc \in {"sort", "roots"} BY <1>1, <1>2, <1>3, <2>1, <2>2, NoLines DEF Inv
    <2>3. CASE pc \in {"print", "ok"}
      <3>1. Good(out \o stack, Len(out)) /\ (pc = "ok" => stack = << >>)
        BY <1>0, <2>3 DEF PrintOK
      <3>2. PrintOK' BY <1>1, <3>1, PrintKept
      <3> QED BY <1>2, <1>3, <2>1, <3>2 DEF Inv
    <2> QED BY <1>5, <2>2, <2>3
  <1> QED BY <1>0, <1>4, <1>5 DEF TreeType

\* Every step of the program and of the processes preserves the invariant.
LEMMA InvStep == Inv /\ [Next]_vars => Inv'
  <1> SUFFICES ASSUME Inv, [Next]_vars PROVE Inv' OBVIOUS
  <1>0. ProcOK /\ TreeType /\ TreeOK BY DEF Inv
  <1>1. CASE OpenDir
    <2>1. /\ pc = "start" /\ pc' \in {"scan", "failed"}
          /\ UNCHANGED << children, stack, out, unsorted >>
      BY <1>1 DEF OpenDir, Fail
    <2> QED BY <1>0, <1>1, <2>1, OpenDirStep, EarlyTree DEF Inv
  <1>2. CASE NextTgid
    <2>1. /\ pc = "fill" /\ pc' \in {"fill", "build", "scan"}
          /\ UNCHANGED << children, stack, out, unsorted >>
      BY <1>2 DEF NextTgid
    <2> QED BY <1>0, <1>2, <2>1, NextTgidStep, EarlyTree DEF Inv
  <1>3. CASE SkipName
    <2>1. /\ pc = "scan" /\ pc' \in {"fill", "scan"}
          /\ UNCHANGED << children, stack, out, unsorted >>
      BY <1>3 DEF SkipName, Skip
    <2> QED BY <1>0, <1>3, <2>1, SkipNameStep, EarlyTree DEF Inv
  <1>4. CASE SkipProcess
    <2>1. /\ pc = "scan" /\ pc' \in {"fill", "scan"}
          /\ UNCHANGED << children, stack, out, unsorted >>
      BY <1>4 DEF SkipProcess, Skip
    <2> QED BY <1>0, <1>4, <2>1, SkipProcessStep, EarlyTree DEF Inv
  <1>5. CASE AddProcess
    <2>1. /\ pc = "scan" /\ pc' \in {"fill", "scan", "failed"}
          /\ UNCHANGED << children, stack, out, unsorted >>
      BY <1>5, Zenon DEF AddProcess, Skip, Fail
    <2> QED BY <1>0, <1>5, <2>1, AddProcessStep, EarlyTree DEF Inv
  <1>6. CASE BuildTree BY <1>6, BuildTreeStep
  <1>7. CASE SortTree BY <1>7, SortTreeStep
  <1>8. CASE PrintForest BY <1>8, PrintForestStep
  <1>9. CASE PrintTree BY <1>9, PrintTreeStep
  <1>10. ASSUME NEW p \in Pid, NEW q \in Pid, NEW n \in Name, Fork(p, q, n) PROVE Inv'
    <2>1. /\ pc \in {"fill", "scan"} /\ pc' = pc
          /\ UNCHANGED << children, stack, out, unsorted >>
      BY <1>10 DEF Fork, Scanning
    <2>2. ProcOK' BY <1>0, <1>10, ForkStep
    <2> QED BY <1>0, <2>1, <2>2, EarlyTree DEF Inv
  <1>11. ASSUME NEW p \in Pid, Exit(p) PROVE Inv'
    <2>1. /\ pc \in {"fill", "scan"} /\ pc' = pc
          /\ UNCHANGED << children, stack, out, unsorted >>
      BY <1>11 DEF Exit, Scanning
    <2>2. ProcOK' BY <1>0, <1>11, ExitStep
    <2> QED BY <1>0, <2>1, <2>2, EarlyTree DEF Inv
  <1>12. CASE UNCHANGED vars BY <1>12, StutterStep
  <1> QED
    BY <1>1, <1>2, <1>3, <1>4, <1>5, <1>6, <1>7, <1>8, <1>9, <1>10, <1>11, <1>12, Zenon
    DEF Next, Program

\* Every reachable state satisfies the invariant.
THEOREM Invariance == Spec => []Inv
  BY InvInit, InvStep, PTL DEF Spec

----------------------------------------------------------------------------
(* What the invariant says about the printed lines.                        *)

\* The printed lines are the first of all those that are known.
LEMMA OutLines ==
    ASSUME Inv, pc \in {"print", "ok"}, NEW W, W = out \o stack
    PROVE  /\ Good(W, Len(out)) /\ Len(out) \in Nat /\ Len(out) <= Len(W) /\ Len(W) \in Nat
           /\ \A k \in 1 .. Len(out) : /\ W[k] = out[k] /\ out[k].index \in Index
                                       /\ out[k].depth \in Nat
           /\ pc = "ok" => Len(W) = Len(out)
  <1> DEFINE L == [index : Index, depth : 0 .. Len(list)]
  <1>1. TypeOK /\ PrintOK BY TypeSplit DEF Inv, ProcOK
  <1>2. out \in Seq(L) /\ stack \in Seq(L) BY <1>1 DEF TypeOK
  <1>3. Good(W, Len(out)) /\ (pc = "ok" => stack = << >>) BY <1>1 DEF PrintOK
  <1>4. \A x \in L : x.index \in Index /\ x.depth \in Nat
    <2>1. Len(list) \in Nat BY <1>1, ListTypes
    <2> QED BY <2>1
  <1> HIDE DEF L
  <1>5. /\ Len(out) \in Nat /\ Len(stack) \in Nat /\ Len(W) = Len(out) + Len(stack)
        /\ \A k \in 1 .. Len(out) : W[k] = out[k] /\ out[k] \in L
    BY <1>2
  <1>6. pc = "ok" => Len(W) = Len(out)
    <2>1. pc = "ok" => Len(stack) = 0 BY <1>3
    <2> QED BY <1>5, <2>1
  <1> QED BY <1>3, <1>4, <1>5, <1>6

\* Where a line is indented, as the reader of the output sees it.
LEMMA UnderAbove ==
    ASSUME Inv, pc \in {"print", "ok"}, NEW W, W = out \o stack,
           NEW x \in 1 .. Len(out), W[x].depth # 0
    PROVE  \E m \in Above(x) : m \in 1 .. Len(out) /\ out[m].index = Up(out[x].index)
  <1>1. Placed(W, Len(out)) /\ Len(out) <= Len(W) /\ Len(out) \in Nat /\ Len(W) \in Nat
        /\ \A k \in 1 .. Len(out) : W[k] = out[k]
    BY OutLines DEF Good
  <1>2. x \in 1 .. Len(W) BY <1>1
  <1>3. PICK m \in 1 .. Len(out) : m < x /\ Under(W, Len(out), x, m) BY <1>1, <1>2 DEF Placed
  <1>4. m \in 1 .. x - 1 /\ out[m].index = Up(out[x].index) /\ out[m].depth = out[x].depth - 1
    BY <1>1, <1>3 DEF Under
  <1>5. ASSUME NEW z \in m + 1 .. x - 1 PROVE out[z].depth >= out[x].depth
    <2>1. z \in 1 .. Len(out) /\ z <= Len(out) BY <1>1, <1>3, <1>5
    <2>2. W[z].depth >= W[x].depth BY <1>3, <2>1 DEF Under
    <2> QED BY <1>1, <2>1, <2>2
  <1> QED BY <1>4, <1>5 DEF Above

\* The entry that the search finds is the parent unless a pid changed hands.
LEMMA ParentFound ==
    ASSUME Inv, NEW i \in Index
    PROVE  /\ \A j \in Index : Up(i) = j /\ ~reused =>
                 list[i].ppid # 0 /\ origin[j].id = origin[i].parent
           /\ \A j \in Index : origin[j].id = origin[i].parent => Up(i) = j
  <1>1. TypeOK /\ ScanOK /\ KnownOK BY TypeSplit DEF Inv, ProcOK
  <1>2. \A j \in Index : Known(list[j].pid, origin[j].id) BY Zenon DEF Known
  <1>3. list[i].ppid # 0 => Known(list[i].ppid, origin[i].parent) BY Zenon DEF Known
  <1>4. ASSUME NEW j \in Index, Up(i) = j, ~reused
        PROVE  list[i].ppid # 0 /\ origin[j].id = origin[i].parent
    <2>1. list[j].pid = list[i].ppid BY <1>1, <1>4, UpIs
    <2>2. list[i].ppid # 0
      <3>1. list[j].pid # 0 BY <1>1, ListTypes DEF Pid
      <3> QED BY <1>1, <2>1, <3>1 DEF ScanOK
    <2>3. Known(list[i].ppid, origin[j].id) BY <1>2, <2>1
    <2>4. Known(list[i].ppid, origin[i].parent) BY <1>3, <2>2
    <2>5. origin[j].id = origin[i].parent BY <1>1, <1>4, <2>3, <2>4 DEF KnownOK
    <2> QED BY <2>2, <2>5
  <1>5. ASSUME NEW j \in Index, origin[j].id = origin[i].parent PROVE Up(i) = j
    <2>1. origin[j].id \in 1 .. MaxPid + births BY <1>1, <1>2, Zenon DEF KnownOK
    <2>2. origin[j].id # 0
      <3>1. \A a : a \in 1 .. MaxPid + births => a # 0 OBVIOUS
      <3> QED BY <2>1, <3>1
    <2>3. list[i].ppid # 0 BY <1>1, <1>5, <2>2 DEF ScanOK
    <2>4. Known(list[i].ppid, origin[j].id) /\ Known(list[j].pid, origin[j].id)
      BY <1>2, <1>3, <1>5, <2>3
    <2>5. list[i].ppid = list[j].pid BY <1>1, <2>4 DEF KnownOK
    <2> QED BY <1>1, <2>5, UpIs
  <1> QED BY <1>4, <1>5

\* Nothing is printed twice, whatever parents the scan recorded, and the
\* values of the variables are as they should be: print_tree (pstree.c 323-338)
\* ends, and no index leads outside of the list.
THEOREM PrintedOnceTheorem == Spec => []PrintedOnce
  <1>1. Inv => PrintedOnce
    <2> SUFFICES ASSUME Inv PROVE PrintedOnce OBVIOUS
    <2>1. TypeOK BY TypeSplit DEF Inv, ProcOK
    <2>2. CASE pc \notin {"print", "ok"}
      <3>1. out = << >> BY <2>2 DEF Inv, TreeOK
      <3> QED BY <2>1, <3>1 DEF PrintedOnce
    <2>3. CASE pc \in {"print", "ok"}
      <3> DEFINE W == out \o stack
      <3>1. Once(W) /\ Len(out) \in Nat /\ Len(out) <= Len(W) /\ Len(W) \in Nat
            /\ \A k \in 1 .. Len(out) : W[k] = out[k]
        BY <2>3, OutLines DEF Good
      <3> HIDE DEF W
      <3>2. \A k \in 1 .. Len(out) : k \in 1 .. Len(W) BY <3>1
      <3> QED BY <2>1, <3>1, <3>2 DEF PrintedOnce, Once
    <2> QED BY <2>2, <2>3
  <1> QED BY <1>1, Invariance, PTL

\* When the program succeeds and no pid changed hands, every process that was
\* there from beginning to end is printed: the parents recorded at different
\* times (read_process, pstree.c 161-198) never form a loop.
THEOREM NobodyMissingTheorem == Spec => []NobodyMissing
  <1>1. Inv => NobodyMissing
    <2> SUFFICES ASSUME Inv, pc = "ok", ~reused, NEW d \in lived,
                        \A k \in 1 .. Len(out) : origin[out[k].index].id # d
                 PROVE  FALSE
      BY DEF NobodyMissing
    <2> DEFINE W == out \o stack
               U == {i \in Index : \A k \in 1 .. Len(out) : out[k].index # i}
               T == {origin[i].id : i \in U}
    <2>1. TypeOK /\ ScanOK /\ Acyclic /\ LivedOK BY TypeSplit DEF Inv, ProcOK
    <2>2. PICK i \in Index : origin[i].id = d BY <2>1 DEF LivedOK
    <2>3. i \in U /\ d \in T BY <2>2
    <2>4. T \in SUBSET Ids BY <2>1, ListTypes
    <2>5. ASSUME NEW j \in U PROVE Up(j) \in U
      <3>1. Reached(W, Len(out)) /\ Len(W) = Len(out)
            /\ \A k \in 1 .. Len(out) : W[k] = out[k]
        BY OutLines DEF Good
      <3> HIDE DEF W
      <3>2. j \in Index /\ \A k \in 1 .. Len(out) : W[k].index # j BY <3>1
      <3>3. Up(j) # 0 /\ \A k \in 1 .. Len(out) : W[k].index # Up(j)
        BY <3>1, <3>2 DEF Reached
      <3>4. Up(j) \in Index
        <4>1. Up(j) \in 0 .. Len(list) /\ Len(list) \in Nat BY <2>1, <3>2, UpIs, ListTypes
        <4> QED BY <3>3, <4>1 DEF Index
      <3> QED BY <3>1, <3>3, <3>4
    <2>6. PICK a \in T : \A e \in T : ~Edge(a, e) BY <2>1, <2>3, <2>4 DEF Acyclic
    <2>7. PICK j \in U : a = origin[j].id OBVIOUS
    <2>8. j \in Index /\ Up(j) \in U /\ Up(j) \in Index BY <2>5
    <2>9. list[j].ppid # 0 /\ origin[Up(j)].id = origin[j].parent BY <2>8, ParentFound
    <2>10. Edge(a, origin[j].parent) BY <2>7, <2>8, <2>9, Zenon DEF Edge
    <2>11. origin[Up(j)].id \in T BY <2>8
    <2> QED BY <2>6, <2>9, <2>10, <2>11
  <1> QED BY <1>1, Invariance, PTL

\* Unless a pid changed hands a line is indented under the process that was its
\* parent when it was read (print_tree, pstree.c 323-338), and it stands at the
\* margin only if that process is not shown.
THEOREM IndentedTheorem == Spec => []IndentedUnderParent
  <1>1. Inv => IndentedUnderParent
    <2> SUFFICES ASSUME Inv, ~reused, pc \in {"print", "ok"}, NEW k \in 1 .. Len(out)
                 PROVE  IF out[k].depth = 0
                        THEN \A i \in Index : origin[i].id # origin[out[k].index].parent
                        ELSE \E m \in Above(k) :
                                origin[out[m].index].id = origin[out[k].index].parent
      BY Zenon DEF IndentedUnderParent
    <2> DEFINE W == out \o stack
    <2>1. TypeOK BY TypeSplit DEF Inv, ProcOK
    <2>2. /\ Placed(W, Len(out)) /\ Len(out) <= Len(W) /\ Len(out) \in Nat /\ Len(W) \in Nat
          /\ \A m \in 1 .. Len(out) : W[m] = out[m] /\ out[m].index \in Index
      BY OutLines DEF Good
    <2>3. W[k].depth # 0 =>
             \E m \in Above(k) : m \in 1 .. Len(out) /\ out[m].index = Up(out[k].index)
      BY UnderAbove
    <2> HIDE DEF W
    <2>4. k \in 1 .. Len(W) /\ W[k] = out[k] /\ out[k].index \in Index BY <2>2
    <2>5. CASE out[k].depth = 0
      <3>1. Up(out[k].index) = 0 BY <2>2, <2>4, <2>5 DEF Placed
      <3>2. \A i \in Index : i # 0 BY <2>1, ListTypes DEF Index
      <3>3. \A i \in Index : origin[i].id # origin[out[k].index].parent
        BY <2>4, <3>1, <3>2, ParentFound
      <3> QED BY <2>5, <3>3
    <2>6. CASE out[k].depth # 0
      <3>1. PICK m \in Above(k) : m \in 1 .. Len(out) /\ out[m].index = Up(out[k].index)
        BY <2>3, <2>4, <2>6
      <3>2. out[m].index \in Index BY <2>2, <3>1
      <3>3. origin[out[m].index].id = origin[out[k].index].parent
        BY <2>4, <3>1, <3>2, ParentFound
      <3> QED BY <2>6, <3>1, <3>3
    <2> QED BY <2>5, <2>6
  <1> QED BY <1>1, Invariance, PTL

\* Lines under the same line are in the order asked for (sort_tree, pstree.c
\* 270-295), unless memory for sorting them was refused.
THEOREM SiblingsTheorem == Spec => []SiblingsInOrder
  <1>1. Inv => SiblingsInOrder
    <2> SUFFICES ASSUME Inv, NEW k \in 1 .. Len(out), NEW m \in 1 .. Len(out), k < m,
                        out[k].depth = out[m].depth, Above(k) = Above(m),
                        \A a \in Above(k) : out[a].index \notin unsorted
                 PROVE  Before(out[k].index, out[m].index)
      BY Zenon DEF SiblingsInOrder
    <2> DEFINE W == out \o stack
    <2>1. TypeOK /\ TreeOK BY TypeSplit DEF Inv, ProcOK
    <2>2. pc \in {"print", "ok"}
      <3>1. out # << >> OBVIOUS
      <3> QED BY <2>1, <3>1 DEF TreeOK
    <2>3. /\ Placed(W, Len(out)) /\ InOrder(W)
          /\ Len(out) <= Len(W) /\ Len(out) \in Nat /\ Len(W) \in Nat
          /\ \A x \in 1 .. Len(out) : W[x] = out[x] /\ out[x].index \in Index
                                      /\ out[x].depth \in Nat
      BY <2>2, OutLines DEF Good
    <2>4. \A x \in 1 .. Len(out) : W[x].depth # 0 =>
             \E a \in Above(x) : a \in 1 .. Len(out) /\ out[a].index = Up(out[x].index)
      BY <2>2, UnderAbove
    <2> HIDE DEF W
    <2>5. k \in 1 .. Len(W) /\ m \in 1 .. Len(W) /\ W[k] = out[k] /\ W[m] = out[m] BY <2>3
    <2>6. Up(W[k].index) = Up(W[m].index) /\ Up(W[k].index) \notin unsorted
      <3>1. CASE out[k].depth = 0
        <4>1. Up(W[k].index) = 0 /\ Up(W[m].index) = 0 BY <2>3, <2>5, <3>1 DEF Placed
        <4>2. 0 \notin unsorted
          <5>1. unsorted \subseteq Index BY <2>1 DEF TypeOK
          <5> QED BY <5>1 DEF Index
        <4> QED BY <4>1, <4>2
      <3>2. CASE out[k].depth # 0
        <4>1. PICK a \in Above(k) : a \in 1 .. Len(out) /\ out[a].index = Up(out[k].index)
          BY <2>4, <2>5, <3>2
        <4>2. PICK b \in Above(k) : b \in 1 .. Len(out) /\ out[b].index = Up(out[m].index)
          BY <2>4, <2>5, <3>2
        <4>3. /\ a \in 1 .. k - 1 /\ out[a].depth = out[k].depth - 1
              /\ \A x \in a + 1 .. k - 1 : out[x].depth >= out[k].depth
          BY <4>1 DEF Above
        <4>4. /\ b \in 1 .. k - 1 /\ out[b].depth = out[k].depth - 1
              /\ \A x \in b + 1 .. k - 1 : out[x].depth >= out[k].depth
          BY <4>2 DEF Above
        <4>5. out[k].depth \in Nat BY <2>3
        <4>6. ~(a < b)
          <5> SUFFICES ASSUME a < b PROVE FALSE OBVIOUS
          <5>1. b \in a + 1 .. k - 1 BY <4>3, <4>4
          <5> QED BY <4>3, <4>4, <4>5, <5>1
        <4>7. ~(b < a)
          <5> SUFFICES ASSUME b < a PROVE FALSE OBVIOUS
          <5>1. a \in b + 1 .. k - 1 BY <4>3, <4>4
          <5> QED BY <4>3, <4>4, <4>5, <5>1
        <4>8. a = b BY <4>3, <4>4, <4>6, <4>7
        <4> QED BY <2>5, <4>1, <4>2, <4>8
      <3> QED BY <3>1, <3>2
    <2> QED BY <2>3, <2>5, <2>6 DEF InOrder
  <1> QED BY <1>1, Invariance, PTL
=============================================================================
