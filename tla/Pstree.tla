------------------------------- MODULE Pstree -------------------------------
(***************************************************************************)
(* m2/pstree.c: the forest of processes, read from /proc.                  *)
(*                                                                         *)
(* The program lists the directory, reads the status file of every pid it  *)
(* was given and only then builds, sorts and prints the tree.  Meanwhile   *)
(* processes fork and end and their pids are given to others: what it      *)
(* prints was never the state of the system at one instant.                *)
(***************************************************************************)
EXTENDS Integers, Sequences, FiniteSets, SequencesExt

CONSTANTS MaxPid,     \* pids are 1 .. MaxPid
          Name,       \* names in the order of strcmp; 0 is a blank one
          InitName,   \* the names of the processes there are at the start
          BATCH,      \* entries that fit the buffer of readdir
          ListCap,    \* 64, the first capacity of the list
          Faults,     \* calls that may fail: "open", "malloc"
          MaxBirths   \* bound: processes created during the scan

ASSUME PstreeAssumption ==
    /\ MaxPid \in Nat \ {0} /\ BATCH \in Nat \ {0} /\ MaxBirths \in Nat
    /\ ListCap \in Nat \ {0}
    /\ Name \subseteq Nat /\ InitName \in [1 .. MaxPid -> Name \ {0}]
    /\ Faults \subseteq {"open", "malloc"}

VARIABLES table,      \* the processes there are: pid -> [id, ppid, name]
          births,     \* processes created so far
          pc, numeric,
          cursor,     \* the kernel's position in the directory
          batch,      \* entries readdir has and has not returned yet
          list,       \* the ProcessList: its entries in order
          children,   \* the children arrays: index -> indices
          stack,      \* calls of print_tree to come, the innermost first
          out,        \* the printed lines: index and depth
          origin,     \* history: who was behind every entry of the list
          lived,      \* history: who was there, and readable, all along
          used,       \* history: the pids in use at some time of the scan
          reused,     \* history: one of them was given to a second process
          unsorted    \* history: a copy for sorting could not be allocated

env == << table, births, lived, used, reused >>
prog == << pc, numeric, cursor, batch, list, children, stack, out, origin, unsorted >>
vars == << env, prog >>

Pid == 1 .. MaxPid
Ids == 0 .. MaxPid + MaxBirths
Index == 1 .. Len(list)

\* The parents of the processes S: everybody descends from one that has none, as
\* process 1, the kernel's thread 2 or one that entered a container.
Parents(S) == {f \in [S -> S \cup {0}] :
                  /\ f[1] = 0
                  /\ \A T \in SUBSET (S \ {1}) : T # {} => \E p \in T : f[p] \notin T}

\* States of the process table.
Tables == UNION {{[p \in S |-> [id |-> p, ppid |-> f[p], name |-> InitName[p]]] :
                     f \in Parents(S)} : S \in {S \in SUBSET Pid : 1 \in S}}

(* --- /proc (external) ---------------------------------------------------- *)

\* Processes matter to the program as long as it reads.
Scanning == pc \in {"fill", "scan"}

\* p creates a process; the pid is any that is free, used before or not.
Fork(p, q, n) ==
    /\ Scanning /\ births < MaxBirths
    /\ p \in DOMAIN table /\ q \in Pid \ DOMAIN table
    /\ births' = births + 1
    /\ table' = [x \in DOMAIN table \cup {q} |->
                    IF x = q THEN [id |-> MaxPid + births', ppid |-> p, name |-> n]
                    ELSE table[x]]
    /\ used' = used \cup {q} /\ reused' = (reused \/ q \in used)
    /\ UNCHANGED << prog, lived >>

\* p ends and its children go to process 1.
Exit(p) ==
    /\ Scanning /\ p \in DOMAIN table \ {1}
    /\ table' = [x \in DOMAIN table \ {p} |->
                    IF table[x].ppid = p THEN [table[x] EXCEPT !.ppid = 1] ELSE table[x]]
    /\ lived' = lived \ {table[p].id}
    /\ UNCHANGED << prog, births, used, reused >>

\* getdents: the next process by pid goes into the buffer of readdir.
NextTgid ==
    /\ pc = "fill"
    /\ LET rest == {p \in DOMAIN table : p > cursor}
       IN  IF rest # {} /\ Len(batch) < BATCH
           THEN \E p \in rest : /\ \A q \in rest : p <= q
                                /\ cursor' = p /\ batch' = Append(batch, p)
                                /\ pc' = pc
           ELSE /\ pc' = IF batch = << >> THEN "build" ELSE "scan"
                /\ UNCHANGED << cursor, batch >>
    /\ UNCHANGED << env, numeric, list, children, stack, out, origin, unsorted >>

(* --- main: the scan ------------------------------------------------------- *)

Init ==
    /\ table \in Tables
    /\ births = 0 /\ lived = {table[p].id : p \in DOMAIN table}
    /\ used = DOMAIN table /\ reused = FALSE
    /\ pc = "start" /\ numeric \in BOOLEAN
    /\ cursor = 0 /\ batch = << >> /\ list = << >> /\ origin = << >>
    /\ children = << >> /\ stack = << >> /\ out = << >> /\ unsorted = {}

Fail == pc' = "failed"

\* parse_args and opendir.  The first entries of /proc are no processes: 0.
OpenDir ==
    /\ pc = "start"
    /\ \/ pc' = "scan" /\ batch' = << 0 >>
       \/ "open" \in Faults /\ Fail /\ batch' = batch
    /\ UNCHANGED << env, numeric, cursor, list, children, stack, out, origin, unsorted >>

IsPidName(entry) == entry # 0

\* Whether an array of n elements has to grow, the capacity doubling from c.
Full(n, c) == n = 0 \/ \E k \in 0 .. n : n = c * 2^k

\* The rest of the loop's body when nothing is added to the list.
Skip ==
    /\ batch' = Tail(batch)
    /\ pc' = IF batch' = << >> THEN "fill" ELSE "scan"

\* The entry is no process.
SkipName ==
    /\ pc = "scan" /\ ~IsPidName(Head(batch))
    /\ Skip
    /\ UNCHANGED << env, numeric, cursor, list, children, stack, out, origin, unsorted >>

\* What read_status_file returns when the file can be opened.
HasNameAndPpid(p) == p \in DOMAIN table /\ table[p].name # 0

\* read_process fails: the process is gone, its name is blank, or fopen fails.
SkipProcess ==
    /\ pc = "scan" /\ IsPidName(Head(batch))
    /\ LET p == Head(batch)
       IN  /\ ~HasNameAndPpid(p) \/ "open" \in Faults
           /\ lived' = IF p \in DOMAIN table THEN lived \ {table[p].id} ELSE lived
    /\ Skip
    /\ UNCHANGED << table, births, used, reused, numeric, cursor, list, children, stack, out,
                    origin, unsorted >>

\* read_status_file and add_process: whoever has the pid now.
AddProcess ==
    /\ pc = "scan" /\ IsPidName(Head(batch))
    /\ LET p == Head(batch)
       IN  /\ HasNameAndPpid(p)
           /\ \/ /\ list' = Append(list, [pid |-> p, ppid |-> table[p].ppid,
                                          name |-> table[p].name])
                 /\ origin' = Append(origin, [id |-> table[p].id,
                        parent |-> IF table[p].ppid = 0 THEN 0 ELSE table[table[p].ppid].id])
                 /\ Skip
              \/ /\ "malloc" \in Faults /\ Full(Len(list), ListCap)
                 /\ Fail /\ UNCHANGED << list, origin, batch >>
    /\ UNCHANGED << env, numeric, cursor, children, stack, out, unsorted >>

(* --- the tree --------------------------------------------------------------- *)

\* find_process_index: the first entry with this pid, 0 if there is none.
FindProcessIndex(pid) == SelectInSeq(list, LAMBDA e : e.pid = pid)

\* The indices S in the order R: before the k-th there are k - 1 of them.
Ordered(S, R) ==
    [k \in 1 .. Cardinality(S) |->
        CHOOSE i \in S : Cardinality({j \in S : << j, i >> \in R}) = k - 1]

\* build_tree: an entry joins the children of the entry with its parent's pid,
\* in the order of the list.
ChildrenOf(i) == Ordered({j \in Index : FindProcessIndex(list[j].ppid) = i},
                         {p \in Index \X Index : p[1] < p[2]})

BuildTree ==
    /\ pc = "build"
    /\ \/ pc' = "sort" /\ children' = [i \in Index |-> ChildrenOf(i)]
       \/ /\ "malloc" \in Faults /\ \E i \in Index : ChildrenOf(i) # << >>
          /\ Fail /\ UNCHANGED children
    /\ UNCHANGED << env, numeric, cursor, batch, list, stack, out, origin, unsorted >>

\* compare_by_name and compare_by_pid.
Before(i, j) ==
    \/ ~numeric /\ list[i].name < list[j].name
    \/ (numeric \/ list[i].name = list[j].name) /\ list[i].pid < list[j].pid

\* Faulty variant: the children are sorted by name, whatever the option.
SortedByName(S) ==
    Ordered(S, {p \in Index \X Index :
        \/ list[p[1]].name < list[p[2]].name
        \/ list[p[1]].name = list[p[2]].name /\ list[p[1]].pid < list[p[2]].pid})

\* qsort: no two entries are equal.
Sorted(S) == Ordered(S, {p \in Index \X Index : Before(p[1], p[2])})

\* sort_tree: where malloc fails the children stay in the order of the list.
SortTree ==
    /\ pc = "sort" /\ pc' = "roots"
    /\ unsorted' \in IF "malloc" \in Faults
                     THEN SUBSET {i \in Index : Len(children[i]) >= 2} ELSE {{}}
    /\ children' = [i \in Index |-> IF i \in unsorted' THEN children[i]
                                    ELSE Sorted(Range(children[i]))]
    /\ UNCHANGED << env, numeric, cursor, batch, list, stack, out, origin >>

\* Faulty variant: a process whose parent was not read is no root.
RootsOfNobody == {i \in Index : list[i].ppid = 0}

\* Faulty variant: a process of init's is taken for one without a parent.
RootsOfInit == {i \in Index : list[i].ppid <= 1 \/ FindProcessIndex(list[i].ppid) = 0}

Roots == {i \in Index : list[i].ppid = 0 \/ FindProcessIndex(list[i].ppid) = 0}

Calls(s, depth) == [k \in 1 .. Len(s) |-> [index |-> s[k], depth |-> depth]]

\* print_forest, up to its loop.
PrintForest ==
    /\ pc = "roots"
    /\ \/ pc' = "print" /\ stack' = Calls(Sorted(Roots), 0)
       \/ "malloc" \in Faults /\ list # << >> /\ Fail /\ UNCHANGED stack
    /\ UNCHANGED << env, numeric, cursor, batch, list, children, out, origin, unsorted >>

\* Faulty variant: the children are visited after the siblings.
PrintTreeBreadth ==
    /\ pc = "print"
    /\ \/ /\ stack # << >>
          /\ out' = Append(out, Head(stack))
          /\ stack' = Tail(stack) \o Calls(children[Head(stack).index], Head(stack).depth + 1)
          /\ pc' = pc
       \/ stack = << >> /\ pc' = "ok" /\ UNCHANGED << stack, out >>
    /\ UNCHANGED << env, numeric, cursor, batch, list, children, origin, unsorted >>

\* One call of print_tree: its line, and its calls for the children.
PrintTree ==
    /\ pc = "print"
    /\ \/ /\ stack # << >>
          /\ out' = Append(out, Head(stack))
          /\ stack' = Calls(children[Head(stack).index], Head(stack).depth + 1) \o Tail(stack)
          /\ pc' = pc
       \/ stack = << >> /\ pc' = "ok" /\ UNCHANGED << stack, out >>
    /\ UNCHANGED << env, numeric, cursor, batch, list, children, origin, unsorted >>

Program == OpenDir \/ NextTgid \/ SkipName \/ SkipProcess \/ AddProcess
           \/ BuildTree \/ SortTree \/ PrintForest \/ PrintTree

Next == \/ Program
        \/ \E p, q \in Pid, n \in Name : Fork(p, q, n)
        \/ \E p \in Pid : Exit(p)

Spec == Init /\ [][Next]_vars

(* --- properties -------------------------------------------------------------- *)

\* The values of the variables; the buffer of readdir is kept to.
TypeOK ==
    /\ DOMAIN table \subseteq Pid /\ used \subseteq Pid /\ reused \in BOOLEAN
    /\ \A p \in DOMAIN table : table[p] \in [id : Ids, ppid : 0 .. MaxPid, name : Name]
    /\ births \in 0 .. MaxBirths /\ lived \subseteq Ids
    /\ pc \in {"start", "fill", "scan", "build", "sort", "roots", "print", "ok", "failed"}
    /\ numeric \in BOOLEAN /\ cursor \in 0 .. MaxPid
    /\ batch \in Seq(0 .. MaxPid) /\ Len(batch) <= BATCH
    /\ list \in Seq([pid : Pid, ppid : 0 .. MaxPid, name : Name \ {0}])
    /\ origin \in Seq([id : Ids, parent : Ids]) /\ Len(origin) = Len(list)
    /\ children \in Seq(Seq(Index)) /\ unsorted \subseteq Index
    /\ stack \in Seq([index : Index, depth : 0 .. Len(list)])
    /\ out \in Seq([index : Index, depth : 0 .. Len(list)])

\* Nothing is printed twice, whatever parents the scan recorded: the recursion
\* of print_tree visits no entry again, so it ends; and every index is one of the list.
PrintedOnce ==
    /\ TypeOK
    /\ \A k, m \in 1 .. Len(out) : out[k].index = out[m].index => k = m

\* When the program succeeds and no pid changed hands during the scan, every
\* process that was there from beginning to end is printed: the records never
\* form a loop that no root leads to.
NobodyMissing ==
    pc = "ok" /\ ~reused =>
        \A d \in lived : \E k \in 1 .. Len(out) : origin[out[k].index].id = d

\* The line another line is indented under.
Above(k) == {m \in 1 .. k - 1 : /\ out[m].depth = out[k].depth - 1
                                /\ \A x \in m + 1 .. k - 1 : out[x].depth >= out[k].depth}

\* Unless a pid changed hands, a line is indented under the process that was
\* its parent when it was read, and it stands at the margin only if that
\* process is not shown at all, although the records were read one by one.
IndentedUnderParent ==
    ~reused /\ pc \in {"print", "ok"} =>
        \A k \in 1 .. Len(out) :
            LET parent == origin[out[k].index].parent
            IN  IF out[k].depth = 0
                THEN \A i \in Index : origin[i].id # parent
                ELSE \E m \in Above(k) : origin[out[m].index].id = parent

\* Lines under the same line are in the order asked for, by name and then by
\* pid or by pid alone, unless memory for sorting them was refused.
SiblingsInOrder ==
    \A k, m \in 1 .. Len(out) :
        /\ k < m /\ out[k].depth = out[m].depth /\ Above(k) = Above(m)
        /\ \A a \in Above(k) : out[a].index \notin unsorted
        => Before(out[k].index, out[m].index)
=============================================================================
