---------------------------- MODULE CreplProofs ----------------------------
(***************************************************************************)
(* Proofs about crepl for any functions and lines, any size of the table   *)
(* of handles and any of the calls failing: nothing is left behind, and    *)
(* the program implements the session of Repl.                             *)
(***************************************************************************)
EXTENDS Crepl, SequenceTheorems, WellFoundedInduction, TLAPS

\* The abbreviations for tuples of variables are always expanded.
USE DEF files, linker

----------------------------------------------------------------------------
(* The inductive invariant.                                                *)

Working == {"source", "library", "write", "compile", "wait", "load", "call"}

\* What there is on the way of a line: its temporary files, the compiler, and
\* what the compiler has said about the line.
WorkOK ==
    /\ pc \in Working => line.kind # "blank" /\ answers < read
    /\ pc \in {"read", "source", "exit"} => tmp = {}
    /\ pc = "library" => tmp = {"source"}
    /\ pc # "wait" => child = "none"
    /\ pc = "wait" => (child = "0" => line.compiles) /\ (child = "1" => ~ line.compiles)
    /\ pc \in {"load", "call"} => line.compiles

\* What is loaded: the functions of the table and, while it is called, an
\* expression; the number of a line that is not answered yet is new.
LibsOK ==
    /\ pc \in Working => \A i \in Range(handles) : i < read
    /\ pc # "exit" => scope = Range(handles)
    /\ pc = "exit" => DOMAIN libs = {} /\ scope = {}
    /\ pc \in {"call", "died"} => DOMAIN libs = Range(handles) \cup {read}
    /\ pc \notin {"call", "died", "exit"} => DOMAIN libs = Range(handles)
    /\ \A i \in DOMAIN libs : libs[i].code \in Seq(Nat)
    /\ pc = "call" => ~ IsFunctionDefinition /\ Resolved /\ libs[read].code = Code

Inv == TypeOK /\ WorkOK /\ LibsOK

----------------------------------------------------------------------------
(* The dynamic linker.                                                     *)

\* Every set of numbers that is not empty has a least one, and Min is it.
LEMMA MinIsLeast ==
    ASSUME NEW T \in SUBSET Nat, T # {}
    PROVE  Min(T) \in T /\ \A y \in T : Min(T) <= y
  <1>1. \E R : IsWellFoundedOn(R, Nat) /\ \A x, y \in Nat : y < x => <<y, x>> \in R
    <2>1. \A x, y \in Nat : y < x => <<y, x>> \in OpToRel(<, Nat)
      BY DEF OpToRel
    <2> QED BY <2>1, NatLessThanWellFounded
  <1>2. PICK R : IsWellFoundedOn(R, Nat) /\ \A x, y \in Nat : y < x => <<y, x>> \in R
    BY <1>1
  <1>3. PICK x \in T : \A y \in T : <<y, x>> \notin R
    BY <1>2, WFMin
  <1>4. \A y \in T : ~ (y < x)
    BY <1>2, <1>3
  <1>5. \A y \in T : x <= y
    BY <1>4
  <1> QED BY <1>3, <1>5 DEF Min

\* A symbol is bound to what crepl's own libraries have for it, or to the code of
\* a library that is searched after them.
LEMMA LookupBound ==
    ASSUME TypeOK, LibsOK, NEW f
    PROVE  /\ Defining(f) # {} => Min(Defining(f)) \in scope
                                  /\ \A i \in Defining(f) : Min(Defining(f)) <= i
           /\ Lookup(f) \in Seq(Nat)
           /\ Lookup(f) # << >> <=> f \in DOMAIN Native \/ Defining(f) # {}
  <1>1. Defining(f) \in SUBSET Nat /\ Defining(f) \subseteq scope
    BY DEF Defining, TypeOK
  <1>2. Defining(f) # {} => /\ Min(Defining(f)) \in Defining(f)
                            /\ \A i \in Defining(f) : Min(Defining(f)) <= i
    BY <1>1, MinIsLeast
  <1>3. \A i \in scope : libs[i].code \in Seq(Nat) /\ libs[i].code # << >>
    BY DEF TypeOK, LibsOK
  <1>4. f \in DOMAIN Native => Lookup(f) \in Seq(Nat) /\ Lookup(f) # << >>
    BY CreplAssumption DEF Lookup
  <1> QED BY <1>1, <1>2, <1>3, <1>4 DEF Lookup

\* What symbols mean changes only with the libraries that are searched.
LEMMA LookupKept ==
    ASSUME TypeOK, LibsOK, scope' = scope, \A i \in scope : libs'[i] = libs[i], NEW f
    PROVE  Lookup(f)' = Lookup(f)
  <1>1. Defining(f)' = Defining(f)
    BY DEF Defining
  <1>2. Defining(f) # {} => libs'[Min(Defining(f))] = libs[Min(Defining(f))]
    BY LookupBound
  <1> QED BY <1>1, <1>2 DEF Lookup

\* A library that is loaded later than those searched defines what was undefined,
\* and nothing else.
LEMMA LookupAdded ==
    ASSUME TypeOK, LibsOK, NEW n \in Nat, \A i \in scope : i < n,
           scope' = scope \cup {n}, \A i \in scope : libs'[i] = libs[i], NEW f
    PROVE  Lookup(f)' = IF libs'[n].fn = f /\ Lookup(f) = << >> THEN libs'[n].code
                                                                ELSE Lookup(f)
  <1>0. scope \subseteq Nat
    BY DEF TypeOK
  <1>1. Defining(f)' = Defining(f) \cup (IF libs'[n].fn = f THEN {n} ELSE {})
    BY DEF Defining
  <1>n. CASE f \in DOMAIN Native
    BY <1>n, CreplAssumption DEF Lookup
  <1>2. CASE f \notin DOMAIN Native /\ Defining(f) # {}
    <2> DEFINE m == Min(Defining(f))
    <2>1. m \in scope /\ m \in Nat /\ m < n /\ m \in Defining(f)
              /\ \A i \in Defining(f) : m <= i
      BY <1>0, <1>2, LookupBound, MinIsLeast DEF Defining
    <2>2. m \in Defining(f)' /\ \A i \in Defining(f)' : m <= i
      BY <1>1, <2>1
    <2>3. Defining(f)' \in SUBSET Nat
      BY <1>0, <1>1 DEF Defining
    <2>4. Min(Defining(f)') = m
      <3> DEFINE k == Min(Defining(f)')
      <3>1. k \in Defining(f)' /\ \A i \in Defining(f)' : k <= i
        BY <2>2, <2>3, MinIsLeast
      <3>2. k <= m /\ m <= k /\ k \in Nat
        BY <2>2, <2>3, <3>1
      <3> QED BY <2>1, <3>2
    <2>5. Lookup(f)' = libs'[m].code /\ Lookup(f) = libs[m].code
      BY <1>1, <1>2, <2>4 DEF Lookup
    <2> QED BY <1>2, <2>1, <2>5, LookupBound
  <1>3. CASE f \notin DOMAIN Native /\ Defining(f) = {} /\ libs'[n].fn = f
    <2>1. Defining(f)' = {n} /\ Lookup(f) = << >>
      BY <1>1, <1>3 DEF Lookup
    <2>2. Min({n}) = n
      <3>1. {n} \in SUBSET Nat
        OBVIOUS
      <3> QED BY <3>1, MinIsLeast
    <2> QED BY <1>3, <2>1, <2>2 DEF Lookup
  <1>4. CASE f \notin DOMAIN Native /\ Defining(f) = {} /\ libs'[n].fn # f
    BY <1>1, <1>4 DEF Lookup
  <1> QED BY <1>n, <1>2, <1>3, <1>4

\* The code of a line is its text and what the callee runs.
LEMMA CodeType ==
    ASSUME TypeOK, LibsOK
    PROVE  Code \in Seq(Nat) /\ Code # << >>
  <1>1. line.text \in Nat
    BY CreplAssumption DEF TypeOK
  <1> DEFINE c == IF line.calls = NoFn THEN << >> ELSE Lookup(line.calls)
  <1>2. c \in Seq(Nat)
    BY LookupBound
  <1> HIDE DEF c
  <1>3. << line.text >> \o c \in Seq(Nat) /\ Len(<< line.text >> \o c) = 1 + Len(c)
    BY <1>1, <1>2
  <1>4. << line.text >> \o c # << >>
    BY <1>2, <1>3
  <1> QED BY <1>3, <1>4 DEF Code, c

----------------------------------------------------------------------------
(* The invariant.                                                          *)

\* Initially nothing is there.
LEMMA InvInit == Init => Inv
  <1> SUFFICES ASSUME Init PROVE Inv
    OBVIOUS
  <1>1. Range(<< >>) = {} /\ DOMAIN libs = {}
    BY DEF Init, Range
  <1>2. TypeOK
    BY <1>1, CreplAssumption DEF Init, TypeOK
  <1>3. WorkOK
    BY DEF Init, WorkOK, Working
  <1>4. LibsOK
    BY <1>1 DEF Init, LibsOK, Working
  <1> QED BY <1>2, <1>3, <1>4 DEF Inv

\* A line that is answered, on whichever way, leaves no file and no process; what
\* is left to show is that its libraries are accounted for.
LEMMA AnswerStep ==
    ASSUME Inv, pc \in Working, NEW a \in {"OK", "value", "ERROR", "failed"}, NEW v,
           Answer(a, v), tmp' = {}, child' = "none",
           DOMAIN libs' = Range(handles'), scope' = Range(handles'),
           \A i \in DOMAIN libs' : /\ libs'[i].fn \in Fn \cup {NoFn}
                                   /\ libs'[i].code # << >> /\ libs'[i].code \in Seq(Nat),
           handles' \in Seq(1 .. read), Len(handles') <= MAX_HANDLES
    PROVE  Inv'
  <1>1. pc' = "read" /\ answers' = answers + 1 /\ reply'.answer = a /\ UNCHANGED <<line, read>>
    BY DEF Answer
  <1>2. Range(handles') \subseteq 1 .. read
    <2>1. ASSUME NEW S, NEW h \in Seq(S) PROVE Range(h) \subseteq S
      BY DEF Range
    <2> QED BY <2>1
  <1>3. answers' \in 0 .. read'
    BY <1>1, CreplAssumption DEF Inv, TypeOK, WorkOK
  <1>4. TypeOK'
    BY <1>1, <1>2, <1>3 DEF Inv, TypeOK
  <1>5. WorkOK'
    BY <1>1 DEF WorkOK, Working
  <1>6. LibsOK'
    BY <1>1 DEF LibsOK, Working
  <1> QED BY <1>4, <1>5, <1>6 DEF Inv

\* The libraries are as between two lines; so an answer that leaves them alone
\* keeps the invariant.
LEMMA FailStep ==
    ASSUME Inv, pc \in Working \ {"call"}, NEW a \in {"ERROR", "failed"},
           Answer(a, << >>), tmp' = {}, child' = "none", UNCHANGED linker
    PROVE  Inv'
  <1>1. /\ DOMAIN libs = Range(handles) /\ scope = Range(handles)
        /\ \A i \in DOMAIN libs : /\ libs[i].fn \in Fn \cup {NoFn}
                                  /\ libs[i].code # << >> /\ libs[i].code \in Seq(Nat)
        /\ handles \in Seq(1 .. read) /\ Len(handles) <= MAX_HANDLES
    BY DEF Inv, TypeOK, LibsOK, Working
  <1> QED BY <1>1, AnswerStep

\* Going on with a line, nothing being loaded.
LEMMA GotoStep ==
    ASSUME Inv, pc \in Working \ {"call"}, NEW to \in Working \ {"call"}, Goto(to),
           tmp' \subseteq {"source", "library"}, to = "library" => tmp' = {"source"},
           to # "source", to = "wait" => child' = "running", to # "wait" => child' = "none",
           to = "load" => line.compiles, UNCHANGED linker
    PROVE  Inv'
  <1>0. pc' = to /\ UNCHANGED <<line, read, answers, reply>>
    BY DEF Goto
  <1>1. TypeOK'
    BY <1>0 DEF Inv, TypeOK, Working
  <1>2. WorkOK'
    BY <1>0 DEF Inv, WorkOK, Working
  <1>3. LibsOK'
    BY <1>0 DEF Inv, LibsOK, Working
  <1> QED BY <1>1, <1>2, <1>3 DEF Inv

\* Every step keeps the invariant.
LEMMA InvStep == Inv /\ [Next]_vars => Inv'
  <1> SUFFICES ASSUME Inv, [Next]_vars PROVE Inv'
    OBVIOUS
  <1>t. tmp \subseteq {"source", "library"}
    BY DEF Inv, TypeOK
  <1>1. CASE MakeSource
    <2>1. pc = "source" /\ tmp = {} /\ child = "none"
      BY <1>1 DEF MakeSource, Inv, WorkOK
    <2>2. CASE tmp' = tmp \cup {"source"} /\ Goto("library")
      BY <1>1, <2>1, <2>2, GotoStep DEF MakeSource, Working
    <2>3. CASE tmp' = tmp /\ Answer("failed", << >>)
      BY <1>1, <2>1, <2>3, FailStep DEF MakeSource, Working
    <2> QED BY <1>1, <2>2, <2>3 DEF MakeSource
  <1>2. CASE MakeLibrary
    <2>1. pc = "library" /\ tmp = {"source"} /\ child = "none"
      BY <1>2 DEF MakeLibrary, Inv, WorkOK
    <2>2. CASE tmp' = tmp \cup {"library"} /\ Goto("write")
      BY <1>2, <2>1, <2>2, GotoStep DEF MakeLibrary, Working
    <2>3. CASE tmp' = tmp \ {"source"} /\ Answer("failed", << >>)
      <3>1. tmp' = {}
        BY <2>1, <2>3
      <3> QED BY <1>2, <2>1, <2>3, <3>1, FailStep DEF MakeLibrary, Working
    <2> QED BY <1>2, <2>2, <2>3 DEF MakeLibrary
  <1>c. CleanupFiles => tmp' = {}
    BY <1>t DEF CleanupFiles
  <1>3. CASE WriteSource
    <2>1. pc = "write" /\ child = "none"
      BY <1>3 DEF WriteSource, Inv, WorkOK
    <2>2. CASE tmp' = tmp /\ Goto("compile")
      BY <1>3, <1>t, <2>1, <2>2, GotoStep DEF WriteSource, Working
    <2>3. CASE CleanupFiles /\ Answer("failed", << >>)
      BY <1>3, <1>c, <2>1, <2>3, FailStep DEF WriteSource, Working
    <2> QED BY <1>3, <2>2, <2>3 DEF WriteSource
  <1>4. CASE ForkCompiler
    <2>1. pc = "compile" /\ child = "none"
      BY <1>4 DEF ForkCompiler, Inv, WorkOK
    <2>2. CASE child' = "running" /\ tmp' = tmp /\ Goto("wait")
      BY <1>4, <1>t, <2>1, <2>2, GotoStep DEF ForkCompiler, Working
    <2>3. CASE child' = child /\ CleanupFiles /\ Answer("failed", << >>)
      BY <1>4, <1>c, <2>1, <2>3, FailStep DEF ForkCompiler, Working
    <2> QED BY <1>4, <2>2, <2>3 DEF ForkCompiler
  <1>5. CASE CompilerEnds
    <2>1. pc = "wait" /\ UNCHANGED <<pc, line, read, tmp, linker, answers, reply>>
      BY <1>5 DEF CompilerEnds, Inv, WorkOK
    <2>2. /\ child' \in {"0", "1", "127"}
          /\ (child' = "0" => line.compiles) /\ (child' = "1" => ~ line.compiles)
      BY <1>5 DEF CompilerEnds
    <2>3. TypeOK'
      BY <2>1, <2>2 DEF Inv, TypeOK
    <2>4. WorkOK'
      BY <2>1, <2>2 DEF Inv, WorkOK, Working
    <2>5. LibsOK'
      BY <2>1 DEF Inv, LibsOK, Working
    <2> QED BY <2>3, <2>4, <2>5 DEF Inv
  <1>6. CASE WaitCompiler
    <2>1. pc = "wait" /\ child' = "none" /\ UNCHANGED linker
      BY <1>6 DEF WaitCompiler
    <2>2. CASE child = "0" /\ tmp' = tmp /\ Goto("load")
      <3>1. line.compiles
        BY <2>1, <2>2 DEF Inv, WorkOK
      <3> QED BY <1>t, <2>1, <2>2, <3>1, GotoStep DEF Working
    <2>3. CASE CleanupFiles /\ (Answer("failed", << >>) \/ Answer("ERROR", << >>))
      BY <1>c, <2>1, <2>3, FailStep DEF Working
    <2> QED BY <1>6, <2>2, <2>3 DEF WaitCompiler
  <1>7. CASE DlopenFails \/ RefuseFunction
    <2>1. pc = "load" /\ child' = "none" /\ UNCHANGED linker
      BY <1>7 DEF DlopenFails, RefuseFunction, Inv, WorkOK
    <2>2. CleanupFiles /\ (Answer("failed", << >>) \/ Answer("ERROR", << >>))
      BY <1>7 DEF DlopenFails, RefuseFunction
    <2> QED BY <1>c, <2>1, <2>2, FailStep DEF Working
  <1>8. CASE LoadFunction
    <2>1. /\ pc = "load" /\ child' = "none" /\ tmp' = {} /\ Answer("OK", << >>)
          /\ handles' = Append(handles, read) /\ scope' = scope \cup {read}
          /\ libs' = Put(libs, read, [fn |-> line.fn, code |-> Code])
      BY <1>8, <1>c DEF LoadFunction, Loaded, Id, Inv, WorkOK
    <2>2. /\ handles \in Seq(1 .. read) /\ Len(handles) < MAX_HANDLES
          /\ DOMAIN libs = Range(handles) /\ scope = Range(handles)
      BY <1>8, <2>1, CreplAssumption
         DEF LoadFunction, TableFull, Inv, TypeOK, LibsOK, Working
    <2>3. read \in 1 .. read
      BY <2>1, CreplAssumption DEF Inv, TypeOK, WorkOK, Working
    <2>4. handles' \in Seq(1 .. read) /\ Len(handles') <= MAX_HANDLES
      BY <2>1, <2>2, <2>3, CreplAssumption
    <2>5. Range(handles') = Range(handles) \cup {read}
      <3> DEFINE n == Len(handles)
      <3>1. /\ Len(handles') = n + 1 /\ handles'[n + 1] = read /\ n \in Nat
            /\ \A i \in 1 .. n : handles'[i] = handles[i]
            /\ DOMAIN handles = 1 .. n /\ DOMAIN handles' = 1 .. n + 1
        BY <2>1, <2>2, <2>3
      <3> HIDE DEF n
      <3>2. 1 .. n + 1 = (1 .. n) \cup {n + 1}
        BY <3>1
      <3> QED BY <3>1, <3>2 DEF Range
    <2>6. DOMAIN libs' = Range(handles') /\ scope' = Range(handles')
      BY <2>1, <2>2, <2>5 DEF Put
    <2>7. \A i \in DOMAIN libs' : /\ libs'[i].fn \in Fn \cup {NoFn}
                                  /\ libs'[i].code # << >> /\ libs'[i].code \in Seq(Nat)
      <3>1. line.fn \in Fn \cup {NoFn} /\ Code \in Seq(Nat) /\ Code # << >>
        BY CodeType, CreplAssumption DEF Inv, TypeOK
      <3>2. \A i \in DOMAIN libs : /\ libs[i].fn \in Fn \cup {NoFn}
                                   /\ libs[i].code # << >> /\ libs[i].code \in Seq(Nat)
        BY DEF Inv, TypeOK, LibsOK
      <3> QED BY <2>1, <3>1, <3>2 DEF Put
    <2> QED BY <2>1, <2>4, <2>6, <2>7, AnswerStep DEF Working
  <1>9. CASE LoadExpression
    <2>1. /\ pc = "load" /\ pc' = "call" /\ child = "none" /\ ~ IsFunctionDefinition
          /\ UNCHANGED <<line, read, answers, reply, files, scope, handles>> /\ Resolved
          /\ libs' = Put(libs, read, [fn |-> line.fn, code |-> Code])
      BY <1>9 DEF LoadExpression, Loaded, Id, Inv, WorkOK, Goto
    <2>2. /\ \A i \in Range(handles) : i < read
          /\ DOMAIN libs = Range(handles) /\ scope = Range(handles)
      BY <2>1 DEF Inv, LibsOK, Working
    <2>3. read \in Nat /\ read \in 1 .. read
      BY <2>1, CreplAssumption DEF Inv, TypeOK, WorkOK, Working
    <2>4. line.fn \in Fn \cup {NoFn} /\ Code \in Seq(Nat) /\ Code # << >>
      BY CodeType, CreplAssumption DEF Inv, TypeOK
    <2>5. /\ DOMAIN libs' = Range(handles) \cup {read} /\ libs'[read].code = Code
          /\ \A i \in scope : libs'[i] = libs[i]
      BY <2>1, <2>2, <2>3 DEF Put
    <2>6. \A i \in DOMAIN libs' : /\ libs'[i].fn \in Fn \cup {NoFn}
                                  /\ libs'[i].code # << >> /\ libs'[i].code \in Seq(Nat)
      <3>1. \A i \in DOMAIN libs : /\ libs[i].fn \in Fn \cup {NoFn}
                                   /\ libs[i].code # << >> /\ libs[i].code \in Seq(Nat)
        BY DEF Inv, TypeOK, LibsOK
      <3> QED BY <2>1, <2>4, <3>1 DEF Put
    <2>7. Code' = Code /\ Resolved' /\ ~ IsFunctionDefinition'
      <3>1. Lookup(line.calls)' = Lookup(line.calls)
        <4>1. line' = line /\ \A f : Lookup(f)' = Lookup(f)
          BY <2>1, <2>5, LookupKept DEF Inv
        <4> QED BY <4>1, <2>1, <2>5, LookupKept DEF Inv
      <3> QED BY <2>1, <3>1 DEF Code, Resolved, IsFunctionDefinition
    <2>8. TypeOK'
      BY <2>1, <2>2, <2>3, <2>5, <2>6 DEF Inv, TypeOK
    <2>9. WorkOK'
      BY <2>1 DEF Inv, WorkOK, Working
    <2>10. LibsOK'
      BY <2>1, <2>2, <2>5, <2>6, <2>7 DEF LibsOK, Working
    <2> QED BY <2>8, <2>9, <2>10 DEF Inv
  <1>10. CASE DlsymFails \/ Call
    <2>1. pc = "call" /\ child' = "none"
      BY <1>10 DEF DlsymFails, Call, Inv, WorkOK
    <2>2. CASE Dlclose /\ CleanupFiles /\ \E a \in {"failed", "value"} : \E v : Answer(a, v)
      <3>1. libs' = Drop(libs, read) /\ UNCHANGED <<scope, handles>>
        BY <2>2 DEF Dlclose, Id
      <3>2. /\ \A i \in Range(handles) : i < read
            /\ DOMAIN libs = Range(handles) \cup {read} /\ scope = Range(handles)
            /\ \A i \in DOMAIN libs : /\ libs[i].fn \in Fn \cup {NoFn}
                                      /\ libs[i].code # << >> /\ libs[i].code \in Seq(Nat)
            /\ handles \in Seq(1 .. read) /\ Len(handles) <= MAX_HANDLES /\ read \in Nat
        BY <2>1, CreplAssumption DEF Inv, LibsOK, TypeOK, Working
      <3>3. read \notin Range(handles)
        BY <3>2
      <3>4. DOMAIN libs' = Range(handles) /\ \A i \in DOMAIN libs' : libs'[i] = libs[i]
        BY <3>1, <3>2, <3>3 DEF Drop
      <3> QED BY <1>c, <2>1, <2>2, <3>1, <3>2, <3>4, AnswerStep DEF Working
    <2>3. CASE pc' = "died" /\ UNCHANGED <<line, read, tmp, linker, answers, reply>>
      <3>1. TypeOK'
        BY <2>1, <2>3 DEF Inv, TypeOK
      <3>2. WorkOK'
        BY <2>1, <2>3 DEF Inv, WorkOK, Working
      <3>3. LibsOK'
        BY <2>1, <2>3 DEF Inv, LibsOK, Working
      <3> QED BY <3>1, <3>2, <3>3 DEF Inv
    <2> QED BY <1>10, <2>2, <2>3 DEF DlsymFails, Call
  <1>11. CASE EndOfInput
    <2>1. /\ pc = "read" /\ pc' = "exit" /\ UNCHANGED <<line, read, files, handles, answers, reply>>
          /\ DOMAIN libs' = DOMAIN libs \ Range(handles) /\ scope' = scope \ Range(handles)
      BY <1>11 DEF EndOfInput
    <2>2. DOMAIN libs' = {} /\ scope' = {}
      BY <2>1 DEF Inv, LibsOK
    <2>3. TypeOK'
      BY <2>1, <2>2 DEF Inv, TypeOK
    <2>4. WorkOK'
      BY <2>1 DEF Inv, WorkOK, Working
    <2>5. LibsOK'
      BY <2>1, <2>2 DEF LibsOK, Working
    <2> QED BY <2>3, <2>4, <2>5 DEF Inv
  <1>12. ASSUME NEW l \in Line, ReadLine(l) PROVE Inv'
    <2>1. /\ pc = "read" /\ read' = read + 1 /\ read < MaxLines /\ line' = l
          /\ pc' = (IF l.kind = "blank" THEN "read" ELSE "source")
          /\ UNCHANGED <<files, linker, answers, reply>>
      BY <1>12 DEF ReadLine
    <2>0. read \in Nat /\ answers \in 0 .. read /\ handles \in Seq(1 .. read)
      BY CreplAssumption DEF Inv, TypeOK
    <2>2. handles \in Seq(1 .. read + 1) /\ Range(handles) \subseteq 1 .. read
      BY <2>0, SeqMonotonic DEF Range
    <2>3. TypeOK'
      BY <2>0, <2>1, <2>2, CreplAssumption DEF Inv, TypeOK
    <2>4. WorkOK'
      BY <2>0, <2>1 DEF Inv, WorkOK, Working
    <2>5. LibsOK'
      BY <2>0, <2>1, <2>2 DEF Inv, LibsOK, Working
    <2> QED BY <2>3, <2>4, <2>5 DEF Inv
  <1>13. CASE UNCHANGED vars
    <2>1. TypeOK' /\ WorkOK'
      BY <1>13 DEF vars, Inv, TypeOK, WorkOK
    <2>2. LibsOK'
      BY <1>13 DEF vars, Inv, LibsOK, Resolved, Code, Lookup, Defining, IsFunctionDefinition
    <2> QED BY <2>1, <2>2 DEF Inv
  <1> QED BY <1>1, <1>2, <1>3, <1>4, <1>5, <1>6, <1>7, <1>8, <1>9, <1>10, <1>11, <1>12,
             <1>13 DEF Next, Work

\* crepl keeps its invariant.
THEOREM Invariance == Spec => []Inv
  BY InvInit, InvStep, PTL DEF Spec

\* Whichever call failed on the way of a line, after its answer both temporary
\* files and the compiler are gone and exactly the accepted functions are loaded.
THEOREM NothingLeftTheorem == Spec => []NothingLeftBehind
  <1>1. Inv => NothingLeftBehind
    BY DEF Inv, WorkOK, LibsOK, NothingLeftBehind
  <1> QED BY <1>1, Invariance, PTL

----------------------------------------------------------------------------
(* The refinement of Repl.                                                 *)

\* What names mean in the session of Repl.
Meaning == [f \in Fn |-> IF Over THEN << >> ELSE Lookup(f)]

\* While a line is worked on, what it calls is known to the session exactly if
\* the dynamic linker resolves it, and runs the same code.
LEMMA SameMeaning ==
    ASSUME Inv, pc \in Working
    PROVE  /\ line \in Line /\ ~ Over
           /\ \A f \in Fn : Meaning[f] = Lookup(f)
           /\ Resolved <=> \/ line.calls = NoFn \/ Meaning[line.calls] # << >>
                           \/ line.kind = "function" /\ line.calls = line.fn
           /\ Code = << line.text >> \o (IF line.calls = NoFn THEN << >>
                                                              ELSE Meaning[line.calls])
  <1>1. line \in Line /\ ~ Over
    BY DEF Inv, TypeOK, Working, Over
  <1>2. \A f \in Fn : Meaning[f] = Lookup(f)
    BY <1>1 DEF Meaning
  <1>3. line.calls # NoFn => line.calls \in Fn
    BY <1>1, CreplAssumption
  <1> QED BY <1>1, <1>2, <1>3 DEF Resolved, Code, IsFunctionDefinition

\* The names keep their meaning if the libraries that are searched stay, and the
\* session neither begins nor ends.
LEMMA MeaningKept ==
    ASSUME Inv, scope' = scope, \A i \in scope : libs'[i] = libs[i], Over' = Over
    PROVE  Meaning' = Meaning
  <1>1. \A f \in Fn : Lookup(f)' = Lookup(f)
    BY LookupKept DEF Inv
  <1> QED BY <1>1 DEF Meaning

\* A line that is refused after ERROR, or failed, is refused by the session.
LEMMA RefuseSim ==
    ASSUME Inv, pc \in Working, NEW a \in {"ERROR", "failed"}, Answer(a, << >>),
           UNCHANGED <<scope, handles>>, \A i \in scope : libs'[i] = libs[i],
           a = "ERROR" => \/ ~ line.compiles \/ ~ Resolved
                          \/ IsFunctionDefinition /\ Len(handles) = MAX_HANDLES
    PROVE  Session!Refuse(line)
  <1>1. /\ ~ Over /\ ~ Over' /\ answers' = answers + 1
        /\ reply' = [answer |-> a, value |-> << >>] /\ Over' = Over
    BY DEF Answer, Over, Working
  <1>2. Meaning' = Meaning
    BY <1>1, MeaningKept
  <1>3. line.kind # "blank"
    BY DEF Inv, WorkOK
  <1>4. Resolved <=> Session!Known(line)
    BY SameMeaning DEF Session!Known, Meaning
  <1> QED BY <1>1, <1>2, <1>3, <1>4
          DEF Session!Refuse, Session!Reply, Meaning, IsFunctionDefinition

\* A step of the program that the session does not see.
LEMMA StutterSim ==
    ASSUME Inv, UNCHANGED <<scope, handles, answers, reply>>,
           \A i \in scope : libs'[i] = libs[i], Over' = Over
    PROVE  UNCHANGED Session!replVars
  <1>1. Meaning' = Meaning
    BY MeaningKept
  <1> QED BY <1>1 DEF Session!replVars, Meaning

\* A function that is accepted is defined in the session: its name means its code
\* unless it has a meaning already, since the linker prefers crepl's own libraries and
\* what it loaded first.
LEMMA DefineSim ==
    ASSUME Inv, LoadFunction
    PROVE  Session!Define(line)
  <1>1. /\ pc = "load" /\ pc' = "read" /\ ~ Over /\ Over' = Over
        /\ answers' = answers + 1 /\ reply' = [answer |-> "OK", value |-> << >>]
        /\ scope' = scope \cup {read} /\ handles' = Append(handles, read)
        /\ libs' = Put(libs, read, [fn |-> line.fn, code |-> Code])
        /\ line.kind = "function" /\ Resolved
    BY DEF LoadFunction, Loaded, Id, Answer, Over, IsFunctionDefinition
  <1>2. /\ handles \in Seq(1 .. read) /\ Len(handles) < MAX_HANDLES
        /\ read \in Nat /\ \A i \in scope : i < read
        /\ DOMAIN libs = scope /\ line.compiles
    BY <1>1, CreplAssumption
       DEF LoadFunction, TableFull, Inv, TypeOK, WorkOK, LibsOK, Working
  <1>3. Len(handles') = Len(handles) + 1
    BY <1>1, <1>2
  <1>4. /\ libs'[read] = [fn |-> line.fn, code |-> Code]
        /\ \A i \in scope : libs'[i] = libs[i]
    BY <1>1, <1>2 DEF Put
  <1>5. \A f \in Fn : Lookup(f)' = IF line.fn = f /\ Lookup(f) = << >> THEN Code ELSE Lookup(f)
    <2>1. libs'[read].fn = line.fn /\ libs'[read].code = Code
      BY <1>4
    <2> QED BY <1>1, <1>2, <1>4, <2>1, LookupAdded DEF Inv
  <1>6. /\ \A f \in Fn : Meaning[f] = Lookup(f)
        /\ Resolved <=> Session!Known(line)
        /\ Code = << line.text >> \o Session!Runs(line)
    BY <1>1, SameMeaning DEF Session!Known, Session!Runs, Meaning, Working
  <1>7. Meaning' = [f \in Fn |-> IF f = line.fn /\ Meaning[f] = << >>
                                 THEN << line.text >> \o Session!Runs(line) ELSE Meaning[f]]
    <2>1. \A f \in Fn : Meaning'[f] = Lookup(f)'
      BY <1>1 DEF Meaning
    <2>2. Meaning' = [f \in Fn |-> Meaning'[f]]
      BY DEF Meaning
    <2> HIDE DEF Meaning
    <2>3. \A f \in Fn : Meaning'[f] = IF f = line.fn /\ Meaning[f] = << >>
                                 THEN << line.text >> \o Session!Runs(line) ELSE Meaning[f]
      BY <1>5, <1>6, <2>1
    <2> QED BY <2>2, <2>3
  <1> QED BY <1>1, <1>2, <1>3, <1>6, <1>7, CreplAssumption
          DEF Session!Define, Session!Reply, Meaning

\* The initial state is one of the session's.
LEMMA InitSim == Init => Session!Init
  <1> SUFFICES ASSUME Init PROVE Session!Init
    OBVIOUS
  <1>1. ~ Over /\ Over = FALSE
    BY DEF Init, Over
  <1>2. \A f \in Fn : Lookup(f) = Session!Initial[f]
    BY DEF Init, Lookup, Defining, Session!Initial
  <1>3. Len(handles) = 0
    BY DEF Init
  <1> QED BY <1>1, <1>2, <1>3 DEF Init, Session!Init, Session!Initial, Session!NoReply

\* The end of the program is the end of the session.
LEMMA EndSim ==
    ASSUME Inv, pc' \in {"exit", "died"}, UNCHANGED <<handles, answers, reply>>
    PROVE  Session!End
  <1>1. Over' = TRUE
    BY DEF Over
  <1> QED BY <1>1 DEF Session!End, Session!Unknown

\* Every step of the program is a step of the session, or none.
LEMMA StepSim == Inv /\ [Next]_vars => [Session!Next]_(Session!replVars)
  <1> SUFFICES ASSUME Inv, [Next]_vars PROVE Session!Next \/ UNCHANGED Session!replVars
    OBVIOUS
  <1>0. pc \in Working => line \in Line
    BY SameMeaning
  <1>1. CASE EndOfInput
    BY <1>1, EndSim DEF EndOfInput, Session!Next
  <1>2. CASE LoadFunction
    BY <1>0, <1>2, DefineSim DEF LoadFunction, Working, Session!Next
  <1>3. ASSUME UNCHANGED linker, pc \in Working, Answer("failed", << >>)
        PROVE  Session!Next
    BY <1>0, <1>3, RefuseSim DEF Session!Next
  <1>4. ASSUME UNCHANGED linker, pc \in Working, pc' \in Working, UNCHANGED <<answers, reply>>
        PROVE  UNCHANGED Session!replVars
    BY <1>4, StutterSim DEF Working, Over
  <1>5. CASE MakeSource \/ MakeLibrary \/ WriteSource \/ ForkCompiler
    <2>1. UNCHANGED linker /\ pc \in Working
      BY <1>5 DEF MakeSource, MakeLibrary, WriteSource, ForkCompiler, Working
    <2>2. \/ Answer("failed", << >>)
          \/ pc' \in Working /\ UNCHANGED <<answers, reply>>
      BY <1>5 DEF MakeSource, MakeLibrary, WriteSource, ForkCompiler, Goto, Working
    <2> QED BY <1>3, <1>4, <2>1, <2>2
  <1>6. CASE CompilerEnds
    BY <1>6, <1>4, StutterSim DEF CompilerEnds, Over
  <1>7. CASE WaitCompiler
    <2>1. UNCHANGED linker /\ pc = "wait"
      BY <1>7 DEF WaitCompiler
    <2>2. CASE Goto("load")
      BY <1>4, <2>1, <2>2 DEF Goto, Working
    <2>3. CASE child = "1" /\ Answer("ERROR", << >>)
      BY <1>0, <2>1, <2>3, RefuseSim DEF Inv, WorkOK, Working, Session!Next
    <2>4. CASE Answer("failed", << >>)
      BY <1>3, <2>1, <2>4 DEF Working
    <2> QED BY <1>7, <2>2, <2>3, <2>4 DEF WaitCompiler
  <1>8. CASE DlopenFails \/ RefuseFunction
    <2>1. UNCHANGED linker /\ pc = "load" /\ pc \in Working
      BY <1>8 DEF DlopenFails, RefuseFunction, Working
    <2>2. CASE Answer("failed", << >>)
      BY <1>3, <2>1, <2>2
    <2>3. CASE Answer("ERROR", << >>) /\ ~ Resolved
      BY <1>0, <2>1, <2>3, RefuseSim DEF Session!Next
    <2>4. CASE RefuseFunction
      <3>1. IsFunctionDefinition /\ Len(handles) = MAX_HANDLES /\ Answer("ERROR", << >>)
        BY <2>4, CreplAssumption DEF RefuseFunction, TableFull, Inv, TypeOK
      <3> QED BY <1>0, <2>1, <3>1, RefuseSim DEF Session!Next
    <2>5. CASE DlopenFails
      BY <2>2, <2>3, <2>5 DEF DlopenFails
    <2> QED BY <1>8, <2>4, <2>5
  <1>9. CASE LoadExpression
    <2>1. /\ pc = "load" /\ pc' = "call" /\ UNCHANGED <<scope, handles, answers, reply>>
          /\ libs' = Put(libs, read, [fn |-> line.fn, code |-> Code])
      BY <1>9 DEF LoadExpression, Loaded, Id, Goto
    <2>2. \A i \in scope : i \in DOMAIN libs /\ i # read
      BY <2>1, CreplAssumption DEF Inv, TypeOK, LibsOK, Working
    <2>3. \A i \in scope : libs'[i] = libs[i]
      BY <2>1, <2>2 DEF Put
    <2> QED BY <2>1, <2>3, StutterSim DEF Over
  <1>10. CASE DlsymFails \/ Call
    <2>1. pc = "call" /\ pc \in Working /\ Resolved /\ ~ IsFunctionDefinition
             /\ line.compiles /\ line.kind # "blank" /\ libs[read].code = Code
      BY <1>10 DEF DlsymFails, Call, Inv, WorkOK, LibsOK, Working
    <2>2. \A i \in scope : i \in DOMAIN libs /\ i # read
      BY <2>1, CreplAssumption DEF Inv, TypeOK, LibsOK, Working
    <2>3. Dlclose => UNCHANGED <<scope, handles>> /\ \A i \in scope : libs'[i] = libs[i]
      BY <2>2 DEF Dlclose, Drop, Id
    <2>4. line.kind = "expression"
      BY <1>0, <2>1, CreplAssumption DEF IsFunctionDefinition
    <2>5. CASE Dlclose /\ Answer("failed", << >>)
      BY <1>0, <2>1, <2>3, <2>5, RefuseSim DEF Session!Next
    <2>6. CASE Dlclose /\ Answer("value", libs[Id].code)
      <3>1. /\ ~ Over /\ Over' = Over /\ answers' = answers + 1
            /\ reply' = [answer |-> "value", value |-> Code]
        BY <2>1, <2>6 DEF Answer, Over, Id
      <3>2. Meaning' = Meaning
        BY <2>3, <2>6, <3>1, MeaningKept
      <3>3. Session!Known(line) /\ Code = << line.text >> \o Session!Runs(line)
        BY <2>1, SameMeaning DEF Session!Known, Session!Runs, Meaning
      <3>4. Session!Evaluate(line)
        BY <2>1, <2>3, <2>4, <2>6, <3>1, <3>2, <3>3
           DEF Session!Evaluate, Session!Reply, Meaning
      <3> QED BY <1>0, <2>1, <3>4 DEF Session!Next
    <2>7. CASE pc' = "died" /\ UNCHANGED <<linker, answers, reply>>
      BY <2>7, EndSim DEF Session!Next
    <2> QED BY <1>10, <2>5, <2>6, <2>7 DEF DlsymFails, Call
  <1>11. ASSUME NEW l \in Line, ReadLine(l) PROVE UNCHANGED Session!replVars
    BY <1>11, StutterSim DEF ReadLine, Over
  <1>12. CASE UNCHANGED vars
    BY <1>12, StutterSim DEF vars, Over
  <1> QED BY <1>1, <1>2, <1>5, <1>6, <1>7, <1>8, <1>9, <1>10, <1>11, <1>12 DEF Next, Work

\* crepl implements the session of Repl: for any lines, any table and any faults,
\* values come from the system's libraries and the first accepted definitions, and a
\* refused line is as if it had not been read.
THEOREM ImplementsReplTheorem == Spec => ImplementsRepl
  <1>1. Inv /\ [Next]_vars => [Session!Next]_(Session!replVars)
    BY StepSim
  <1> QED BY InitSim, Invariance, <1>1, PTL DEF Spec, ImplementsRepl, Session!Spec
=============================================================================
