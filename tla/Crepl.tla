-------------------------------- MODULE Crepl --------------------------------
(***************************************************************************)
(* m4/crepl.c: a line of C is written to a temporary file, compiled into a  *)
(* second one, loaded and, if it is an expression, called.                  *)
(*                                                                          *)
(* Any of the calls on the way may fail, and whatever has been made until   *)
(* then must be undone.  What a line means depends on the libraries loaded  *)
(* by earlier lines and on the order in which the dynamic linker searches   *)
(* them: crepl's own libraries, such as libc, come first.                   *)
(***************************************************************************)
EXTENDS Naturals, Sequences, FiniteSetsExt, Functions

CONSTANTS Fn, NoFn, Native, Line, \* as in Repl
          MAX_HANDLES,    \* 128
          Faults,         \* calls that may fail
          MaxLines        \* bound: lines read

ASSUME CreplAssumption ==
    /\ NoFn \notin Fn /\ MAX_HANDLES \in Nat /\ MaxLines \in Nat
    /\ DOMAIN Native \subseteq Fn
    /\ \A f \in DOMAIN Native : Native[f] \in Seq(Nat) /\ Native[f] # << >>
    /\ Line \subseteq [kind : {"blank", "function", "expression"}, fn : Fn \cup {NoFn},
                       calls : Fn \cup {NoFn}, text : Nat, compiles : BOOLEAN, dies : BOOLEAN]
    /\ Faults \subseteq {"mkstemp", "write", "fork", "cc", "wait", "dlopen", "dlsym"}

VARIABLES pc,
          line,      \* the line at work
          read,      \* lines read
          tmp,       \* the temporary files there are
          child,     \* the compiler: "none", "running", or how it ended
          libs,      \* what is loaded: id -> the code of the line
          scope,     \* ids of the libraries that are searched for symbols
          handles,   \* loaded_handles[0 .. loaded_count - 1]
          answers, reply  \* the answers given and the last one

files == << tmp, child >>
linker == << libs, scope, handles >>
vars == << pc, line, read, files, linker, answers, reply >>

Put(f, x, y) == [z \in DOMAIN f \cup {x} |-> IF z = x THEN y ELSE f[z]]
Drop(f, x) == [z \in DOMAIN f \ {x} |-> f[z]]

Init ==
    /\ pc = "read" /\ line \in {l \in Line : l.kind = "blank"} /\ read = 0
    /\ tmp = {} /\ child = "none"
    /\ libs = << >> /\ scope = {} /\ handles = << >>
    /\ answers = 0 /\ reply = [answer |-> "none", value |-> << >>]

(* --- main ------------------------------------------------------------------ *)

IsFunctionDefinition == line.kind = "function"

\* fgets, chomp and trim_left: a blank line is skipped.  Each piece of a line
\* longer than the buffer comes as a line of its own.
ReadLine(l) ==
    /\ pc = "read" /\ read < MaxLines
    /\ read' = read + 1 /\ line' = l
    /\ pc' = IF l.kind = "blank" THEN "read" ELSE "source"
    /\ UNCHANGED << files, linker, answers, reply >>

\* print_ok, printf or print_error, and on to the next line.
Answer(a, v) ==
    /\ pc' = "read" /\ answers' = answers + 1
    /\ reply' = [answer |-> a, value |-> v]
    /\ UNCHANGED << line, read >>

\* The end of the input: all functions are unloaded.
EndOfInput ==
    /\ pc = "read" /\ pc' = "exit"
    /\ libs' = [i \in DOMAIN libs \ Range(handles) |-> libs[i]]
    /\ scope' = scope \ Range(handles)
    /\ UNCHANGED << line, read, files, handles, answers, reply >>

(* --- load_function_line and eval_expression_line ---------------------------- *)

Goto(next) == pc' = next /\ UNCHANGED << line, read, answers, reply >>

\* Faulty variant: the library stays.
CleanupSource == tmp' = tmp \ {"source"}

CleanupFiles == tmp' = tmp \ {"source", "library"}

\* make_temp_path(source)
MakeSource ==
    /\ pc = "source"
    /\ \/ tmp' = tmp \cup {"source"} /\ Goto("library")
       \/ "mkstemp" \in Faults /\ tmp' = tmp /\ Answer("failed", << >>)
    /\ UNCHANGED << child, linker >>

\* make_temp_path(library)
MakeLibrary ==
    /\ pc = "library"
    /\ \/ tmp' = tmp \cup {"library"} /\ Goto("write")
       \/ "mkstemp" \in Faults /\ tmp' = tmp \ {"source"} /\ Answer("failed", << >>)
    /\ UNCHANGED << child, linker >>

WriteSource ==
    /\ pc = "write"
    /\ \/ tmp' = tmp /\ Goto("compile")
       \/ "write" \in Faults /\ CleanupFiles /\ Answer("failed", << >>)
    /\ UNCHANGED << child, linker >>

\* compile_shared_object: fork.
ForkCompiler ==
    /\ pc = "compile"
    /\ \/ child' = "running" /\ tmp' = tmp /\ Goto("wait")
       \/ "fork" \in Faults /\ child' = child /\ CleanupFiles /\ Answer("failed", << >>)
    /\ UNCHANGED linker

\* The compiler (external): it may be missing, killed, or out of space.
CompilerEnds ==
    /\ child = "running"
    /\ \/ child' = IF line.compiles THEN "0" ELSE "1"
       \/ "cc" \in Faults /\ child' = "127"
    /\ UNCHANGED << pc, line, read, tmp, linker, answers, reply >>

\* Faulty variant: waitpid is called again whatever its error is.
WaitForEver ==
    /\ pc = "wait" /\ child # "running" /\ child' = "none"
    /\ \/ child = "0" /\ tmp' = tmp /\ Goto("load")
       \/ child = "1" /\ CleanupFiles /\ Answer("ERROR", << >>)
       \/ child = "127" /\ CleanupFiles /\ Answer("failed", << >>)
       \/ "wait" \in Faults /\ tmp' = tmp /\ Goto("wait")
    /\ UNCHANGED linker

\* compile_shared_object: waitpid and the exit status.
WaitCompiler ==
    /\ pc = "wait" /\ child # "running" /\ child' = "none"
    /\ \/ child = "0" /\ tmp' = tmp /\ Goto("load")
       \/ child = "1" /\ CleanupFiles /\ Answer("ERROR", << >>)
       \/ child = "127" /\ CleanupFiles /\ Answer("failed", << >>)
       \/ "wait" \in Faults /\ CleanupFiles /\ Answer("failed", << >>)
    /\ UNCHANGED linker

(* --- the dynamic linker (external) -------------------------------------------- *)

Id == read   \* one library per line

\* The code a symbol is bound to.  The global scope begins with crepl and the
\* libraries it was started with; those opened with RTLD_GLOBAL follow in the
\* order of loading.
Defining(f) == {i \in scope : libs[i].fn = f}
Lookup(f) == IF f \in DOMAIN Native THEN Native[f]
             ELSE IF Defining(f) # {} THEN libs[Min(Defining(f))].code ELSE << >>

\* RTLD_NOW: what the line's code calls must be found now, in the libraries of
\* the global scope or, for a function, in its own.
Resolved == \/ line.calls = NoFn \/ Lookup(line.calls) # << >>
            \/ IsFunctionDefinition /\ line.calls = line.fn

Code == << line.text >> \o (IF line.calls = NoFn THEN << >> ELSE Lookup(line.calls))

Loaded == libs' = Put(libs, Id, [fn |-> line.fn, code |-> Code])

DlopenFails ==
    /\ pc = "load"
    /\ \/ ~Resolved /\ Answer("ERROR", << >>)
       \/ "dlopen" \in Faults /\ Answer("failed", << >>)
    /\ CleanupFiles
    /\ UNCHANGED << child, linker >>

(* --- load_function_line ---------------------------------------------------------- *)

TableFull == Len(handles) >= MAX_HANDLES

\* dlopen(RTLD_GLOBAL), and the handle goes into the table.
LoadFunction ==
    /\ pc = "load" /\ IsFunctionDefinition /\ Resolved /\ ~TableFull
    /\ Loaded /\ scope' = scope \cup {Id}
    /\ handles' = Append(handles, Id)
    /\ CleanupFiles /\ Answer("OK", << >>)
    /\ UNCHANGED child

\* Faulty variant: a library that has no place in the table stays loaded.
RefuseButKeep ==
    /\ pc = "load" /\ IsFunctionDefinition /\ Resolved /\ TableFull
    /\ Loaded /\ scope' = scope \cup {Id} /\ handles' = handles
    /\ CleanupFiles /\ Answer("ERROR", << >>)
    /\ UNCHANGED child

\* No place in the table: the library is loaded and closed again.
RefuseFunction ==
    /\ pc = "load" /\ IsFunctionDefinition /\ Resolved /\ TableFull
    /\ CleanupFiles /\ Answer("ERROR", << >>)
    /\ UNCHANGED << child, linker >>

(* --- eval_expression_line --------------------------------------------------------- *)

\* dlopen(RTLD_LOCAL): not searched for other libraries' symbols.
LoadExpression ==
    /\ pc = "load" /\ ~IsFunctionDefinition /\ Resolved
    /\ Loaded /\ UNCHANGED << scope, handles >>
    /\ Goto("call")
    /\ UNCHANGED files

Dlclose == libs' = Drop(libs, Id) /\ UNCHANGED << scope, handles >>

DlsymFails ==
    /\ pc = "call" /\ "dlsym" \in Faults
    /\ Dlclose /\ CleanupFiles /\ Answer("failed", << >>)
    /\ UNCHANGED child

\* symbol.function(): the value, or the end of the process, which the called
\* code may crash, exit or keep for ever.
Call ==
    /\ pc = "call"
    /\ \/ Dlclose /\ CleanupFiles /\ Answer("value", libs[Id].code)
       \/ /\ line.dies /\ pc' = "died"
          /\ UNCHANGED << line, read, tmp, linker, answers, reply >>
    /\ UNCHANGED child

Work == MakeSource \/ MakeLibrary \/ WriteSource \/ ForkCompiler \/ CompilerEnds
        \/ WaitCompiler \/ DlopenFails \/ LoadFunction \/ RefuseFunction
        \/ LoadExpression \/ DlsymFails \/ Call

Next == Work \/ EndOfInput \/ \E l \in Line : ReadLine(l)

\* The program and the compiler are scheduled, and the compiler ends; the next
\* line need not come.
Spec == Init /\ [][Next]_vars /\ WF_vars(Work)

(* --- properties ------------------------------------------------------------------- *)

\* The values of the variables; the table holds at most MAX_HANDLES functions.
TypeOK ==
    /\ pc \in {"read", "source", "library", "write", "compile", "wait", "load", "call",
               "exit", "died"}
    /\ line \in Line /\ read \in 0 .. MaxLines /\ answers \in 0 .. read
    /\ tmp \subseteq {"source", "library"} /\ child \in {"none", "running", "0", "1", "127"}
    /\ DOMAIN libs \subseteq 1 .. read
    /\ \A i \in DOMAIN libs : libs[i].fn \in Fn \cup {NoFn} /\ libs[i].code # << >>
    /\ scope \subseteq DOMAIN libs
    /\ handles \in Seq(1 .. read) /\ Len(handles) <= MAX_HANDLES
    /\ reply.answer \in {"none", "OK", "value", "ERROR", "failed"}

\* Whichever of the calls failed on the way of a line, after its answer both
\* temporary files are gone, the compiler has been waited for, and exactly the
\* accepted functions are loaded, no more than the table holds; at the end of the
\* input nothing is.
NothingLeftBehind ==
    /\ TypeOK
    /\ pc \in {"read", "exit"} => tmp = {} /\ child = "none"
    /\ pc = "read" => DOMAIN libs = Range(handles) /\ scope = Range(handles)
    /\ pc = "exit" => DOMAIN libs = {}

Over == pc \in {"exit", "died"}

Session == INSTANCE Repl WITH
    Limit <- MAX_HANDLES, accepted <- Len(handles), over <- Over,
    meaning <- [f \in Fn |-> IF Over THEN << >> ELSE Lookup(f)]

\* The session is the one Repl describes: a value is computed from what every
\* function on the way meant first - in libc, if it is there, or else in the first
\* accepted definition -, a line is answered once, and a refused one changes
\* nothing that later lines can see.
ImplementsRepl == Session!Spec

\* Every line is answered, unless the code it calls ends the program.
LineAnswered == pc = "source" ~> pc \in {"read", "died"}
=============================================================================
