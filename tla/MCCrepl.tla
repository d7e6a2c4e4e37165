------------------------------ MODULE MCCrepl ------------------------------
(***************************************************************************)
(* Functions with two texts each, which call each other or themselves;     *)
(* functions with a name of libc, and one that calls such a function; a    *)
(* definition of something else, such as a variable; expressions that call *)
(* the functions; lines that do not compile.                               *)
(***************************************************************************)
EXTENDS Crepl

CONSTANTS Libc,  \* names of functions in libc, such as rand
          Own    \* names that are only the user's

LibcCode == [f \in Libc |-> << 7 >>]

Plain(k, f, c, t) == [kind |-> k, fn |-> f, calls |-> c, text |-> t,
                      compiles |-> TRUE, dies |-> FALSE]

Lines == {Plain("blank", NoFn, NoFn, 0)}
         \cup {Plain("function", f, c, t) : f \in Own, c \in Own \cup {NoFn}, t \in 1 .. 2}
         \cup {Plain("function", f, c, 1) : f \in Own, c \in Libc}
         \cup {Plain("function", f, NoFn, 1) : f \in Libc}
         \cup {Plain("function", NoFn, NoFn, 6)}
         \cup {Plain("expression", NoFn, c, 3) : c \in Fn \cup {NoFn}}
         \cup {[Plain("expression", NoFn, NoFn, 4) EXCEPT !.dies = TRUE]}
         \cup {[Plain("expression", NoFn, NoFn, 5) EXCEPT !.compiles = FALSE]}
         \cup {[Plain("function", f, NoFn, 5) EXCEPT !.compiles = FALSE] : f \in Own}
=============================================================================
