-------------------------------- MODULE Repl --------------------------------
(***************************************************************************)
(* What crepl promises: a session in which functions are defined and       *)
(* expressions evaluated, line by line.                                    *)
(*                                                                         *)
(* Functions of the system's libraries are known from the start.  A        *)
(* definition is accepted if everything it calls is known, and from then   *)
(* on its name means that definition, unless it was known before: then the *)
(* definition is accepted too and changes nothing.  A refused line leaves  *)
(* no trace.                                                               *)
(***************************************************************************)
EXTENDS Naturals, Sequences

CONSTANTS Fn,      \* names of functions
          NoFn,    \* stands for: calls no function
          Native,  \* the functions of the system's libraries -> what they run
          Line,    \* what fgets may return
          Limit    \* definitions that can be accepted

VARIABLES meaning,   \* what runs for a name: definitions, a callee's after its caller's
          accepted,  \* how many definitions were accepted
          answers,   \* how many lines were answered
          reply,     \* the last answer
          over       \* the session has ended

replVars == << meaning, accepted, answers, reply, over >>

NoReply == [answer |-> "none", value |-> << >>]
Reply(a, v) == reply' = [answer |-> a, value |-> v] /\ answers' = answers + 1

Unknown == [f \in Fn |-> << >>]
Initial == [f \in Fn |-> IF f \in DOMAIN Native THEN Native[f] ELSE << >>]

Init ==
    /\ meaning = Initial /\ accepted = 0 /\ answers = 0
    /\ reply = NoReply /\ over = FALSE

\* What a line calls is known; a function may also call itself.
Known(l) == \/ l.calls = NoFn \/ meaning[l.calls] # << >>
            \/ l.kind = "function" /\ l.calls = l.fn

\* The definitions that run when the line's code is called.
Runs(l) == IF l.calls = NoFn THEN << >> ELSE meaning[l.calls]

\* The program ends and the functions with it.
End ==
    /\ over' = TRUE /\ meaning' = Unknown
    /\ UNCHANGED << accepted, answers, reply >>

Define(l) ==
    /\ ~over /\ l.kind = "function" /\ l.compiles /\ Known(l) /\ accepted < Limit
    /\ accepted' = accepted + 1
    /\ meaning' = [f \in Fn |-> IF f = l.fn /\ meaning[f] = << >>
                                THEN << l.text >> \o Runs(l) ELSE meaning[f]]
    /\ Reply("OK", << >>)
    /\ UNCHANGED over

Evaluate(l) ==
    /\ ~over /\ l.kind = "expression" /\ l.compiles /\ Known(l)
    /\ \/ Reply("value", << l.text >> \o Runs(l)) /\ UNCHANGED << meaning, over >>
       \/ l.dies /\ End
    /\ UNCHANGED accepted

\* A line that is wrong, or one for which a system call failed.
Refuse(l) ==
    /\ ~over /\ l.kind # "blank"
    /\ \/ /\ ~l.compiles \/ ~Known(l) \/ (l.kind = "function" /\ accepted = Limit)
          /\ Reply("ERROR", << >>)
       \/ Reply("failed", << >>)
    /\ UNCHANGED << meaning, accepted, over >>

Next == End \/ \E l \in Line : Define(l) \/ Evaluate(l) \/ Refuse(l)

Spec == Init /\ [][Next]_replVars
=============================================================================
