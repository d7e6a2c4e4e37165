-------------------------------- MODULE Sperf --------------------------------
(***************************************************************************)
(* m3/sperf.c: a command is run under strace, whose output comes through a *)
(* pipe and is summed up by system call; the shares are shown while the     *)
(* command runs and at its end.                                             *)
(*                                                                          *)
(* The write end of the pipe is inherited by strace, by the command and by  *)
(* whatever the command leaves in the background: the reader sees the end   *)
(* of the trace only when all of them are gone.                             *)
(***************************************************************************)
EXTENDS Integers, Sequences, FiniteSets, SequencesExt

CONSTANTS Lines,         \* what strace may write: [call, secs]
          MAX_SYSCALLS,  \* 512 entries of the table
          TOP,           \* 5 lines of a report
          Times,         \* what now_ms may return; 0 when the clock cannot be read
          REFRESH,       \* REFRESH_MS
          PipeCap,       \* lines that fit the pipe
          Faults,        \* "pipe", "fork", "exec", "fdopen", "getline", "wait"
          MaxTrace       \* bound: lines of a trace

\* A line without a name of a call has call 0, one without a time secs -1;
\* names are numbers in the order of strcmp.
ASSUME SperfAssumption ==
    /\ Lines \subseteq [call : Nat, secs : Nat \cup {-1}]
    /\ MAX_SYSCALLS \in Nat \ {0} /\ TOP \in Nat \ {0} /\ REFRESH \in Nat \ {0}
    /\ Times \subseteq Nat /\ PipeCap \in Nat \ {0} /\ MaxTrace \in Nat
    /\ Faults \subseteq {"pipe", "fork", "exec", "fdopen", "getline", "wait"}

VARIABLES strace, target, daemon, \* the other processes: "none", "running", ...
          writers,     \* who has the write end of the pipe
          reader,      \* the read end is open
          pipe,        \* lines written and not read
          trace,       \* history: all lines written
          cut,         \* history: getline has failed
          outcome,     \* how strace ended: an exit status, or 128 + signal
          pc, stats, printed, last,
          report,      \* the report on the screen
          code         \* the exit status of sperf

procs == << strace, target, daemon >>
world == << procs, writers, reader, pipe, trace, outcome >>
mine == << stats, printed, last, report, cut >>
vars == << world, pc, mine, code >>

NoStatus == -1

(* --- struct stats -------------------------------------------------------------- *)

\* parse_elapsed_seconds and parse_syscall_name.
Parsed(l) == l.secs >= 0 /\ l.call # 0

\* Faulty variant: generation is not counted for a new entry.
AddStatUncounted(s, name, secs) ==
    LET i == SelectInSeq(s.calls, LAMBDA c : c.name = name)
    IN  [calls |-> CASE i # 0 -> [s.calls EXCEPT ![i].seconds = @ + secs]
                     [] i = 0 /\ Len(s.calls) < MAX_SYSCALLS ->
                            Append(s.calls, [name |-> name, seconds |-> secs])
                     [] OTHER -> s.calls,
         total |-> s.total + secs,
         generation |-> IF i # 0 THEN s.generation + 1 ELSE s.generation]

\* add_stat: when the table is full only the total grows.
AddStat(s, name, secs) ==
    LET i == SelectInSeq(s.calls, LAMBDA c : c.name = name)
    IN  [calls |-> CASE i # 0 -> [s.calls EXCEPT ![i].seconds = @ + secs]
                     [] i = 0 /\ Len(s.calls) < MAX_SYSCALLS ->
                            Append(s.calls, [name |-> name, seconds |-> secs])
                     [] OTHER -> s.calls,
         total |-> s.total + secs, generation |-> s.generation + 1]

\* The comparison of pick_top.
Better(c, i, j) == \/ c[i].seconds > c[j].seconds
                   \/ c[i].seconds = c[j].seconds /\ c[i].name < c[j].name

\* Faulty variant: entries without time are not passed over.
PickTopAny(c) ==
    LET all == 1 .. Len(c)
        rounds == IF Len(c) < TOP THEN Len(c) ELSE TOP
    IN  [k \in 1 .. rounds |->
            CHOOSE i \in all : Cardinality({j \in all : Better(c, j, i)}) = k - 1]

\* pick_top: round k takes the best entry that is not used yet, which is the
\* one that k - 1 others are better than; entries without time are passed over.
PickTop(c) ==
    LET some == {i \in 1 .. Len(c) : c[i].seconds > 0}
        rounds == IF Cardinality(some) < TOP THEN Cardinality(some) ELSE TOP
    IN  [k \in 1 .. rounds |->
            CHOOSE i \in some : Cardinality({j \in some : Better(c, j, i)}) = k - 1]

\* print_report: what is shown afterwards, which is what was there before when
\* no time has been spent.
PrintReport(s) ==
    report' = IF s.total <= 0 THEN report
              ELSE LET top == PickTop(s.calls)
                   IN  [k \in 1 .. Len(top) |->
                           [name |-> s.calls[top[k]].name,
                            percent |-> (s.calls[top[k]].seconds * 100) \div s.total]]

(* --- strace and the command (external) ------------------------------------------- *)

\* child_exec: strace and the command are found and started, or exit status 127.
ChildExec ==
    /\ strace = "starting"
    /\ \/ /\ strace' = "running" /\ target' = "running"
          /\ writers' = writers \cup {"target"} /\ UNCHANGED outcome
       \/ /\ "exec" \in Faults
          /\ strace' = "ended" /\ outcome' = 127
          /\ writers' = writers \ {"strace"} /\ UNCHANGED target
    /\ UNCHANGED << daemon, reader, pipe, trace, pc, mine, code >>

\* strace writes a line; without a reader it is killed by SIGPIPE (13).
Trace(l) ==
    /\ strace = "running" /\ Len(trace) < MaxTrace
    /\ \/ /\ reader /\ Len(pipe) < PipeCap
          /\ pipe' = Append(pipe, l) /\ trace' = Append(trace, l)
          /\ UNCHANGED << strace, writers, outcome >>
       \/ /\ ~reader /\ strace' = "ended" /\ outcome' = 128 + 13
          /\ writers' = writers \ {"strace"} /\ UNCHANGED << pipe, trace >>
    /\ UNCHANGED << target, daemon, reader, pc, mine, code >>

\* The command leaves a process in the background, with the descriptor.
Background ==
    /\ target = "running" /\ daemon = "none"
    /\ daemon' = "running" /\ writers' = writers \cup {"daemon"}
    /\ UNCHANGED << strace, target, reader, pipe, trace, outcome, pc, mine, code >>

\* The command exits with a status or is killed, and strace will end likewise.
TargetEnds ==
    /\ target = "running" /\ target' = "ended" /\ writers' = writers \ {"target"}
    /\ outcome' \in IF strace = "running" THEN {3, 128 + 9} ELSE {outcome}
    /\ UNCHANGED << strace, daemon, reader, pipe, trace, pc, mine, code >>

StraceEnds ==
    /\ strace = "running" /\ target = "ended"
    /\ strace' = "ended" /\ writers' = writers \ {"strace"}
    /\ UNCHANGED << target, daemon, reader, pipe, trace, outcome, pc, mine, code >>

DaemonEnds ==
    /\ daemon = "running" /\ daemon' = "ended" /\ writers' = writers \ {"daemon"}
    /\ UNCHANGED << strace, target, reader, pipe, trace, outcome, pc, mine, code >>

(* --- run_profiler ------------------------------------------------------------------ *)

Init ==
    /\ strace = "none" /\ target = "none" /\ daemon = "none"
    /\ writers = {} /\ reader = FALSE /\ pipe = << >> /\ trace = << >>
    /\ outcome = NoStatus /\ code = NoStatus
    /\ pc = "start" /\ stats = [calls |-> << >>, total |-> 0, generation |-> 0]
    /\ printed = 0 /\ last = 0 /\ report = << >> /\ cut = FALSE

Return(c) == pc' = "done" /\ code' = c

\* pipe and fork; what was opened is closed when fork fails.
Fork ==
    /\ pc = "start"
    /\ \/ /\ pc' = "close" /\ code' = code
          /\ reader' = TRUE /\ writers' = {"sperf", "strace"} /\ strace' = "starting"
       \/ /\ Faults \cap {"pipe", "fork"} # {} /\ Return(1)
          /\ UNCHANGED << reader, writers, strace >>
    /\ UNCHANGED << target, daemon, pipe, trace, outcome, mine >>

\* Faulty variant: the write end stays open in sperf.
KeepWriteEnd == writers' = writers

CloseWriteEnd == writers' = writers \ {"sperf"}

\* close(pipe_fd[1]) and fdopen.
Fdopen ==
    /\ pc = "close" /\ CloseWriteEnd
    /\ \/ pc' = "read" /\ reader' = reader
       \/ "fdopen" \in Faults /\ pc' = "abort" /\ reader' = FALSE
    /\ UNCHANGED << procs, pipe, trace, outcome, mine, code >>

\* Whether now_ms() - since can be at least REFRESH, and whether it can be less.
\* The clock may fail or be set back: every reading of it is arbitrary.
MayBeDue(since) == {now \in Times : now - since >= REFRESH} # {}
MayBeEarly(since) == {now \in Times : now - since < REFRESH} # {}

\* The loop over the lines.
GetLine ==
    /\ pc = "read" /\ pipe # << >> /\ pipe' = Tail(pipe)
    /\ LET l == Head(pipe)
           new == IF Parsed(l) THEN AddStat(stats, l.call, l.secs) ELSE stats
       IN  /\ stats' = new
           /\ \E since \in IF Parsed(l) /\ last = 0 THEN Times ELSE {last} :
                \/ /\ since = 0 \/ MayBeEarly(since) \/ new.generation = printed
                   /\ last' = since /\ UNCHANGED << report, printed >>
                \/ /\ since # 0 /\ MayBeDue(since) /\ new.generation # printed
                   /\ PrintReport(new) /\ printed' = new.generation
                   /\ last' \in Times
    /\ UNCHANGED << procs, writers, reader, trace, outcome, pc, cut, code >>

\* getline returns -1, and the stream is closed: nothing to read and nobody left to
\* write.
EndOfTrace ==
    /\ pc = "read" /\ pipe = << >> /\ writers = {}
    /\ pc' = "wait" /\ reader' = FALSE
    /\ UNCHANGED << procs, writers, pipe, trace, outcome, mine, code >>

\* Or it returns -1 after an error, which the program takes for the end.
GetLineFails ==
    /\ pc = "read" /\ "getline" \in Faults /\ cut' = TRUE
    /\ pc' = "wait" /\ reader' = FALSE
    /\ UNCHANGED << procs, writers, pipe, trace, outcome, stats, printed, last, report, code >>

\* waitpid, the last report and the exit status, which is strace's.
Wait ==
    /\ pc = "wait" /\ strace = "ended"
    /\ \/ /\ IF stats.generation # printed THEN PrintReport(stats) ELSE UNCHANGED report
          /\ Return(outcome)
       \/ "wait" \in Faults /\ Return(1) /\ UNCHANGED report
    /\ UNCHANGED << world, stats, printed, last, cut >>

\* The end when fdopen failed.
Abort ==
    /\ pc = "abort" /\ strace = "ended"
    /\ Return(1)
    /\ UNCHANGED << world, mine >>

Profiler == Fork \/ Fdopen \/ GetLine \/ EndOfTrace \/ Wait \/ Abort

Next == \/ Profiler \/ GetLineFails \/ ChildExec \/ \E l \in Lines : Trace(l)
        \/ Background \/ TargetEnds \/ StraceEnds \/ DaemonEnds

\* sperf and strace are scheduled, and getline need not fail; how long the command
\* and what it leaves behind run is theirs to say.
Spec == Init /\ [][Next]_vars /\ WF_vars(Profiler) /\ WF_vars(ChildExec) /\ WF_vars(StraceEnds)

(* --- properties ----------------------------------------------------------------------- *)

\* The values of the variables; the table and the report have their sizes.
TypeOK ==
    /\ strace \in {"none", "starting", "running", "ended"}
    /\ target \in {"none", "running", "ended"} /\ daemon \in {"none", "running", "ended"}
    /\ writers \subseteq {"sperf", "strace", "target", "daemon"} /\ reader \in BOOLEAN /\ cut \in BOOLEAN
    /\ pipe \in Seq(Lines) /\ Len(pipe) <= PipeCap /\ trace \in Seq(Lines)
    /\ pc \in {"start", "close", "read", "wait", "abort", "done"}
    /\ stats.calls \in Seq([name : Nat \ {0}, seconds : Nat]) /\ stats.total \in Nat
    /\ Len(stats.calls) <= MAX_SYSCALLS
    /\ printed \in 0 .. stats.generation /\ last \in Times \cup {0}
    /\ report \in Seq([name : Nat, percent : 0 .. 100]) /\ Len(report) <= TOP

(* A report judged by the trace alone. *)

Calls(t) == {t[k].call : k \in {k \in 1 .. Len(t) : Parsed(t[k])}}
Sum(t, n) == MapThenSumSet(LAMBDA k : t[k].secs,
                           {k \in 1 .. Len(t) : Parsed(t[k]) /\ t[k].call \in n})
\* The calls the table has a place for are the first ones.
Placed(t) == UNION {c \in {Calls(SubSeq(t, 1, k)) : k \in 0 .. Len(t)} :
                       Cardinality(c) <= MAX_SYSCALLS}

RightReport(r, t) ==
    LET placed == Placed(t)
        whole == Sum(t, Calls(t))
        spent == [n \in placed |-> Sum(t, {n})]
        shown == {r[k].name : k \in 1 .. Len(r)}
        Above(n, m) == spent[n] > spent[m] \/ (spent[n] = spent[m] /\ n < m)
    IN  /\ shown \subseteq placed
        /\ \A k \in 1 .. Len(r) :
              /\ spent[r[k].name] > 0
              /\ r[k].percent * whole <= 100 * spent[r[k].name]
              /\ (r[k].percent + 1) * whole > 100 * spent[r[k].name]
        /\ \A j, k \in 1 .. Len(r) : j < k => Above(r[j].name, r[k].name)
        /\ \A n \in placed \ shown : spent[n] > 0 =>
              Len(r) = TOP /\ \A m \in shown : Above(m, n)

\* What is on the screen while the command runs is right for what strace had
\* written when it was printed: the calls that took most time, in order, with
\* their share of all the time, also of the calls without a place in the table; neither table nor report
\* outgrows its size.
ReportsTrue ==
    /\ TypeOK
    /\ pc = "read" /\ report # << >> =>
        RightReport(report, SubSeq(SelectSeq(trace, Parsed), 1, printed))

\* When sperf ends with the status of the command, the report on the screen is
\* that of the whole trace, however the refreshes fell; only if getline failed on
\* the way is it that of the lines read until then.
FinalReport ==
    pc = "done" /\ code # 1 =>
        RightReport(report, IF cut THEN SubSeq(trace, 1, Len(trace) - Len(pipe)) ELSE trace)

\* When the command has ended and nothing it left in the background holds the
\* pipe, sperf ends: it does not wait for itself.
EndsWithCommand ==
    /\ target # "running" /\ daemon # "running"
    /\ target = "ended" \/ strace = "ended"
    ~> pc = "done"
=============================================================================
