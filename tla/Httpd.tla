------------------------------- MODULE Httpd -------------------------------
(***************************************************************************)
(* The CGI server (m7/httpd.c): the main thread accepts connections and    *)
(* queues them with a sequence number; WORKERS threads answer them in any  *)
(* order, running a child process for a CGI program, and log them in the   *)
(* order of their sequence numbers.                                        *)
(*                                                                         *)
(* A critical section of queue_mu or log_mu is one step: nothing else is   *)
(* touched under either mutex.  What descriptors a child inherits, and     *)
(* keeps open until it exits, is modelled: it decides when a reader sees   *)
(* the end of a pipe and when a client sees the end of its connection.     *)
(***************************************************************************)
EXTENDS Integers, Sequences, FiniteSets, Functions

CONSTANTS Worker,      \* the worker threads; also names the child of each
          Server,      \* the server process, as the holder of a descriptor
          Outputs,     \* what a CGI program prints: see ParseCgiStatus
          Faults,      \* the system calls that may fail
          MaxClients   \* bound on the connections made

Client == 1 .. MaxClients
None   == 0           \* no client, no status, no response

ASSUME HttpdAssumption ==
    /\ Worker # {} /\ IsFiniteSet(Worker) /\ Server \notin Worker
    /\ MaxClients \in Nat
    /\ Faults \subseteq {"create", "accept", "malloc", "recv", "pipe", "fork",
                         "read", "waitpid"}
    /\ Outputs \subseteq [head : {"plain", "Status:", "HTTP/1."}, code : Nat]

VARIABLES up,          \* the server process runs
          accepted,    \* connections accepted so far: clients 1 .. accepted
          taken,       \* the client main has accepted and not yet passed on
          nextSeq, seq,         \* next_seq; client -> the seq of its request
          queue,       \* the clients from queue_head to queue_tail
          pc, cur, status,      \* worker -> its step, its request and status
          child,       \* worker -> its CGI process
          exit,        \* worker -> how that process ended and what it printed
          pipe,        \* worker -> who holds the write end of its pipe
          conn,        \* client -> who holds its connection open
          resp,        \* client -> the status in the response sent to it
          nextLogSeq, log       \* next_log_seq; the lines printed

main   == <<up, accepted, taken, nextSeq, seq, queue>>
cgi    == <<child, exit, pipe>>
logged == <<nextLogSeq, log>>
vars   == <<main, pc, cur, status, cgi, conn, resp, logged>>

Pcs == {"off", "dequeue", "wait_queue", "recv", "pipe", "fork", "close_write",
        "read", "waitpid", "send", "close", "log", "wait_log"}

InRange(code) == code \in 100 .. 599

Codes    == {200, 404, 500} \cup {o.code : o \in Outputs}
Statuses == {s \in Codes : InRange(s)}
Holders  == Worker \cup {Server}

\* A program ends with status 0 and some output, or in any other way.
Failed == [ok |-> FALSE, output |-> [head |-> "plain", code |-> 0]]
Exits  == [ok : {TRUE}, output : Outputs] \cup {Failed}

\* The values of the variables; a status in the log has three digits.
TypeOK ==
    /\ up \in BOOLEAN /\ accepted \in 0 .. MaxClients /\ taken \in Client \cup {None}
    /\ nextSeq \in Nat /\ seq \in [Client -> Nat]
    /\ queue \in Seq(Client)
    /\ pc \in [Worker -> Pcs]
    /\ cur \in [Worker -> Client \cup {None}]
    /\ status \in [Worker -> Statuses \cup {None}]
    /\ child \in [Worker -> {"none", "running", "exited"}]
    /\ exit \in [Worker -> Exits]
    /\ pipe \in [Worker -> SUBSET Holders]
    /\ conn \in [Client -> SUBSET Holders]
    /\ resp \in [Client -> Codes \cup {None}]
    /\ nextLogSeq \in Nat
    /\ log \in Seq([client : Client, status : Statuses])

Init ==
    /\ up = TRUE /\ accepted = 0 /\ taken = None /\ nextSeq = 0
    /\ seq = [c \in Client |-> 0]
    /\ queue = << >>
    /\ pc = [w \in Worker |-> "off"]
    /\ cur = [w \in Worker |-> None]
    /\ status = [w \in Worker |-> None]
    /\ child = [w \in Worker |-> "none"]
    /\ exit = [w \in Worker |-> Failed]
    /\ pipe = [w \in Worker |-> {}]
    /\ conn = [c \in Client |-> {}]
    /\ resp = [c \in Client |-> None]
    /\ nextLogSeq = 0 /\ log = << >>

Goto(w, from, to) == /\ pc[w] = from
                     /\ pc' = [pc EXCEPT ![w] = to]

----------------------------------------------------------------------------
(* The main thread.                                                        *)

\* The process exits: its threads stop and its descriptors are closed.  CGI
\* processes go on.
Shutdown ==
    /\ up' = FALSE
    /\ pc' = [w \in Worker |-> "off"]
    /\ pipe' = [w \in Worker |-> pipe[w] \ {Server}]
    /\ conn' = [c \in Client |-> conn[c] \ {Server}]
    /\ UNCHANGED <<accepted, taken, nextSeq, seq, queue, cur, status, child, exit,
                   resp, logged>>

CreateWorker(w) ==
    /\ up
    /\ Goto(w, "off", "dequeue")
    /\ UNCHANGED <<main, cur, status, cgi, conn, resp, logged>>

Listening == up /\ \A w \in Worker : pc[w] # "off"

\* pthread_create or accept fails: main returns.
MainFails == \/ up /\ "create" \in Faults /\ ~ Listening /\ Shutdown
             \/ "accept" \in Faults /\ Listening /\ taken = None /\ Shutdown

Accept ==
    /\ Listening /\ taken = None
    /\ accepted < MaxClients
    /\ accepted' = accepted + 1 /\ taken' = accepted + 1
    /\ conn' = [conn EXCEPT ![accepted + 1] = {Server}]
    /\ UNCHANGED <<up, nextSeq, seq, queue, pc, cur, status, cgi, resp, logged>>

\* Faulty variants: no signal, and a sequence number used for a request that
\* is then given up.
WakeNobody == UNCHANGED pc
UseSeq     == nextSeq' = nextSeq + 1

\* pthread_cond_signal(&queue_cv): one of the waiting workers goes on.
SignalQueue ==
    IF \E w \in Worker : pc[w] = "wait_queue"
    THEN \E w \in Worker : Goto(w, "wait_queue", "dequeue")
    ELSE UNCHANGED pc

Enqueue ==
    /\ taken # None /\ taken' = None
    /\ seq' = [seq EXCEPT ![taken] = nextSeq]
    /\ nextSeq' = nextSeq + 1
    /\ queue' = Append(queue, taken)
    /\ SignalQueue
    /\ UNCHANGED <<up, accepted, cur, status, cgi, conn, resp, logged>>

KeepSeq == nextSeq' = nextSeq

\* enqueue without memory closes the connection again.
EnqueueFails ==
    /\ "malloc" \in Faults
    /\ taken # None /\ taken' = None
    /\ conn' = [conn EXCEPT ![taken] = @ \ {Server}]
    /\ KeepSeq
    /\ UNCHANGED <<up, accepted, seq, queue, pc, cur, status, cgi, resp, logged>>

----------------------------------------------------------------------------
(* worker_main: dequeue, handle_request.                                   *)

Dequeue(w) ==
    /\ \/ /\ queue = << >>
          /\ Goto(w, "dequeue", "wait_queue")
          /\ UNCHANGED <<queue, cur>>
       \/ /\ queue # << >>
          /\ Goto(w, "dequeue", "recv")
          /\ cur' = [cur EXCEPT ![w] = Head(queue)]
          /\ queue' = Tail(queue)
    /\ UNCHANGED <<up, accepted, taken, nextSeq, seq, status, cgi, conn, resp, logged>>

\* pthread_cond_wait may return without a signal.
SpuriousWakeup(w) ==
    /\ Goto(w, "wait_queue", "dequeue") \/ Goto(w, "wait_log", "log")
    /\ UNCHANGED <<main, cur, status, cgi, conn, resp, logged>>

\* handle_request returns s, with nothing sent or after sending a response with
\* the status line r; then worker_main closes the connection.
Answer(w, s, r) == /\ status' = [status EXCEPT ![w] = s]
                   /\ resp' = [resp EXCEPT ![cur[w]] = r]
                   /\ pc' = [pc EXCEPT ![w] = IF r = None THEN "close" ELSE "send"]

\* recv returns, with a request, at the end of the connection or with an error;
\* then parse_request_line, valid_cgi_path, access.
Recv(w) ==
    /\ pc[w] = "recv"
    /\ \/ "recv" \in Faults /\ Answer(w, 500, None)
       \/ Answer(w, 500, 500)
       \/ Answer(w, 404, 404)
       \/ Goto(w, "recv", "pipe") /\ UNCHANGED <<status, resp>>
    /\ UNCHANGED <<main, cur, cgi, conn, logged>>

\* send_all returns: the client has taken the response, or is gone.
Send(w) ==
    /\ Goto(w, "send", "close")
    /\ UNCHANGED <<main, cur, status, cgi, conn, resp, logged>>

----------------------------------------------------------------------------
(* run_cgi.                                                                *)

OpenPipe(w) ==
    /\ \/ /\ Goto(w, "pipe", "fork")
          /\ pipe' = [pipe EXCEPT ![w] = {Server}]
          /\ UNCHANGED <<status, resp>>
       \/ /\ pc[w] = "pipe" /\ "pipe" \in Faults
          /\ Answer(w, 500, 500)
          /\ UNCHANGED pipe
    /\ UNCHANGED <<main, cur, child, exit, conn, logged>>

\* No descriptor is close-on-exec: the child inherits the write end of every
\* pipe and every connection the server has open, its own request's included.
Fork(w) ==
    LET Inherit(f) == [x \in DOMAIN f |-> IF Server \in f[x] THEN f[x] \cup {w}
                                                             ELSE f[x]]
    IN  /\ \/ /\ Goto(w, "fork", "close_write")
              /\ child' = [child EXCEPT ![w] = "running"]
              /\ pipe' = Inherit(pipe)
              /\ conn' = Inherit(conn)
              /\ UNCHANGED <<status, resp>>
           \/ /\ pc[w] = "fork" /\ "fork" \in Faults
              /\ pipe' = [pipe EXCEPT ![w] = @ \ {Server}]
              /\ Answer(w, 500, 500)
              /\ UNCHANGED <<child, conn>>
        /\ UNCHANGED <<main, cur, exit, logged>>

\* Faulty variant: the server keeps the write end of the pipe.
KeepWriteEnd(w) == pipe' = pipe

DropWriteEnd(w) == pipe' = [pipe EXCEPT ![w] = @ \ {Server}]

CloseWrite(w) ==
    /\ Goto(w, "close_write", "read")
    /\ DropWriteEnd(w)
    /\ UNCHANGED <<main, cur, status, child, exit, conn, resp, logged>>

\* The CGI process ends, whatever it was doing: with status 0 or not.
CgiExit(w) ==
    /\ child[w] = "running"
    /\ child' = [child EXCEPT ![w] = "exited"]
    /\ \E e \in Exits : exit' = [exit EXCEPT ![w] = e]
    /\ pipe' = [v \in Worker |-> pipe[v] \ {w}]
    /\ conn' = [c \in Client |-> conn[c] \ {w}]
    /\ UNCHANGED <<main, pc, cur, status, resp, logged>>

\* read_pipe_all returns at the end of the pipe, when nobody has the write end
\* any more; status None stands for *out == NULL.
ReadPipe(w) ==
    /\ Goto(w, "read", "waitpid")
    /\ pipe[w] = {}
    /\ status' = [status EXCEPT ![w] = 200]
    /\ UNCHANGED <<main, cur, cgi, conn, resp, logged>>

\* realloc or read fails.
ReadFails(w) ==
    /\ Goto(w, "read", "waitpid")
    /\ "read" \in Faults
    /\ UNCHANGED <<main, cur, status, cgi, conn, resp, logged>>

ParseCgiStatus(o) == IF o.head # "plain" /\ InRange(o.code) THEN o.code ELSE 200

\* The status line the client sees: the program's own if it printed one.
Line(o) == IF o.head = "HTTP/1." THEN o.code ELSE ParseCgiStatus(o)

\* A status of 500 is answered with the server's own text, also if it comes
\* from the output of the program.
WaitPid(w) ==
    /\ pc[w] = "waitpid" /\ child[w] = "exited"
    /\ child' = [child EXCEPT ![w] = "none"]
    /\ exit' = [exit EXCEPT ![w] = Failed]
    /\ LET e == exit[w]
           s == IF status[w] # None /\ e.ok THEN ParseCgiStatus(e.output) ELSE 500
       IN  \/ Answer(w, s, IF s = 500 THEN 500 ELSE Line(e.output))
           \/ "waitpid" \in Faults /\ Answer(w, 500, 500)
    /\ UNCHANGED <<main, cur, pipe, conn, logged>>

----------------------------------------------------------------------------
(* close and ordered_log.                                                  *)

CloseClient(w) ==
    /\ Goto(w, "close", "log")
    /\ conn' = [conn EXCEPT ![cur[w]] = @ \ {Server}]
    /\ UNCHANGED <<main, cur, status, cgi, resp, logged>>

\* Faulty variants: the log does not wait, or wakes nobody.
AnyTurn(w)      == TRUE
BroadcastLogNot(w) == pc' = [pc EXCEPT ![w] = "dequeue"]

MyTurn(w) == seq[cur[w]] = nextLogSeq

BroadcastLog(w) ==
    pc' = [v \in Worker |-> CASE v = w                -> "dequeue"
                              [] pc[v] = "wait_log"   -> "log"
                              [] OTHER                -> pc[v]]

OrderedLog(w) ==
    /\ pc[w] = "log"
    /\ IF MyTurn(w)
       THEN /\ log' = Append(log, [client |-> cur[w], status |-> status[w]])
            /\ nextLogSeq' = nextLogSeq + 1
            /\ BroadcastLog(w)
            /\ cur' = [cur EXCEPT ![w] = None]
            /\ status' = [status EXCEPT ![w] = None]
       ELSE /\ Goto(w, "log", "wait_log")
            /\ UNCHANGED <<log, nextLogSeq, cur, status>>
    /\ UNCHANGED <<main, cgi, conn, resp>>

----------------------------------------------------------------------------

\* What a worker does by itself, and what it can only do with its client: recv
\* and send have no timeout.
WorkerStep(w) == \/ Dequeue(w) \/ OpenPipe(w) \/ Fork(w) \/ CloseWrite(w)
                 \/ ReadPipe(w) \/ WaitPid(w) \/ CloseClient(w) \/ OrderedLog(w)
ClientStep(w) == Recv(w) \/ Send(w)

Next == \/ Accept \/ Enqueue \/ EnqueueFails \/ MainFails
        \/ \E w \in Worker : \/ CreateWorker(w) \/ WorkerStep(w) \/ ClientStep(w)
                             \/ ReadFails(w) \/ SpuriousWakeup(w) \/ CgiExit(w)

Spec == Init /\ [][Next]_vars

\* Threads that can run are scheduled.  That CGI programs end is an assumption:
\* the server has no timeout for them.  Nothing is assumed of the clients.
FairSpec == /\ Spec
            /\ WF_vars(Enqueue \/ EnqueueFails)
            /\ \A w \in Worker : /\ WF_vars(CreateWorker(w))
                                 /\ WF_vars(WorkerStep(w))
                                 /\ WF_vars(CgiExit(w))

----------------------------------------------------------------------------
(* Properties.                                                             *)

Held     == {cur[w] : w \in Worker} \ {None}
Logged   == {log[i].client : i \in DOMAIN log}
Enqueued == Range(queue) \cup Held \cup Logged

\* Every queued request is in one place only - the queue, one worker, or the
\* log - and their sequence numbers are 0 .. next_seq - 1, without a gap: a gap
\* would stop the log for ever.  Every variable has a value of its type.
OnePlace ==
    /\ TypeOK
    /\ \A i, j \in DOMAIN queue : queue[i] = queue[j] => i = j
    /\ \A v, w \in Worker : cur[v] = cur[w] /\ cur[v] # None => v = w
    /\ Range(queue) \cap Held = {} /\ (Range(queue) \cup Held) \cap Logged = {}
    /\ {seq[c] : c \in Enqueued} = 0 .. nextSeq - 1

\* The log has the requests in the order in which they were accepted, each
\* once, with the status the client was sent.  (If recv fails nothing is sent;
\* a program may print a status line with a code the server does not take.)
LogInOrder ==
    \A i \in DOMAIN log :
        /\ seq[log[i].client] = i - 1
        /\ log[i].status = resp[log[i].client]
             \/ (resp[log[i].client] = None /\ log[i].status = 500)
             \/ (~ InRange(resp[log[i].client]) /\ log[i].status = 200)

\* Workers that wait for their turn in ordered_log wait for a worker that is
\* not waiting: the request whose turn it is has left the queue.
NoLogDeadlock ==
    up /\ (\E w \in Worker : pc[w] = "wait_log")
       => \E w \in Worker : cur[w] # None /\ MyTurn(w) /\ pc[w] # "wait_log"

\* Not all workers sleep in dequeue while there are requests in the queue.
NoLostWakeup ==
    up /\ queue # << >> => \E w \in Worker : pc[w] # "wait_queue"

\* Of the two waits for a condition variable neither is for something that no
\* other worker, and no request in the queue, will bring about.
NobodyWaitsInVain == NoLogDeadlock /\ NoLostWakeup

\* The server holds a connection from accept until it is answered or given up, and
\* no longer; a child that has ended holds nothing.
DescriptorsAccounted ==
    /\ up => \A c \in Client : Server \in conn[c] <=>
                \/ c = taken \/ c \in Range(queue)
                \/ \E w \in Worker : cur[w] = c /\ pc[w] \notin {"log", "wait_log"}
    /\ up => \A w \in Worker : Server \in pipe[w] <=> pc[w] \in {"fork", "close_write"}
    /\ \A w \in Worker : child[w] # "running" =>
          /\ \A v \in Worker : w \notin pipe[v]
          /\ \A c \in Client : w \notin conn[c]

\* A client that sends its request and takes the response, or goes away: a recv
\* or send for it returns.
Attentive(c) == \A w \in Worker : WF_vars(cur[w] = c /\ ClientStep(w))

\* A client that does not send, or does not read, holds up its worker and, through
\* the ordered log, the requests accepted after its own, but none before: if the
\* clients up to c are attentive and CGI programs end, the request of c is logged
\* once it is queued, unless the server goes down, and its connection is closed for
\* good, although children keep each other's pipes and connections open.
EveryRequestEnds ==
    \A c \in Client : (\A d \in 1 .. c : Attentive(d)) =>
        /\ c \in Range(queue) ~> (c \in Logged \/ ~ up)
        /\ conn[c] # {} ~> conn[c] = {}
=============================================================================
