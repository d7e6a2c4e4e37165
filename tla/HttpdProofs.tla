---------------------------- MODULE HttpdProofs ----------------------------
(***************************************************************************)
(* Proofs about the CGI server for any number of workers and connections,  *)
(* any outputs of the CGI programs and any of the system calls failing.    *)
(***************************************************************************)
EXTENDS Httpd, SequenceTheorems, TLAPS

\* The abbreviations for tuples of variables are always expanded.
USE DEF main, cgi, logged

----------------------------------------------------------------------------
(* The inductive invariant.                                                *)

Answered == {"send", "close", "log", "wait_log"}

\* A status in the log is the one the client was sent.
Agrees(s, r) == s = r \/ (r = None /\ s = 500) \/ (~ InRange(r) /\ s = 200)

\* What a worker has, by where it is.  All workers stop with the server.
WorkerOK ==
    \A w \in Worker :
        /\ ~ up => pc[w] = "off"
        /\ pc[w] \in {"dequeue", "wait_queue"} => cur[w] = None
        /\ up /\ pc[w] = "off" => cur[w] = None
        /\ pc[w] \notin {"off", "dequeue", "wait_queue"} => cur[w] # None
        /\ pc[w] \in Answered => /\ status[w] # None
                                 /\ Agrees(status[w], resp[cur[w]])

\* The first sequence number in the queue.
Front == nextSeq - Len(queue)

\* The sequence numbers of the log, the workers and the queue follow each other:
\* 0 .. nextLogSeq - 1, nextLogSeq .. Front - 1 and Front .. nextSeq - 1.
SeqOK ==
    /\ Len(log) = nextLogSeq /\ nextLogSeq <= Front
    /\ \A i \in 1 .. Len(log) : seq[log[i].client] = i - 1
    /\ \A i \in 1 .. Len(queue) : seq[queue[i]] = Front + i - 1
    /\ \A w \in Worker : cur[w] # None => seq[cur[w]] \in nextLogSeq .. Front - 1
    /\ \A n \in nextLogSeq .. Front - 1 : \E w \in Worker : cur[w] # None /\ seq[cur[w]] = n
    /\ \A v, w \in Worker : cur[v] # None /\ cur[w] # None /\ seq[cur[v]] = seq[cur[w]]
                               => v = w

\* The clients that main has passed on are 1 .. Passed.
Passed == IF taken = None THEN accepted ELSE accepted - 1

\* A client that was not passed on yet is nowhere but with main.
AcceptedOK ==
    /\ taken # None => taken = accepted
    /\ \A i \in 1 .. Len(queue) : queue[i] <= Passed
    /\ \A w \in Worker : cur[w] <= Passed
    /\ \A i \in 1 .. Len(log) : log[i].client <= Passed

\* The log lines agree with the responses.
LogOK == \A i \in 1 .. Len(log) : Agrees(log[i].status, resp[log[i].client])

\* Nobody waits when it is its turn, nor does everybody when there is work.
WaitOK == /\ \A w \in Worker : pc[w] = "wait_log" => ~ MyTurn(w)
          /\ NoLostWakeup

Inv == TypeOK /\ WorkerOK /\ SeqOK /\ AcceptedOK /\ LogOK /\ WaitOK /\ DescriptorsAccounted

----------------------------------------------------------------------------
(* Types.                                                                  *)

\* The statuses the server makes up, and the one it takes from a program, have
\* three digits.
LEMMA StatusTypes ==
    /\ {200, 404, 500} \subseteq Statuses /\ Statuses \subseteq Codes
    /\ \A o \in Outputs : ParseCgiStatus(o) \in Statuses /\ Line(o) \in Codes
    /\ None \notin Statuses
  BY HttpdAssumption DEF Statuses, Codes, InRange, ParseCgiStatus, Line, None

\* What a failed call of the program leaves is no output; any other ending has one.
LEMMA ExitTypes == Failed \in Exits /\ \A e \in Exits : e.ok => e.output \in Outputs
  <1>1. Failed \in Exits
    BY DEF Exits
  <1>2. ~ Failed.ok
    BY DEF Failed
  <1>3. \A e \in [ok : {TRUE}, output : Outputs] : e.output \in Outputs
    OBVIOUS
  <1> QED BY <1>1, <1>2, <1>3 DEF Exits

\* Initially every variable has its type.
LEMMA TypeInit == Init => TypeOK
  BY HttpdAssumption, ExitTypes DEF Init, TypeOK, Pcs

\* An answer is a status and a status line.
LEMMA AnswerType ==
    ASSUME TypeOK, WorkerOK, NEW w \in Worker, pc[w] \in {"recv", "pipe", "fork", "waitpid"},
           NEW s \in Statuses, NEW r \in Codes \cup {None}, Answer(w, s, r)
    PROVE  /\ status' \in [Worker -> Statuses \cup {None}]
           /\ resp' \in [Client -> Codes \cup {None}]
           /\ pc' \in [Worker -> Pcs]
  BY DEF TypeOK, Answer, Pcs, WorkerOK

\* Every step keeps the types.
LEMMA TypeStep == TypeOK /\ WorkerOK /\ [Next]_vars => TypeOK'
  <1> SUFFICES ASSUME TypeOK, WorkerOK, [Next]_vars PROVE TypeOK'
    OBVIOUS
  <1> USE DEF Goto
  <1>a. {200, 404, 500} \subseteq Statuses /\ {200, 404, 500} \subseteq Codes
    BY StatusTypes
  <1>1. CASE Accept
    <2>1. accepted + 1 \in Client /\ accepted + 1 \in 0 .. MaxClients
      BY <1>1, HttpdAssumption DEF TypeOK, Accept, Client
    <2>2. conn' \in [Client -> SUBSET Holders]
      <3>1. {Server} \in SUBSET Holders
        BY DEF Holders
      <3> QED BY <1>1, <2>1, <3>1 DEF TypeOK, Accept
    <2> QED BY <1>1, <2>1, <2>2 DEF TypeOK, Accept
  <1>2. CASE Enqueue
    <2>1. taken \in Client
      BY <1>2 DEF TypeOK, Enqueue
    <2>2. pc' \in [Worker -> Pcs]
      BY <1>2 DEF TypeOK, Enqueue, SignalQueue, Pcs
    <2>3. queue' \in Seq(Client)
      BY <1>2, <2>1 DEF TypeOK, Enqueue
    <2>4. nextSeq' \in Nat /\ seq' \in [Client -> Nat] /\ taken' \in Client \cup {None}
      BY <1>2, <2>1 DEF TypeOK, Enqueue
    <2>5. UNCHANGED <<up, accepted, cur, status, cgi, conn, resp, logged>>
      BY <1>2 DEF Enqueue
    <2> QED BY <2>2, <2>3, <2>4, <2>5 DEF TypeOK
  <1>e. CASE EnqueueFails
    <2>1. conn' \in [Client -> SUBSET Holders]
      BY <1>e DEF TypeOK, EnqueueFails
    <2> QED BY <1>e, <2>1 DEF TypeOK, EnqueueFails, KeepSeq
  <1>3. CASE MainFails
    <2>1. Shutdown
      BY <1>3 DEF MainFails
    <2>2. pipe' \in [Worker -> SUBSET Holders] /\ conn' \in [Client -> SUBSET Holders]
      BY <2>1 DEF TypeOK, Shutdown
    <2>3. pc' \in [Worker -> Pcs] /\ up' \in BOOLEAN
      BY <2>1 DEF Shutdown, Pcs
    <2> QED BY <2>1, <2>2, <2>3 DEF TypeOK, Shutdown
  <1>4. ASSUME NEW w \in Worker, Dequeue(w) PROVE TypeOK'
    <2>1. CASE queue = << >>
      BY <1>4, <2>1 DEF TypeOK, Dequeue, Pcs
    <2>2. CASE queue # << >>
      <3>1. Head(queue) \in Client /\ Tail(queue) \in Seq(Client)
        BY <2>2 DEF TypeOK
      <3> QED BY <1>4, <2>2, <3>1 DEF TypeOK, Dequeue, Pcs
    <2> QED BY <2>1, <2>2
  <1>5. ASSUME NEW w \in Worker, Recv(w) PROVE TypeOK'
    <2>1. CASE \E s \in {404, 500}, r \in {None, 404, 500} : Answer(w, s, r)
      BY <1>5, <2>1, <1>a, AnswerType DEF TypeOK, Recv
    <2>2. CASE Goto(w, "recv", "pipe") /\ UNCHANGED <<status, resp>>
      BY <1>5, <2>2 DEF TypeOK, Recv, Pcs
    <2> QED BY <1>5, <2>1, <2>2 DEF Recv
  <1>6. ASSUME NEW w \in Worker, OpenPipe(w) PROVE TypeOK'
    <2>1. CASE pc[w] = "pipe" /\ Answer(w, 500, 500) /\ UNCHANGED pipe
      BY <1>6, <2>1, <1>a, AnswerType DEF TypeOK, OpenPipe
    <2>2. CASE Goto(w, "pipe", "fork") /\ pipe' = [pipe EXCEPT ![w] = {Server}]
                  /\ UNCHANGED <<status, resp>>
      BY <1>6, <2>2 DEF TypeOK, OpenPipe, Pcs, Holders
    <2> QED BY <1>6, <2>1, <2>2 DEF OpenPipe
  <1>7. ASSUME NEW w \in Worker, Fork(w) PROVE TypeOK'
    <2>1. pipe' \in [Worker -> SUBSET Holders] /\ conn' \in [Client -> SUBSET Holders]
      <3> DEFINE Inherit(f) == [x \in DOMAIN f |-> IF Server \in f[x] THEN f[x] \cup {w}
                                                                      ELSE f[x]]
      <3>1. CASE pipe' = Inherit(pipe) /\ conn' = Inherit(conn)
        <4>1. ASSUME NEW S, NEW f \in [S -> SUBSET Holders]
              PROVE  Inherit(f) \in [S -> SUBSET Holders]
          BY DEF Holders
        <4> HIDE DEF Inherit
        <4> QED BY <3>1, <4>1 DEF TypeOK
      <3>2. CASE UNCHANGED <<child, conn>> /\ pipe' = [pipe EXCEPT ![w] = @ \ {Server}]
        BY <3>2 DEF TypeOK
      <3> QED BY <1>7, <3>1, <3>2 DEF Fork
    <2>2. child' \in [Worker -> {"none", "running", "exited"}]
      BY <1>7 DEF TypeOK, Fork
    <2>3. /\ status' \in [Worker -> Statuses \cup {None}]
          /\ resp' \in [Client -> Codes \cup {None}]
          /\ pc' \in [Worker -> Pcs]
      <3>1. CASE pc[w] = "fork" /\ Answer(w, 500, 500)
        BY <3>1, <1>a, AnswerType
      <3>2. CASE Goto(w, "fork", "close_write") /\ UNCHANGED <<status, resp>>
        BY <3>2 DEF TypeOK, Pcs
      <3> QED BY <1>7, <3>1, <3>2 DEF Fork
    <2> QED BY <1>7, <2>1, <2>2, <2>3 DEF TypeOK, Fork
  <1>8. ASSUME NEW w \in Worker, CloseWrite(w) \/ CreateWorker(w) \/ SpuriousWakeup(w)
                                   \/ ReadFails(w) \/ Send(w)
        PROVE  TypeOK'
    BY <1>8 DEF TypeOK, CloseWrite, DropWriteEnd, CreateWorker, SpuriousWakeup,
                ReadFails, Send, Pcs
  <1>9. ASSUME NEW w \in Worker, ReadPipe(w) PROVE TypeOK'
    BY <1>9, <1>a DEF TypeOK, ReadPipe, Pcs
  <1>10. ASSUME NEW w \in Worker, WaitPid(w) PROVE TypeOK'
    <2> DEFINE s == IF status[w] # None /\ exit[w].ok
                    THEN ParseCgiStatus(exit[w].output) ELSE 500
               r == IF s = 500 THEN 500 ELSE Line(exit[w].output)
    <2>1. exit[w] \in Exits
      BY DEF TypeOK
    <2>2. s \in Statuses /\ r \in Codes
      BY <2>1, <1>a, StatusTypes, ExitTypes
    <2>3. pc[w] = "waitpid" /\ (Answer(w, s, r) \/ Answer(w, 500, 500))
      BY <1>10 DEF WaitPid
    <2> HIDE DEF s, r
    <2>4. /\ status' \in [Worker -> Statuses \cup {None}]
          /\ resp' \in [Client -> Codes \cup {None}]
          /\ pc' \in [Worker -> Pcs]
      BY <2>2, <2>3, <1>a, AnswerType
    <2> QED BY <1>10, <2>4, ExitTypes DEF TypeOK, WaitPid
  <1>11. ASSUME NEW w \in Worker, CloseClient(w) PROVE TypeOK'
    BY <1>11 DEF TypeOK, CloseClient, Pcs, WorkerOK
  <1>12. ASSUME NEW w \in Worker, OrderedLog(w) PROVE TypeOK'
    <2>1. CASE MyTurn(w)
      <3> DEFINE l == [client |-> cur[w], status |-> status[w]]
                 L == [client : Client, status : Statuses]
      <3>1. l \in L
        BY <1>12 DEF TypeOK, OrderedLog, WorkerOK, Answered
      <3>2. log \in Seq(L) /\ log' = Append(log, l)
        BY <1>12, <2>1 DEF TypeOK, OrderedLog
      <3> HIDE DEF l, L
      <3>4. log' \in Seq(L)
        BY <3>1, <3>2
      <3>3. pc' \in [Worker -> Pcs]
        BY <1>12, <2>1 DEF TypeOK, OrderedLog, BroadcastLog, Pcs
      <3>5. /\ nextLogSeq' \in Nat /\ cur' \in [Worker -> Client \cup {None}]
            /\ status' \in [Worker -> Statuses \cup {None}]
        <4>1. /\ nextLogSeq' = nextLogSeq + 1 /\ cur' = [cur EXCEPT ![w] = None]
              /\ status' = [status EXCEPT ![w] = None]
          BY <1>12, <2>1 DEF OrderedLog
        <4> QED BY <4>1 DEF TypeOK
      <3> QED BY <1>12, <3>3, <3>4, <3>5 DEF TypeOK, OrderedLog, L
    <2>2. CASE ~ MyTurn(w)
      BY <1>12, <2>2 DEF TypeOK, OrderedLog, Pcs
    <2> QED BY <2>1, <2>2
  <1>13. ASSUME NEW w \in Worker, CgiExit(w) PROVE TypeOK'
    BY <1>13 DEF TypeOK, CgiExit
  <1>14. CASE UNCHANGED vars
    BY <1>14 DEF TypeOK, vars
  <1> QED BY <1>1, <1>2, <1>e, <1>3, <1>4, <1>5, <1>6, <1>7, <1>8, <1>9, <1>10, <1>11,
             <1>12, <1>13, <1>14 DEF Next, WorkerStep, ClientStep

----------------------------------------------------------------------------
(* Workers.                                                                *)

\* Two workers never have the same request.
LEMMA OneWorker ==
    ASSUME TypeOK, SeqOK, NEW v \in Worker, NEW w \in Worker, cur[v] = cur[w], cur[v] # None
    PROVE  v = w
  BY DEF SeqOK

\* What a worker answers and logs agrees with what it sent, and nobody else has
\* its request.
LEMMA AnswerOK ==
    ASSUME TypeOK, WorkerOK, SeqOK, NEW w \in Worker,
           pc[w] \in {"recv", "pipe", "fork", "waitpid"},
           NEW s \in Statuses, NEW r \in Codes \cup {None}, Agrees(s, r),
           Answer(w, s, r), UNCHANGED <<up, cur>>
    PROVE  WorkerOK'
  <1> SUFFICES ASSUME NEW u \in Worker PROVE WorkerOK!(u)'
    BY DEF WorkerOK
  <1>0. cur[w] \in Client
    BY DEF TypeOK, WorkerOK
  <1>a. None \notin Statuses
    BY StatusTypes
  <1>1. CASE u = w
    BY <1>0, <1>a, <1>1 DEF TypeOK, WorkerOK, Answer, Answered
  <1>2. CASE u # w
    <2>1. pc'[u] = pc[u] /\ status'[u] = status[u]
      BY <1>2 DEF Answer, TypeOK
    <2>2. cur[u] # None => cur[u] # cur[w] /\ resp'[cur[u]] = resp[cur[u]]
      BY <1>2, OneWorker DEF Answer, TypeOK
    <2> QED BY <2>1, <2>2 DEF WorkerOK, Answered
  <1> QED BY <1>1, <1>2

\* A program's status is logged as it is sent, or the program printed a status
\* line with a code the server does not take.
LEMMA CgiAgrees == \A o \in Outputs : Agrees(ParseCgiStatus(o), Line(o))
  BY HttpdAssumption DEF Agrees, ParseCgiStatus, Line, InRange, None

\* Every step keeps what the workers have.
LEMMA WorkerOKStep == TypeOK /\ WorkerOK /\ SeqOK /\ [Next]_vars => WorkerOK'
  <1> SUFFICES ASSUME TypeOK, WorkerOK, SeqOK, [Next]_vars PROVE WorkerOK'
    OBVIOUS
  <1> USE DEF Goto
  <1>a. {200, 404, 500} \subseteq Statuses /\ {200, 404, 500} \subseteq Codes
    BY StatusTypes
  <1>b. Agrees(500, None) /\ Agrees(500, 500) /\ Agrees(404, 404)
    BY DEF Agrees, None
  <1>1. CASE Enqueue
    BY <1>1 DEF TypeOK, WorkerOK, Answered, Enqueue, SignalQueue
  <1>2. CASE Accept \/ EnqueueFails
    BY <1>2 DEF TypeOK, WorkerOK, Answered, Accept, EnqueueFails
  <1>3. CASE MainFails
    BY <1>3 DEF TypeOK, WorkerOK, Answered, MainFails, Shutdown
  <1>4. ASSUME NEW w \in Worker, Dequeue(w) PROVE WorkerOK'
    <2>1. CASE queue = << >>
      BY <1>4, <2>1 DEF TypeOK, WorkerOK, Answered, Dequeue
    <2>2. CASE queue # << >>
      <3>1. Head(queue) \in Client /\ Head(queue) # None
        BY <2>2, HttpdAssumption DEF TypeOK, None, Client
      <3> QED BY <1>4, <2>2, <3>1 DEF TypeOK, WorkerOK, Answered, Dequeue
    <2> QED BY <2>1, <2>2
  <1>5. ASSUME NEW w \in Worker, Recv(w) PROVE WorkerOK'
    <2>1. CASE \/ Answer(w, 500, None)
               \/ Answer(w, 500, 500)
               \/ Answer(w, 404, 404)
      BY <1>5, <2>1, <1>a, <1>b, AnswerOK DEF Recv
    <2>2. CASE Goto(w, "recv", "pipe") /\ UNCHANGED <<status, resp>>
      BY <1>5, <2>2 DEF TypeOK, WorkerOK, Answered, Recv
    <2> QED BY <1>5, <2>1, <2>2 DEF Recv
  <1>6. ASSUME NEW w \in Worker, OpenPipe(w) PROVE WorkerOK'
    <2>1. CASE pc[w] = "pipe" /\ Answer(w, 500, 500)
      BY <1>6, <2>1, <1>a, <1>b, AnswerOK DEF OpenPipe
    <2>2. CASE Goto(w, "pipe", "fork") /\ UNCHANGED <<status, resp>>
      BY <1>6, <2>2 DEF TypeOK, WorkerOK, Answered, OpenPipe
    <2> QED BY <1>6, <2>1, <2>2 DEF OpenPipe
  <1>7. ASSUME NEW w \in Worker, Fork(w) PROVE WorkerOK'
    <2>1. CASE pc[w] = "fork" /\ Answer(w, 500, 500)
      BY <1>7, <2>1, <1>a, <1>b, AnswerOK DEF Fork
    <2>2. CASE Goto(w, "fork", "close_write") /\ UNCHANGED <<status, resp>>
      BY <1>7, <2>2 DEF TypeOK, WorkerOK, Answered, Fork
    <2> QED BY <1>7, <2>1, <2>2 DEF Fork
  <1>8. ASSUME NEW w \in Worker, CloseWrite(w) \/ ReadPipe(w) \/ ReadFails(w)
        PROVE  WorkerOK'
    BY <1>8 DEF TypeOK, WorkerOK, Answered, CloseWrite, ReadPipe, ReadFails
  <1>9. ASSUME NEW w \in Worker, \/ CreateWorker(w) \/ SpuriousWakeup(w)
                                \/ CloseClient(w) \/ Send(w)
        PROVE  WorkerOK'
    BY <1>9 DEF TypeOK, WorkerOK, Answered, CreateWorker, SpuriousWakeup, CloseClient, Send
  <1>10. ASSUME NEW w \in Worker, WaitPid(w) PROVE WorkerOK'
    <2> DEFINE s == IF status[w] # None /\ exit[w].ok
                    THEN ParseCgiStatus(exit[w].output) ELSE 500
               r == IF s = 500 THEN 500 ELSE Line(exit[w].output)
    <2>1. exit[w] \in Exits
      BY DEF TypeOK
    <2>2. s \in Statuses /\ r \in Codes /\ Agrees(s, r)
      BY <2>1, <1>a, <1>b, StatusTypes, ExitTypes, CgiAgrees
    <2>3. pc[w] = "waitpid" /\ (Answer(w, s, r) \/ Answer(w, 500, 500))
      BY <1>10 DEF WaitPid
    <2> HIDE DEF s, r
    <2> QED BY <1>10, <2>2, <2>3, <1>a, <1>b, AnswerOK DEF WaitPid
  <1>11. ASSUME NEW w \in Worker, OrderedLog(w) PROVE WorkerOK'
    <2>1. CASE MyTurn(w)
      BY <1>11, <2>1 DEF TypeOK, WorkerOK, Answered, OrderedLog, BroadcastLog
    <2>2. CASE ~ MyTurn(w)
      BY <1>11, <2>2 DEF TypeOK, WorkerOK, Answered, OrderedLog
    <2> QED BY <2>1, <2>2
  <1>12. ASSUME NEW w \in Worker, CgiExit(w) PROVE WorkerOK'
    BY <1>12 DEF WorkerOK, Answered, CgiExit
  <1>13. CASE UNCHANGED vars
    BY <1>13 DEF WorkerOK, Answered, vars
  <1> QED BY <1>1, <1>2, <1>3, <1>4, <1>5, <1>6, <1>7, <1>8, <1>9, <1>10, <1>11,
             <1>12, <1>13 DEF Next, WorkerStep, ClientStep

----------------------------------------------------------------------------
(* Sequence numbers.                                                       *)

places == <<accepted, taken, nextSeq, seq, queue, cur, logged>>

\* Only these steps move a request from one place to another.
LEMMA Moves ==
    ASSUME [Next]_vars
    PROVE  \/ Accept \/ Enqueue \/ EnqueueFails
           \/ \E w \in Worker : Dequeue(w) \/ OrderedLog(w)
           \/ UNCHANGED places
  BY DEF Next, WorkerStep, ClientStep, vars, places, MainFails, Shutdown, CreateWorker,
         Recv, Send, OpenPipe, Fork, CloseWrite, ReadPipe, WaitPid, CloseClient, ReadFails, SpuriousWakeup, CgiExit

\* The numbers and the clients that the sequence numbers are about.
LEMMA Ranges ==
    ASSUME TypeOK
    PROVE  /\ Len(queue) \in Nat /\ Len(log) \in Nat /\ accepted \in Nat
           /\ nextSeq \in Nat /\ nextLogSeq \in Nat
           /\ \A c \in Client : c \in Nat /\ c # None /\ seq[c] \in Nat
           /\ \A i \in 1 .. Len(queue) : queue[i] \in Client
           /\ \A i \in 1 .. Len(log) : log[i].client \in Client
           /\ \A w \in Worker : cur[w] \in Client \cup {None}
  <1>1. accepted \in Nat /\ nextSeq \in Nat /\ nextLogSeq \in Nat
    BY HttpdAssumption DEF TypeOK
  <1>2. \A c \in Client : c \in Nat /\ c # None /\ seq[c] \in Nat
    BY HttpdAssumption DEF TypeOK, Client, None
  <1>3. Len(queue) \in Nat /\ \A i \in 1 .. Len(queue) : queue[i] \in Client
    BY DEF TypeOK
  <1>4. Len(log) \in Nat /\ \A i \in 1 .. Len(log) : log[i].client \in Client
    <2> DEFINE L == [client : Client, status : Statuses]
    <2>1. log \in Seq(L) /\ \A l \in L : l.client \in Client
      BY DEF TypeOK
    <2> HIDE DEF L
    <2> QED BY <2>1
  <1>5. \A w \in Worker : cur[w] \in Client \cup {None}
    BY DEF TypeOK
  <1> QED BY <1>1, <1>2, <1>3, <1>4, <1>5

\* What main has passed on is a number, and the client it has is the next one.
LEMMA PassedNat ==
    ASSUME TypeOK, AcceptedOK
    PROVE  /\ Passed \in Nat
           /\ taken # None => taken \in Client /\ taken = Passed + 1
  BY HttpdAssumption DEF TypeOK, AcceptedOK, Passed, Client

\* A new request is put at the end of the queue.
LEMMA EnqueueStep ==
    ASSUME TypeOK, AcceptedOK, Enqueue
    PROVE  /\ taken \in Client /\ taken = Passed + 1 /\ Passed' = taken /\ Passed \in Nat
           /\ nextSeq' = nextSeq + 1
           /\ Len(queue') = Len(queue) + 1 /\ queue'[Len(queue) + 1] = taken
           /\ \A i \in 1 .. Len(queue) : queue'[i] = queue[i]
           /\ seq'[taken] = nextSeq
           /\ \A c \in Client : c <= Passed => seq'[c] = seq[c]
           /\ UNCHANGED <<cur, logged>> /\ taken' = None
  <1>0. taken # None /\ taken' = None /\ accepted' = accepted
    BY DEF Enqueue
  <1>1. taken \in Client /\ taken = Passed + 1 /\ Passed \in Nat
    BY <1>0, PassedNat
  <1>2. queue \in Seq(Client) /\ queue' = Append(queue, taken)
    BY DEF TypeOK, Enqueue
  <1>3. /\ Len(queue') = Len(queue) + 1 /\ queue'[Len(queue) + 1] = taken
        /\ \A i \in 1 .. Len(queue) : queue'[i] = queue[i]
    BY <1>1, <1>2
  <1>4. seq' = [seq EXCEPT ![taken] = nextSeq]
    BY DEF Enqueue
  <1>5. /\ seq'[taken] = nextSeq
        /\ \A c \in Client : c <= Passed => seq'[c] = seq[c]
    BY <1>1, <1>4, HttpdAssumption DEF TypeOK, Client
  <1>6. Passed' = taken
    BY <1>0 DEF Passed, AcceptedOK
  <1> QED BY <1>0, <1>1, <1>3, <1>5, <1>6 DEF Enqueue

\* The first request of the queue goes to the worker.
LEMMA DequeueStep ==
    ASSUME TypeOK, NEW w \in Worker, Dequeue(w)
    PROVE  \/ queue = << >> /\ UNCHANGED <<queue, cur>>
           \/ /\ Len(queue) > 0 /\ Len(queue') = Len(queue) - 1
              /\ \A i \in 1 .. Len(queue') : queue'[i] = queue[i + 1]
              /\ queue[1] \in Client /\ cur' = [cur EXCEPT ![w] = queue[1]]
  <1>1. queue \in Seq(Client)
    BY DEF TypeOK
  <1>2. CASE queue = << >>
    BY <1>2 DEF Dequeue
  <1>3. CASE queue # << >>
    <2>1. queue' = Tail(queue) /\ cur' = [cur EXCEPT ![w] = Head(queue)]
      BY <1>3 DEF Dequeue
    <2> QED BY <1>1, <1>3, <2>1
  <1> QED BY <1>2, <1>3

\* The request whose turn it is becomes the last line of the log.
LEMMA LogStep ==
    ASSUME TypeOK, NEW w \in Worker, OrderedLog(w), MyTurn(w)
    PROVE  /\ nextLogSeq' = nextLogSeq + 1 /\ Len(log') = Len(log) + 1
           /\ \A i \in 1 .. Len(log) : log'[i] = log[i]
           /\ log'[Len(log) + 1].client = cur[w] /\ log'[Len(log) + 1].status = status[w]
           /\ cur' = [cur EXCEPT ![w] = None]
  <1> DEFINE l == [client |-> cur[w], status |-> status[w]]
  <1>1. log' = Append(log, l) /\ \E L : log \in Seq(L)
    BY DEF OrderedLog, TypeOK
  <1> HIDE DEF l
  <1>2. /\ Len(log') = Len(log) + 1 /\ log'[Len(log) + 1] = l
        /\ \A i \in 1 .. Len(log) : log'[i] = log[i]
    BY <1>1
  <1>3. l.client = cur[w] /\ l.status = status[w]
    BY DEF l
  <1> QED BY <1>2, <1>3 DEF OrderedLog

\* Every step keeps the clients that were not accepted out.
LEMMA AcceptedStep == TypeOK /\ AcceptedOK /\ WorkerOK /\ [Next]_vars => AcceptedOK'
  <1> SUFFICES ASSUME TypeOK, AcceptedOK, WorkerOK, [Next]_vars PROVE AcceptedOK'
    OBVIOUS
  <1>0. /\ Len(queue) \in Nat /\ Len(log) \in Nat /\ accepted \in Nat
        /\ nextSeq \in Nat /\ nextLogSeq \in Nat
        /\ \A c \in Client : c \in Nat /\ c # None /\ seq[c] \in Nat
        /\ \A i \in 1 .. Len(queue) : queue[i] \in Client
        /\ \A i \in 1 .. Len(log) : log[i].client \in Client
        /\ \A w \in Worker : cur[w] \in Client \cup {None}
    BY Ranges
  <1>1. CASE Enqueue
    <2>0. /\ taken \in Client /\ taken = Passed + 1 /\ Passed' = taken /\ Passed \in Nat
          /\ nextSeq' = nextSeq + 1 /\ taken' = None
          /\ Len(queue') = Len(queue) + 1 /\ queue'[Len(queue) + 1] = taken
          /\ \A i \in 1 .. Len(queue) : queue'[i] = queue[i]
          /\ seq'[taken] = nextSeq
          /\ \A c \in Client : c <= Passed => seq'[c] = seq[c]
          /\ UNCHANGED <<cur, logged>>
      BY <1>1, EnqueueStep
    <2>1. /\ \A i \in 1 .. Len(queue) : queue[i] <= taken
          /\ \A w \in Worker : cur[w] <= taken
          /\ \A i \in 1 .. Len(log) : log[i].client <= taken
      <3>1. /\ \A i \in 1 .. Len(queue) : queue[i] <= Passed
            /\ \A w \in Worker : cur[w] <= Passed
            /\ \A i \in 1 .. Len(log) : log[i].client <= Passed
        BY DEF AcceptedOK
      <3> HIDE DEF Passed
      <3>2. \A w \in Worker : cur[w] \in Nat
        BY <1>0 DEF None, Client
      <3>3. \A n \in Nat : n <= Passed => n <= taken
        BY <2>0
      <3>4. /\ \A i \in 1 .. Len(queue) : queue[i] \in Nat
            /\ \A i \in 1 .. Len(log) : log[i].client \in Nat
        BY <1>0
      <3> QED BY <3>1, <3>2, <3>3, <3>4
    <2>2. \A i \in 1 .. Len(queue') : queue'[i] <= taken
      <3>1. \A i \in 1 .. Len(queue') : i \in 1 .. Len(queue) \/ i = Len(queue) + 1
        BY <1>0, <2>0
      <3> QED BY <1>0, <2>0, <2>1, <3>1
    <2> QED BY <2>0, <2>1, <2>2 DEF AcceptedOK
  <1>p. Passed \in Nat /\ (taken # None => taken = Passed + 1)
    BY PassedNat
  <1>2. CASE Accept \/ EnqueueFails
    <2>1. /\ UNCHANGED <<queue, cur, logged>> /\ (taken' # None => taken' = accepted')
          /\ Passed' \in Nat /\ Passed <= Passed'
      <3>1. CASE Accept
        <4>1. taken = None /\ taken' = accepted + 1 /\ accepted' = accepted + 1 /\ taken' # None
          BY <1>0, <3>1 DEF Accept, None
        <4>2. Passed = accepted /\ Passed' = accepted
          BY <1>0, <4>1 DEF Passed
        <4> QED BY <1>0, <3>1, <4>1, <4>2 DEF Accept
      <3>2. CASE EnqueueFails
        <4>1. taken # None /\ taken' = None /\ accepted' = accepted /\ taken = accepted
          BY <3>2 DEF EnqueueFails, AcceptedOK
        <4>2. Passed = accepted - 1 /\ Passed' = accepted
          BY <4>1 DEF Passed
        <4> QED BY <1>0, <3>2, <4>1, <4>2 DEF EnqueueFails
      <3> QED BY <1>2, <3>1, <3>2
    <2>2. \A w \in Worker : cur[w] <= Passed'
      BY <1>0, <1>p, <2>1 DEF AcceptedOK, None
    <2>3. \A i \in 1 .. Len(queue) : queue[i] <= Passed'
      BY <1>0, <1>p, <2>1 DEF AcceptedOK
    <2>4. \A i \in 1 .. Len(log) : log[i].client <= Passed'
      BY <1>0, <1>p, <2>1 DEF AcceptedOK
    <2> QED BY <2>1, <2>2, <2>3, <2>4 DEF AcceptedOK
  <1>3. ASSUME NEW w \in Worker, Dequeue(w) PROVE AcceptedOK'
    <2>1. UNCHANGED <<accepted, taken, Passed, logged>>
      BY <1>3 DEF Dequeue, Passed
    <2>2. CASE UNCHANGED <<queue, cur>>
      BY <2>1, <2>2 DEF AcceptedOK, Passed
    <2>3. CASE /\ Len(queue) > 0 /\ Len(queue') = Len(queue) - 1
               /\ \A i \in 1 .. Len(queue') : queue'[i] = queue[i + 1]
               /\ queue[1] \in Client /\ cur' = [cur EXCEPT ![w] = queue[1]]
      <3>1. \A i \in 1 .. Len(queue') : queue'[i] <= Passed
        BY <1>0, <2>3 DEF AcceptedOK
      <3>2. \A u \in Worker : cur'[u] <= Passed
        BY <1>0, <2>3 DEF AcceptedOK, TypeOK
      <3> QED BY <2>1, <3>1, <3>2 DEF AcceptedOK
    <2> QED BY <1>3, <2>2, <2>3, DequeueStep
  <1>4. ASSUME NEW w \in Worker, OrderedLog(w) PROVE AcceptedOK'
    <2>1. CASE MyTurn(w)
      <3>1. /\ Len(log') = Len(log) + 1 /\ log'[Len(log) + 1].client = cur[w]
            /\ \A i \in 1 .. Len(log) : log'[i] = log[i]
            /\ cur' = [cur EXCEPT ![w] = None]
        BY <1>4, <2>1, LogStep
      <3>2. UNCHANGED <<queue, accepted, taken, Passed>>
        BY <1>4 DEF OrderedLog, Passed
      <3>3. \A i \in 1 .. Len(log') : log'[i].client <= Passed
        BY <1>0, <3>1 DEF AcceptedOK
      <3>4. \A u \in Worker : cur'[u] <= Passed
        BY <1>0, <1>p, <3>1 DEF AcceptedOK, TypeOK, None
      <3> QED BY <3>2, <3>3, <3>4 DEF AcceptedOK
    <2>2. CASE ~ MyTurn(w)
      BY <1>4, <2>2 DEF AcceptedOK, Passed, OrderedLog
    <2> QED BY <2>1, <2>2
  <1>5. CASE UNCHANGED places
    BY <1>5 DEF AcceptedOK, Passed, places
  <1> QED BY <1>1, <1>2, <1>3, <1>4, <1>5, Moves

\* Every step keeps the order of the sequence numbers.
LEMMA SeqStep == TypeOK /\ SeqOK /\ AcceptedOK /\ WorkerOK /\ [Next]_vars => SeqOK'
  <1> SUFFICES ASSUME TypeOK, SeqOK, AcceptedOK, WorkerOK, [Next]_vars PROVE SeqOK'
    OBVIOUS
  <1>0. /\ Len(queue) \in Nat /\ Len(log) \in Nat /\ accepted \in Nat
        /\ nextSeq \in Nat /\ nextLogSeq \in Nat
        /\ \A c \in Client : c \in Nat /\ c # None /\ seq[c] \in Nat
        /\ \A i \in 1 .. Len(queue) : queue[i] \in Client
        /\ \A i \in 1 .. Len(log) : log[i].client \in Client
        /\ \A w \in Worker : cur[w] \in Client \cup {None}
    BY Ranges
  <1>1. CASE Enqueue
    <2>0. /\ taken \in Client /\ taken = Passed + 1 /\ Passed' = taken /\ Passed \in Nat
          /\ nextSeq' = nextSeq + 1 /\ taken' = None
          /\ Len(queue') = Len(queue) + 1 /\ queue'[Len(queue) + 1] = taken
          /\ \A i \in 1 .. Len(queue) : queue'[i] = queue[i]
          /\ seq'[taken] = nextSeq
          /\ \A c \in Client : c <= Passed => seq'[c] = seq[c]
          /\ UNCHANGED <<cur, logged>>
      BY <1>1, EnqueueStep
    <2>1. Front' = Front /\ Front + Len(queue) = nextSeq
      BY <1>0, <2>0 DEF Front
    <2>2. \A i \in 1 .. Len(queue') : seq'[queue'[i]] = Front + i - 1
      <3>1. \A i \in 1 .. Len(queue) : seq'[queue'[i]] = Front + i - 1
        BY <1>0, <2>0 DEF SeqOK, AcceptedOK
      <3>2. seq'[queue'[Len(queue) + 1]] = Front + Len(queue)
        BY <2>0, <2>1
      <3>3. Front \in Int
        BY <1>0 DEF Front
      <3>4. \A i \in 1 .. Len(queue') : i \in 1 .. Len(queue) \/ i = Len(queue) + 1
        BY <1>0, <2>0
      <3>5. Front + Len(queue) = Front + (Len(queue) + 1) - 1
        BY <1>0, <3>3
      <3> QED BY <3>1, <3>2, <3>4, <3>5
    <2>3. \A i \in 1 .. Len(log) : seq'[log[i].client] = i - 1
      BY <1>0, <2>0 DEF SeqOK, AcceptedOK
    <2>4. \A w \in Worker : cur[w] # None => seq'[cur[w]] = seq[cur[w]]
      BY <1>0, <2>0 DEF AcceptedOK
    <2> QED BY <2>0, <2>1, <2>2, <2>3, <2>4 DEF SeqOK
  <1>2. CASE Accept \/ EnqueueFails
    BY <1>2 DEF SeqOK, Front, Accept, EnqueueFails, KeepSeq
  <1>3. ASSUME NEW w \in Worker, Dequeue(w) PROVE SeqOK'
    <2>0. UNCHANGED <<nextSeq, seq, logged>> /\ cur[w] = None
      BY <1>3 DEF Dequeue, Goto, WorkerOK
    <2>1. CASE UNCHANGED <<queue, cur>>
      BY <2>0, <2>1 DEF SeqOK, Front
    <2>2. CASE /\ Len(queue) > 0 /\ Len(queue') = Len(queue) - 1
               /\ \A i \in 1 .. Len(queue') : queue'[i] = queue[i + 1]
               /\ queue[1] \in Client /\ cur' = [cur EXCEPT ![w] = queue[1]]
      <3>1. Front' = Front + 1 /\ Front \in Int
        BY <1>0, <2>0, <2>2 DEF Front
      <3>2. \A i \in 1 .. Len(queue)' : seq[queue'[i]] = Front' + i - 1
        <4> SUFFICES ASSUME NEW i \in 1 .. Len(queue') PROVE seq[queue'[i]] = Front' + i - 1
          OBVIOUS
        <4>1. i + 1 \in 1 .. Len(queue) /\ queue'[i] = queue[i + 1]
          BY <1>0, <2>2
        <4>2. seq[queue[i + 1]] = Front + (i + 1) - 1
          BY <4>1 DEF SeqOK
        <4> QED BY <3>1, <4>1, <4>2
      <3>3. cur'[w] # None /\ seq[cur'[w]] = Front
        <4>1. cur'[w] = queue[1] /\ queue[1] # None /\ 1 \in 1 .. Len(queue)
          BY <1>0, <2>2 DEF TypeOK
        <4>2. seq[queue[1]] = Front + 1 - 1
          BY <4>1 DEF SeqOK
        <4> QED BY <3>1, <4>1, <4>2
      <3>4. \A u \in Worker : u # w => cur'[u] = cur[u]
        BY <2>2 DEF TypeOK
      <3>5. \A u \in Worker : cur'[u] # None => seq[cur'[u]] \in nextLogSeq .. Front' - 1
        BY <1>0, <3>1, <3>3, <3>4 DEF SeqOK
      <3>6. ASSUME NEW n \in nextLogSeq .. Front' - 1
            PROVE  \E u \in Worker : cur'[u] # None /\ seq[cur'[u]] = n
        <4>1. CASE n = Front
          BY <3>3, <4>1
        <4>2. CASE n # Front
          <5>1. PICK u \in Worker : cur[u] # None /\ seq[cur[u]] = n
            <6>1. n \in nextLogSeq .. Front - 1
              BY <1>0, <3>1, <4>2
            <6> QED BY <6>1 DEF SeqOK
          <5> QED BY <5>1, <2>0, <3>4
        <4> QED BY <4>1, <4>2
      <3>7. ASSUME NEW u \in Worker, NEW v \in Worker, cur'[u] # None, cur'[v] # None,
                   seq[cur'[u]] = seq[cur'[v]]
            PROVE  u = v
        <4>1. \A x \in Worker : x # w /\ cur'[x] # None => seq[cur'[x]] # Front
          BY <1>0, <3>1, <3>4 DEF SeqOK
        <4> QED BY <3>3, <3>4, <3>7, <4>1 DEF SeqOK
      <3>8. nextLogSeq <= Front'
        BY <1>0, <3>1 DEF SeqOK
      <3> QED BY <2>0, <3>2, <3>5, <3>6, <3>7, <3>8 DEF SeqOK
    <2> QED BY <1>3, <2>1, <2>2, DequeueStep
  <1>4. ASSUME NEW w \in Worker, OrderedLog(w) PROVE SeqOK'
    <2>0. UNCHANGED <<nextSeq, seq, queue>> /\ cur[w] # None /\ Front' = Front
      BY <1>4 DEF OrderedLog, Goto, WorkerOK, Front
    <2>1. CASE MyTurn(w)
      <3>1. /\ nextLogSeq' = nextLogSeq + 1 /\ Len(log') = Len(log) + 1
            /\ \A i \in 1 .. Len(log) : log'[i] = log[i]
            /\ log'[Len(log) + 1].client = cur[w]
            /\ cur' = [cur EXCEPT ![w] = None]
        BY <1>4, <2>1, LogStep
      <3>2. seq[cur[w]] = nextLogSeq
        BY <2>1 DEF MyTurn
      <3>3. \A i \in 1 .. Len(log') : seq[log'[i].client] = i - 1
        <4>1. \A i \in 1 .. Len(log') : i \in 1 .. Len(log) \/ i = Len(log) + 1
          BY <1>0, <3>1
        <4>2. \A i \in 1 .. Len(log) : seq[log'[i].client] = i - 1
          BY <3>1 DEF SeqOK
        <4>3. seq[log'[Len(log) + 1].client] = (Len(log) + 1) - 1
          BY <1>0, <3>1, <3>2 DEF SeqOK
        <4> QED BY <4>1, <4>2, <4>3
      <3>4. cur'[w] = None /\ \A u \in Worker : u # w => cur'[u] = cur[u]
        BY <3>1 DEF TypeOK
      <3>5. nextLogSeq' <= Front /\ Front \in Int
        BY <1>0, <2>0, <3>1, <3>2 DEF SeqOK, Front
      <3>6. \A u \in Worker : cur'[u] # None => seq[cur'[u]] \in nextLogSeq' .. Front - 1
        BY <1>0, <2>0, <3>1, <3>2, <3>4, <3>5 DEF SeqOK
      <3>7. ASSUME NEW n \in nextLogSeq' .. Front - 1
            PROVE  \E u \in Worker : cur'[u] # None /\ seq[cur'[u]] = n
        <4>1. PICK u \in Worker : cur[u] # None /\ seq[cur[u]] = n
          BY <1>0, <3>1, <3>5 DEF SeqOK
        <4> QED BY <1>0, <4>1, <3>1, <3>2, <3>4, <3>5
      <3>8. \A u, v \in Worker : cur'[u] # None /\ cur'[v] # None
                                     /\ seq[cur'[u]] = seq[cur'[v]] => u = v
        BY <3>4 DEF SeqOK
      <3>9. Len(log') = nextLogSeq'
        BY <3>1 DEF SeqOK
      <3> QED BY <2>0, <3>3, <3>5, <3>6, <3>7, <3>8, <3>9 DEF SeqOK
    <2>2. CASE ~ MyTurn(w)
      BY <1>4, <2>2 DEF SeqOK, Front, OrderedLog
    <2> QED BY <2>1, <2>2
  <1>5. CASE UNCHANGED places
    BY <1>5 DEF SeqOK, Front, places
  <1> QED BY <1>1, <1>2, <1>3, <1>4, <1>5, Moves

----------------------------------------------------------------------------
(* The log and the waits.                                                  *)

\* An answer touches no request that was logged.
LEMMA AnswerKeepsLog ==
    ASSUME TypeOK, WorkerOK, SeqOK, LogOK, NEW w \in Worker,
           pc[w] \in {"recv", "pipe", "fork", "waitpid"},
           NEW s, NEW r, Answer(w, s, r), UNCHANGED <<cur, log>>
    PROVE  LogOK'
  <1>0. /\ Len(log) \in Nat /\ nextLogSeq \in Nat
        /\ \A c \in Client : seq[c] \in Nat
        /\ \A i \in 1 .. Len(log) : log[i].client \in Client
    BY Ranges
  <1>1. cur[w] \in Client /\ seq[cur[w]] >= nextLogSeq
    <2>1. cur[w] \in Client /\ cur[w] # None
      BY Ranges DEF WorkerOK
    <2>2. seq[cur[w]] \in nextLogSeq .. Front - 1
      BY <2>1 DEF SeqOK
    <2> QED BY <1>0, <2>1, <2>2
  <1>2. \A i \in 1 .. Len(log) : log[i].client # cur[w]
    BY <1>0, <1>1 DEF SeqOK
  <1>3. \A i \in 1 .. Len(log) : resp'[log[i].client] = resp[log[i].client]
    BY <1>0, <1>2 DEF Answer, TypeOK
  <1> QED BY <1>3 DEF LogOK

\* Every step keeps the agreement of the log with the responses.
LEMMA LogOKStep == TypeOK /\ WorkerOK /\ SeqOK /\ LogOK /\ [Next]_vars => LogOK'
  <1> SUFFICES ASSUME TypeOK, WorkerOK, SeqOK, LogOK, [Next]_vars PROVE LogOK'
    OBVIOUS
  <1>1. CASE UNCHANGED <<log, resp>>
    BY <1>1 DEF LogOK
  <1>2. ASSUME NEW w \in Worker, OrderedLog(w), MyTurn(w) PROVE LogOK'
    <2>1. /\ Len(log') = Len(log) + 1 /\ \A i \in 1 .. Len(log) : log'[i] = log[i]
          /\ log'[Len(log) + 1].client = cur[w] /\ log'[Len(log) + 1].status = status[w]
      BY <1>2, LogStep
    <2>2. resp' = resp /\ Agrees(status[w], resp[cur[w]])
      BY <1>2 DEF OrderedLog, WorkerOK, Answered
    <2>3. \A i \in 1 .. Len(log') : i \in 1 .. Len(log) \/ i = Len(log) + 1
      BY <2>1, Ranges
    <2> QED BY <2>1, <2>2, <2>3 DEF LogOK
  <1>3. ASSUME NEW w \in Worker, Recv(w) \/ OpenPipe(w) \/ Fork(w) \/ WaitPid(w)
        PROVE  LogOK'
    <2>1. UNCHANGED <<cur, log>> /\ pc[w] \in {"recv", "pipe", "fork", "waitpid"}
      BY <1>3 DEF Recv, OpenPipe, Fork, WaitPid, Goto
    <2>2. UNCHANGED resp \/ \E s, r : Answer(w, s, r)
      BY <1>3 DEF Recv, OpenPipe, Fork, WaitPid
    <2> QED BY <1>1, <2>1, <2>2, AnswerKeepsLog
  <1>4. \/ UNCHANGED <<log, resp>>
        \/ \E w \in Worker : OrderedLog(w) /\ MyTurn(w)
        \/ \E w \in Worker : Recv(w) \/ OpenPipe(w) \/ Fork(w) \/ WaitPid(w)
    BY DEF Next, WorkerStep, ClientStep, vars, Accept, Enqueue, EnqueueFails, MainFails,
           Shutdown, Send, CreateWorker, Dequeue, CloseWrite, ReadPipe, CloseClient, OrderedLog,
           ReadFails, SpuriousWakeup, CgiExit
  <1> QED BY <1>1, <1>2, <1>3, <1>4

\* A worker enters one of the waits only with the condition to wait for checked
\* under the mutex, and whoever makes it true wakes somebody.
LEMMA WaitStep ==
    TypeOK /\ WorkerOK /\ SeqOK /\ AcceptedOK /\ WaitOK /\ [Next]_vars => WaitOK'
  <1> SUFFICES ASSUME TypeOK, WorkerOK, SeqOK, AcceptedOK, WaitOK, [Next]_vars
               PROVE  WaitOK'
    OBVIOUS
  <1> USE DEF Goto, MyTurn, WaitOK, NoLostWakeup
  <1>1. CASE Enqueue
    <2>1. \A w \in Worker : pc[w] = "wait_log" => seq'[cur[w]] = seq[cur[w]]
      BY <1>1, EnqueueStep, Ranges DEF AcceptedOK, WorkerOK
    <2>2. UNCHANGED <<cur, nextLogSeq>>
      BY <1>1 DEF Enqueue
    <2>3. \A w \in Worker : pc'[w] = "wait_log" => pc[w] = "wait_log"
      BY <1>1 DEF Enqueue, SignalQueue, TypeOK
    <2>4. \E w \in Worker : pc'[w] # "wait_queue"
      BY <1>1, HttpdAssumption DEF Enqueue, SignalQueue, TypeOK
    <2> QED BY <2>1, <2>2, <2>3, <2>4
  <1>2. CASE Accept \/ EnqueueFails
    BY <1>2 DEF Accept, EnqueueFails
  <1>3. CASE MainFails
    BY <1>3 DEF MainFails, Shutdown
  <1>4. ASSUME NEW w \in Worker, Dequeue(w) PROVE WaitOK'
    <2>1. CASE queue = << >>
      BY <1>4, <2>1 DEF Dequeue, TypeOK
    <2>2. CASE queue # << >>
      BY <1>4, <2>2 DEF Dequeue, TypeOK
    <2> QED BY <2>1, <2>2
  <1>5. ASSUME NEW w \in Worker, OrderedLog(w) PROVE WaitOK'
    <2>1. CASE MyTurn(w)
      BY <1>5, <2>1 DEF OrderedLog, BroadcastLog, TypeOK
    <2>2. CASE ~ MyTurn(w)
      BY <1>5, <2>2 DEF OrderedLog, TypeOK
    <2> QED BY <2>1, <2>2
  <1>6. ASSUME NEW w \in Worker, Recv(w) \/ OpenPipe(w) \/ Fork(w) \/ WaitPid(w)
        PROVE  WaitOK'
    <2>1. UNCHANGED <<queue, cur, seq, nextLogSeq, up>>
      BY <1>6 DEF Recv, OpenPipe, Fork, WaitPid
    <2>2. \E p \in {"send", "close", "pipe", "fork", "close_write"} : pc' = [pc EXCEPT ![w] = p]
      BY <1>6 DEF Recv, OpenPipe, Fork, WaitPid, Answer
    <2> QED BY <2>1, <2>2 DEF TypeOK
  <1>7. ASSUME NEW w \in Worker, CreateWorker(w) \/ CloseWrite(w) \/ ReadPipe(w)
                                   \/ CloseClient(w) \/ ReadFails(w) \/ SpuriousWakeup(w)
                                   \/ Send(w)
        PROVE  WaitOK'
    BY <1>7 DEF CreateWorker, CloseWrite, ReadPipe, CloseClient, ReadFails,
                SpuriousWakeup, Send, TypeOK
  <1>8. ASSUME NEW w \in Worker, CgiExit(w) PROVE WaitOK'
    BY <1>8 DEF CgiExit
  <1>9. CASE UNCHANGED vars
    BY <1>9 DEF vars
  <1> QED BY <1>1, <1>2, <1>3, <1>4, <1>5, <1>6, <1>7, <1>8, <1>9
          DEF Next, WorkerStep, ClientStep

----------------------------------------------------------------------------
(* Descriptors.                                                            *)

\* The three parts of DescriptorsAccounted.
ConnOK == up => \A c \in Client : Server \in conn[c] <=>
                   \/ c = taken \/ c \in Range(queue)
                   \/ \E w \in Worker : cur[w] = c /\ pc[w] \notin {"log", "wait_log"}
PipeOK == up => \A w \in Worker : Server \in pipe[w] <=> pc[w] \in {"fork", "close_write"}
ChildOK == \A w \in Worker : child[w] # "running" =>
              /\ \A v \in Worker : w \notin pipe[v]
              /\ \A c \in Client : w \notin conn[c]

\* A forked child is a new holder of what the server holds, and of nothing else.
LEMMA ForkHolders ==
    ASSUME TypeOK, NEW w \in Worker, Fork(w)
    PROVE  /\ \A c \in Client : /\ Server \in conn'[c] <=> Server \in conn[c]
                                /\ conn'[c] \subseteq conn[c] \cup {w}
           /\ \A v \in Worker : pipe'[v] \subseteq pipe[v] \cup {w}
           /\ \A v \in Worker : v # w => (Server \in pipe'[v] <=> Server \in pipe[v])
           /\ \/ /\ pc' = [pc EXCEPT ![w] = "close_write"]
                 /\ child' = [child EXCEPT ![w] = "running"]
                 /\ Server \in pipe[w] => Server \in pipe'[w]
              \/ /\ pc' = [pc EXCEPT ![w] = "send"]
                 /\ child' = child /\ conn' = conn
                 /\ pipe' = [pipe EXCEPT ![w] = @ \ {Server}]
  <1> DEFINE Inherit(f) == [x \in DOMAIN f |-> IF Server \in f[x] THEN f[x] \cup {w}
                                                                  ELSE f[x]]
  <1>0. DOMAIN pipe = Worker /\ DOMAIN conn = Client /\ w # Server
    BY HttpdAssumption DEF TypeOK
  <1>1. CASE /\ Goto(w, "fork", "close_write") /\ child' = [child EXCEPT ![w] = "running"]
             /\ pipe' = Inherit(pipe) /\ conn' = Inherit(conn)
    BY <1>0, <1>1 DEF Goto
  <1>2. CASE /\ pipe' = [pipe EXCEPT ![w] = @ \ {Server}] /\ Answer(w, 500, 500)
             /\ UNCHANGED <<child, conn>>
    BY <1>0, <1>2 DEF Answer, None
  <1> QED BY <1>1, <1>2 DEF Fork

\* Every step keeps track of the server's end of every pipe.
LEMMA PipeStep == TypeOK /\ WorkerOK /\ PipeOK /\ [Next]_vars => PipeOK'
  <1> SUFFICES ASSUME TypeOK, WorkerOK, PipeOK, [Next]_vars PROVE PipeOK'
    OBVIOUS
  <1>t. pc \in [Worker -> Pcs] /\ pipe \in [Worker -> SUBSET Holders]
    BY DEF TypeOK
  <1> USE DEF Goto
  <1>1. CASE Accept \/ Enqueue \/ EnqueueFails
    BY <1>1 DEF PipeOK, TypeOK, Accept, Enqueue, EnqueueFails, SignalQueue
  <1>2. CASE MainFails
    BY <1>2 DEF PipeOK, MainFails, Shutdown
  <1>3. ASSUME NEW w \in Worker, Dequeue(w) \/ CreateWorker(w) \/ CloseClient(w)
                    \/ ReadPipe(w) \/ ReadFails(w) \/ SpuriousWakeup(w) \/ Send(w)
        PROVE  PipeOK'
    BY <1>3 DEF PipeOK, TypeOK, Dequeue, CreateWorker, CloseClient, ReadPipe,
                ReadFails, SpuriousWakeup, Send
  <1>4. ASSUME NEW w \in Worker, Recv(w) \/ WaitPid(w) PROVE PipeOK'
    <2>1. UNCHANGED <<pipe, up>> /\ pc[w] \in {"recv", "waitpid"}
      BY <1>4 DEF Recv, WaitPid
    <2>2. \E p \in {"send", "close", "pipe"} : pc' = [pc EXCEPT ![w] = p]
      BY <1>4 DEF Recv, WaitPid, Answer
    <2> QED BY <1>t, <2>1, <2>2 DEF PipeOK
  <1>5. ASSUME NEW w \in Worker, OpenPipe(w) PROVE PipeOK'
    <2>1. CASE pipe' = [pipe EXCEPT ![w] = {Server}] /\ pc' = [pc EXCEPT ![w] = "fork"]
      BY <1>t, <1>5, <2>1 DEF PipeOK, OpenPipe
    <2>2. CASE UNCHANGED pipe /\ pc[w] = "pipe" /\ pc' = [pc EXCEPT ![w] = "send"]
      BY <1>t, <1>5, <2>2 DEF PipeOK, OpenPipe
    <2> QED BY <1>5, <2>1, <2>2 DEF OpenPipe, Answer, None
  <1>6. ASSUME NEW w \in Worker, Fork(w) PROVE PipeOK'
    <2>1. up' = up /\ pc[w] = "fork"
      BY <1>6 DEF Fork
    <2>2. \A v \in Worker : v # w => (Server \in pipe'[v] <=> Server \in pipe[v])
      BY <1>6, ForkHolders
    <2>3. \/ /\ pc' = [pc EXCEPT ![w] = "close_write"]
             /\ Server \in pipe[w] => Server \in pipe'[w]
          \/ /\ pc' = [pc EXCEPT ![w] = "send"]
             /\ pipe' = [pipe EXCEPT ![w] = @ \ {Server}]
      BY <1>6, ForkHolders
    <2> QED BY <1>t, <2>1, <2>2, <2>3 DEF PipeOK
  <1>7. ASSUME NEW w \in Worker, CloseWrite(w) PROVE PipeOK'
    BY <1>7 DEF PipeOK, TypeOK, CloseWrite, DropWriteEnd
  <1>8. ASSUME NEW w \in Worker, OrderedLog(w) PROVE PipeOK'
    <2>1. UNCHANGED <<pipe, up>> /\ pc[w] = "log"
      BY <1>8 DEF OrderedLog
    <2>2. \A v \in Worker : pc'[v] = pc[v] \/ (pc[v] \in {"log", "wait_log"}
                               /\ pc'[v] \in {"log", "wait_log", "dequeue"})
      <3>1. CASE MyTurn(w)
        BY <1>8, <3>1 DEF OrderedLog, BroadcastLog
      <3>2. CASE ~ MyTurn(w)
        BY <1>8, <3>2, <1>t DEF OrderedLog
      <3> QED BY <3>1, <3>2
    <2> QED BY <2>1, <2>2 DEF PipeOK
  <1>9. ASSUME NEW w \in Worker, CgiExit(w) PROVE PipeOK'
    BY <1>9, HttpdAssumption DEF PipeOK, TypeOK, CgiExit
  <1>10. CASE UNCHANGED vars
    BY <1>10 DEF PipeOK, vars
  <1> QED BY <1>1, <1>2, <1>3, <1>4, <1>5, <1>6, <1>7, <1>8, <1>9, <1>10
          DEF Next, WorkerStep, ClientStep

\* Every step leaves nothing with a child that has ended.
LEMMA ChildStep == TypeOK /\ WorkerOK /\ ChildOK /\ [Next]_vars => ChildOK'
  <1> SUFFICES ASSUME TypeOK, WorkerOK, ChildOK, [Next]_vars PROVE ChildOK'
    OBVIOUS
  <1>t. /\ child \in [Worker -> {"none", "running", "exited"}]
        /\ pipe \in [Worker -> SUBSET Holders] /\ conn \in [Client -> SUBSET Holders]
    BY DEF TypeOK
  <1> USE HttpdAssumption DEF Goto
  <1>1. CASE Accept \/ Enqueue \/ EnqueueFails
    <2>1. CASE Enqueue
      BY <2>1 DEF ChildOK, Enqueue
    <2>2. CASE Accept
      <3>1. UNCHANGED <<child, pipe>> /\ conn' = [conn EXCEPT ![accepted + 1] = {Server}]
        BY <2>2 DEF Accept
      <3> QED BY <1>t, <3>1 DEF ChildOK
    <2>3. CASE EnqueueFails
      <3>1. UNCHANGED <<child, pipe>> /\ conn' = [conn EXCEPT ![taken] = @ \ {Server}]
        BY <2>3 DEF EnqueueFails
      <3> QED BY <1>t, <3>1 DEF ChildOK
    <2> QED BY <1>1, <2>1, <2>2, <2>3
  <1>2. CASE MainFails
    BY <1>2 DEF ChildOK, TypeOK, MainFails, Shutdown
  <1>3. ASSUME NEW w \in Worker, Dequeue(w) \/ CreateWorker(w) \/ Recv(w) \/ OrderedLog(w)
                    \/ ReadPipe(w) \/ ReadFails(w) \/ SpuriousWakeup(w) \/ Send(w)
        PROVE  ChildOK'
    BY <1>3 DEF ChildOK, Dequeue, CreateWorker, Recv, OrderedLog, ReadPipe,
                ReadFails, SpuriousWakeup, Send
  <1>4. ASSUME NEW w \in Worker, CloseClient(w) PROVE ChildOK'
    BY <1>4 DEF ChildOK, TypeOK, CloseClient
  <1>5. ASSUME NEW w \in Worker, OpenPipe(w) \/ CloseWrite(w) PROVE ChildOK'
    <2>1. UNCHANGED <<child, conn>>
      BY <1>5 DEF OpenPipe, CloseWrite
    <2>2. \/ pipe' = [pipe EXCEPT ![w] = {Server}] \/ pipe' = pipe
          \/ pipe' = [pipe EXCEPT ![w] = @ \ {Server}]
      BY <1>5 DEF OpenPipe, CloseWrite, DropWriteEnd
    <2> QED BY <1>t, <2>1, <2>2 DEF ChildOK
  <1>6. ASSUME NEW w \in Worker, Fork(w) PROVE ChildOK'
    <2>1. /\ \A c \in Client : conn'[c] \subseteq conn[c] \cup {w}
          /\ \A v \in Worker : pipe'[v] \subseteq pipe[v] \cup {w}
      BY <1>6, ForkHolders
    <2>2. \/ child' = [child EXCEPT ![w] = "running"]
          \/ /\ child' = child /\ conn' = conn
             /\ pipe' = [pipe EXCEPT ![w] = @ \ {Server}]
      BY <1>6, ForkHolders
    <2> QED BY <1>t, <2>1, <2>2 DEF ChildOK
  <1>7. ASSUME NEW w \in Worker, WaitPid(w) PROVE ChildOK'
    BY <1>7 DEF ChildOK, TypeOK, WaitPid
  <1>9. ASSUME NEW w \in Worker, CgiExit(w) PROVE ChildOK'
    BY <1>9 DEF ChildOK, TypeOK, CgiExit
  <1>10. CASE UNCHANGED vars
    BY <1>10 DEF ChildOK, vars
  <1> QED BY <1>1, <1>2, <1>3, <1>4, <1>5, <1>6, <1>7, <1>9, <1>10
          DEF Next, WorkerStep, ClientStep

\* A step that moves no request and no worker over the close keeps ConnOK.
LEMMA ConnKept ==
    ASSUME ConnOK, up' => up, UNCHANGED <<taken, queue, cur>>,
           \A c \in Client : Server \in conn'[c] <=> Server \in conn[c],
           \A w \in Worker : pc'[w] \in {"log", "wait_log"} <=> pc[w] \in {"log", "wait_log"}
    PROVE  ConnOK'
  BY DEF ConnOK

\* The clients in the queue, one by one.
LEMMA QueueRange ==
    ASSUME NEW q \in Seq(Client), NEW c
    PROVE  c \in Range(q) <=> \E i \in 1 .. Len(q) : q[i] = c
  BY DEF Range

\* Every step keeps track of the server's end of every connection.
LEMMA ConnStep ==
    TypeOK /\ TypeOK' /\ WorkerOK /\ SeqOK /\ AcceptedOK /\ ConnOK /\ [Next]_vars => ConnOK'
  <1> SUFFICES ASSUME TypeOK, TypeOK', WorkerOK, SeqOK, AcceptedOK, ConnOK, [Next]_vars
               PROVE  ConnOK'
    OBVIOUS
  <1> USE DEF Goto
  <1>t. /\ pc \in [Worker -> Pcs] /\ cur \in [Worker -> Client \cup {None}]
        /\ conn \in [Client -> SUBSET Holders]
        /\ queue \in Seq(Client) /\ queue' \in Seq(Client)
    BY DEF TypeOK
  <1>n. /\ Len(queue) \in Nat /\ accepted \in Nat
        /\ \A c \in Client : c \in Nat /\ c # None
    BY Ranges
  <1>1. CASE Enqueue
    <2>0. /\ taken \in Client /\ taken' = None
          /\ Len(queue') = Len(queue) + 1 /\ queue'[Len(queue) + 1] = taken
          /\ \A i \in 1 .. Len(queue) : queue'[i] = queue[i]
          /\ cur' = cur
      BY <1>1, EnqueueStep
    <2>1. UNCHANGED <<up, conn>>
      BY <1>1 DEF Enqueue
    <2>2. \A w \in Worker : pc'[w] \in {"log", "wait_log"} <=> pc[w] \in {"log", "wait_log"}
      BY <1>1, <1>t DEF Enqueue, SignalQueue
    <2>3. \A c \in Client : c \in Range(queue') <=> c \in Range(queue) \/ c = taken
      <3>1. \A i \in 1 .. Len(queue') : i \in 1 .. Len(queue) \/ i = Len(queue) + 1
        BY <1>n, <2>0
      <3>2. \A i \in 1 .. Len(queue) : i \in 1 .. Len(queue')
        BY <1>n, <2>0
      <3>3. Len(queue) + 1 \in 1 .. Len(queue')
        BY <1>n, <2>0
      <3> QED BY <1>t, <2>0, <3>1, <3>2, <3>3, QueueRange
    <2> QED BY <1>n, <2>0, <2>1, <2>2, <2>3 DEF ConnOK
  <1>2. CASE Accept \/ EnqueueFails
    <2>1. CASE Accept
      <3>1. /\ taken = None /\ taken' = accepted + 1
            /\ conn' = [conn EXCEPT ![accepted + 1] = {Server}]
            /\ UNCHANGED <<up, queue, cur, pc>>
        BY <2>1 DEF Accept
      <3> QED BY <1>t, <1>n, <3>1 DEF ConnOK
    <2>2. CASE EnqueueFails
      <3>1. /\ taken # None /\ taken' = None /\ UNCHANGED <<up, queue, cur, pc>>
            /\ conn' = [conn EXCEPT ![taken] = @ \ {Server}]
        BY <2>2 DEF EnqueueFails
      <3>2. taken \in Client /\ taken = Passed + 1 /\ Passed \in Nat
        BY <3>1, PassedNat
      <3>3. \A w \in Worker : cur[w] # taken
        BY <3>2 DEF AcceptedOK
      <3>4. taken \notin Range(queue)
        <4>1. \A i \in 1 .. Len(queue) : queue[i] # taken
          BY <3>2 DEF AcceptedOK
        <4> QED BY <1>t, <4>1, QueueRange
      <3> QED BY <1>t, <1>n, <3>1, <3>2, <3>3, <3>4 DEF ConnOK
    <2> QED BY <1>2, <2>1, <2>2
  <1>3. CASE MainFails
    BY <1>3 DEF ConnOK, MainFails, Shutdown
  <1>4. ASSUME NEW w \in Worker, Dequeue(w) PROVE ConnOK'
    <2>0. UNCHANGED <<up, taken, conn>> /\ pc[w] = "dequeue" /\ cur[w] = None
      BY <1>4 DEF Dequeue, WorkerOK
    <2>1. /\ \A v \in Worker : pc'[v] \in {"log", "wait_log"} <=> pc[v] \in {"log", "wait_log"}
          /\ pc'[w] \in {"wait_queue", "recv"}
      BY <1>4, <1>t DEF Dequeue
    <2>2. CASE UNCHANGED <<queue, cur>>
      BY <2>0, <2>1, <2>2, ConnKept
    <2>3. CASE /\ Len(queue) > 0 /\ Len(queue') = Len(queue) - 1
               /\ \A i \in 1 .. Len(queue') : queue'[i] = queue[i + 1]
               /\ queue[1] \in Client /\ cur' = [cur EXCEPT ![w] = queue[1]]
      <3>1. \A c \in Client : c \in Range(queue) <=> c \in Range(queue') \/ c = queue[1]
        <4>1. \A i \in 1 .. Len(queue) : i = 1 \/ (i - 1 \in 1 .. Len(queue')
                                                    /\ queue'[i - 1] = queue[i])
          BY <1>n, <2>3
        <4>2. \A i \in 1 .. Len(queue') : i + 1 \in 1 .. Len(queue)
          BY <1>n, <2>3
        <4>3. 1 \in 1 .. Len(queue)
          BY <1>n, <2>3
        <4>4. ASSUME NEW c \in Range(queue) PROVE c \in Range(queue') \/ c = queue[1]
          BY <1>t, <4>1, QueueRange
        <4>5. ASSUME NEW c \in Range(queue') PROVE c \in Range(queue)
          <5>1. PICK i \in 1 .. Len(queue') : queue'[i] = c
            BY <1>t, QueueRange
          <5>2. queue[i + 1] = c
            BY <2>3, <5>1
          <5> QED BY <1>t, <4>2, <5>2, QueueRange
        <4>6. queue[1] \in Range(queue)
          BY <1>t, <4>3, QueueRange
        <4> QED BY <4>4, <4>5, <4>6
      <3>2. cur'[w] = queue[1] /\ \A v \in Worker : v # w => cur'[v] = cur[v]
        BY <1>t, <2>3
      <3>3. \A c \in Client : c # None
        BY <1>n
      <3> QED BY <2>0, <2>1, <3>1, <3>2, <3>3 DEF ConnOK
    <2> QED BY <1>4, <2>2, <2>3, DequeueStep
  <1>5. ASSUME NEW w \in Worker, CloseClient(w) PROVE ConnOK'
    <2>1. /\ pc[w] = "close" /\ pc' = [pc EXCEPT ![w] = "log"]
          /\ conn' = [conn EXCEPT ![cur[w]] = @ \ {Server}] /\ UNCHANGED <<up, taken, queue, cur>>
      BY <1>5 DEF CloseClient
    <2>2. cur[w] \in Client /\ cur[w] # None
      BY <2>1, <1>t DEF WorkerOK
    <2>3. \A v \in Worker : v # w => cur[v] # cur[w]
      BY <2>2, OneWorker
    <2>4. cur[w] \notin Range(queue)
      <3>1. seq[cur[w]] \in nextLogSeq .. Front - 1
        BY <2>2 DEF SeqOK
      <3>2. Front \in Int /\ nextLogSeq \in Nat
        BY Ranges DEF Front
      <3>3. \A i \in 1 .. Len(queue) : queue[i] # cur[w]
        BY <1>n, <3>1, <3>2 DEF SeqOK
      <3> QED BY <1>t, <3>3, QueueRange
    <2>5. cur[w] # taken
      BY <2>2, PassedNat DEF AcceptedOK
    <2> QED BY <1>t, <2>1, <2>2, <2>3, <2>4, <2>5 DEF ConnOK
  <1>6. ASSUME NEW w \in Worker, OrderedLog(w) PROVE ConnOK'
    <2>1. UNCHANGED <<up, taken, conn, queue>> /\ pc[w] = "log"
      BY <1>6 DEF OrderedLog
    <2>2. CASE MyTurn(w)
      <3>1. cur' = [cur EXCEPT ![w] = None] /\ BroadcastLog(w)
        BY <1>6, <2>2 DEF OrderedLog
      <3>2. \A v \in Worker : v # w => cur'[v] = cur[v] /\
               (pc'[v] \in {"log", "wait_log"} <=> pc[v] \in {"log", "wait_log"})
        BY <1>t, <3>1 DEF BroadcastLog
      <3>3. cur'[w] = None
        BY <1>t, <3>1
      <3> QED BY <1>n, <2>1, <3>2, <3>3 DEF ConnOK
    <2>3. CASE ~ MyTurn(w)
      <3>1. pc' = [pc EXCEPT ![w] = "wait_log"] /\ cur' = cur
        BY <1>6, <2>3 DEF OrderedLog
      <3> QED BY <1>t, <2>1, <3>1, ConnKept
    <2> QED BY <2>2, <2>3
  <1>7. ASSUME NEW w \in Worker, Recv(w) \/ OpenPipe(w) \/ WaitPid(w) \/ Fork(w) PROVE ConnOK'
    <2>1. \A c \in Client : Server \in conn'[c] <=> Server \in conn[c]
      BY <1>7, ForkHolders DEF Recv, OpenPipe, WaitPid
    <2>2. UNCHANGED <<up, taken, queue, cur>> /\ pc[w] \in {"recv", "pipe", "fork", "waitpid"}
      BY <1>7 DEF Recv, OpenPipe, WaitPid, Fork
    <2>3. \E p \in {"send", "close", "pipe", "fork", "close_write"} : pc' = [pc EXCEPT ![w] = p]
      BY <1>7 DEF Recv, OpenPipe, Fork, WaitPid, Answer
    <2> QED BY <1>t, <2>1, <2>2, <2>3, ConnKept
  <1>8. ASSUME NEW w \in Worker, CreateWorker(w) \/ CloseWrite(w) \/ ReadPipe(w)
                                   \/ ReadFails(w) \/ SpuriousWakeup(w) \/ Send(w)
        PROVE  ConnOK'
    <2>1. UNCHANGED <<up, taken, queue, cur, conn>>
      BY <1>8 DEF CreateWorker, CloseWrite, ReadPipe, ReadFails, SpuriousWakeup, Send
    <2>2. \A v \in Worker : pc'[v] \in {"log", "wait_log"} <=> pc[v] \in {"log", "wait_log"}
      BY <1>t, <1>8
         DEF CreateWorker, CloseWrite, ReadPipe, ReadFails, SpuriousWakeup, Send
    <2> QED BY <2>1, <2>2, ConnKept
  <1>9. ASSUME NEW w \in Worker, CgiExit(w) PROVE ConnOK'
    <2>1. \A c \in Client : Server \in conn'[c] <=> Server \in conn[c]
      BY <1>9, HttpdAssumption DEF CgiExit
    <2> QED BY <1>9, <2>1, ConnKept DEF CgiExit
  <1>10. CASE UNCHANGED vars
    BY <1>10, ConnKept DEF vars
  <1> QED BY <1>1, <1>2, <1>3, <1>4, <1>5, <1>6, <1>7, <1>8, <1>9, <1>10
          DEF Next, WorkerStep, ClientStep

----------------------------------------------------------------------------
(* The theorems.                                                           *)

\* The invariant holds initially and is kept by every step.
LEMMA InvInit == Init => Inv
  <1> SUFFICES ASSUME Init PROVE Inv
    OBVIOUS
  <1>1. TypeOK
    BY TypeInit
  <1>2. WorkerOK
    BY DEF Init, WorkerOK, Answered
  <1>3. SeqOK
    BY DEF Init, SeqOK, Front
  <1>4. AcceptedOK /\ LogOK
    BY DEF Init, AcceptedOK, Passed, LogOK, None
  <1>5. WaitOK
    BY DEF Init, WaitOK, NoLostWakeup
  <1>6. DescriptorsAccounted
    BY HttpdAssumption DEF Init, DescriptorsAccounted, Range, Client, None
  <1> QED BY <1>1, <1>2, <1>3, <1>4, <1>5, <1>6 DEF Inv

\* The same, for a step.
LEMMA InvStep == Inv /\ [Next]_vars => Inv'
  <1>1. DescriptorsAccounted <=> ConnOK /\ PipeOK /\ ChildOK
    BY DEF DescriptorsAccounted, ConnOK, PipeOK, ChildOK
  <1>2. DescriptorsAccounted' <=> ConnOK' /\ PipeOK' /\ ChildOK'
    BY DEF DescriptorsAccounted, ConnOK, PipeOK, ChildOK
  <1> QED BY <1>1, <1>2, TypeStep, WorkerOKStep, SeqStep, AcceptedStep, LogOKStep,
             WaitStep, ConnStep, PipeStep, ChildStep DEF Inv

\* The server keeps its invariant.
THEOREM Invariance == Spec => []Inv
  BY InvInit, InvStep, PTL DEF Spec

\* Every queued request is in one place - the queue, one worker, or the log - and
\* the sequence numbers handed out by enqueue have no gap, for any number of
\* workers and clients.
THEOREM OnePlaceTheorem == Spec => []OnePlace
  <1>1. Inv => OnePlace
    <2> SUFFICES ASSUME Inv PROVE OnePlace
      OBVIOUS
    <2> USE DEF Inv
    <2>0. /\ Len(queue) \in Nat /\ Len(log) \in Nat
          /\ nextSeq \in Nat /\ nextLogSeq \in Nat /\ Front \in Int
          /\ DOMAIN queue = 1 .. Len(queue) /\ DOMAIN log = 1 .. Len(log)
      BY Ranges DEF Front, TypeOK
    <2>1. \A i, j \in DOMAIN queue : queue[i] = queue[j] => i = j
      BY <2>0 DEF SeqOK
    <2>2. \A v, w \in Worker : cur[v] = cur[w] /\ cur[v] # None => v = w
      BY DEF SeqOK
    <2>3. \A c \in Range(queue) : seq[c] \in Front .. nextSeq - 1
      BY <2>0 DEF Range, SeqOK, Front
    <2>4. \A c \in Held : seq[c] \in nextLogSeq .. Front - 1
      BY DEF Held, SeqOK
    <2>5. \A c \in Logged : seq[c] \in 0 .. nextLogSeq - 1
      BY <2>0 DEF Logged, SeqOK
    <2>6. Range(queue) \cap Held = {} /\ (Range(queue) \cup Held) \cap Logged = {}
      BY <2>0, <2>3, <2>4, <2>5 DEF SeqOK
    <2>7. \A c \in Enqueued : seq[c] \in 0 .. nextSeq - 1
      BY <2>0, <2>3, <2>4, <2>5 DEF SeqOK, Enqueued, Front
    <2>8. ASSUME NEW n \in 0 .. nextSeq - 1 PROVE \E c \in Enqueued : seq[c] = n
      <3>1. CASE n < nextLogSeq
        <4>1. n + 1 \in 1 .. Len(log) /\ seq[log[n + 1].client] = n
          BY <2>0, <3>1 DEF SeqOK
        <4> QED BY <2>0, <4>1 DEF Logged, Enqueued
      <3>2. CASE nextLogSeq <= n /\ n < Front
        <4>1. PICK w \in Worker : cur[w] # None /\ seq[cur[w]] = n
          BY <2>0, <3>2 DEF SeqOK
        <4> QED BY <4>1 DEF Held, Enqueued
      <3>3. CASE Front <= n
        <4>1. n - Front + 1 \in 1 .. Len(queue)
          BY <2>0, <3>3 DEF Front
        <4>2. seq[queue[n - Front + 1]] = n
          BY <2>0, <4>1 DEF SeqOK
        <4> QED BY <2>0, <4>1, <4>2 DEF Range, Enqueued
      <3> QED BY <2>0, <3>1, <3>2, <3>3
    <2>9. {seq[c] : c \in Enqueued} = 0 .. nextSeq - 1
      BY <2>7, <2>8
    <2> QED BY <2>1, <2>2, <2>6, <2>9 DEF OnePlace
  <1> QED BY <1>1, Invariance, PTL

\* ordered_log prints the requests in the order they were accepted, each with the
\* status the client was sent.
THEOREM LogInOrderTheorem == Spec => []LogInOrder
  <1>1. Inv => LogInOrder
    <2> SUFFICES ASSUME Inv PROVE LogInOrder
      OBVIOUS
    <2>1. DOMAIN log = 1 .. Len(log)
      BY DEF Inv, TypeOK
    <2> QED BY <2>1 DEF Inv, SeqOK, LogOK, Agrees, LogInOrder
  <1> QED BY <1>1, Invariance, PTL

\* While somebody waits in ordered_log, the worker whose turn it is does not wait;
\* while requests are queued, not every worker sleeps in dequeue.
THEOREM NobodyWaitsTheorem == Spec => []NobodyWaitsInVain
  <1>1. Inv => NoLogDeadlock
    <2> SUFFICES ASSUME Inv, NEW w \in Worker, pc[w] = "wait_log"
                 PROVE  \E v \in Worker : cur[v] # None /\ MyTurn(v) /\ pc[v] # "wait_log"
      BY DEF NoLogDeadlock
    <2> USE DEF Inv
    <2>0. nextLogSeq \in Nat /\ Front \in Int
      BY Ranges DEF Front
    <2>1. cur[w] # None /\ ~ MyTurn(w)
      BY DEF WorkerOK, WaitOK
    <2>2. seq[cur[w]] \in nextLogSeq .. Front - 1 /\ seq[cur[w]] # nextLogSeq
      BY <2>1 DEF SeqOK, MyTurn
    <2>3. nextLogSeq \in nextLogSeq .. Front - 1
      BY <2>0, <2>2
    <2>4. PICK v \in Worker : cur[v] # None /\ seq[cur[v]] = nextLogSeq
      BY <2>3 DEF SeqOK
    <2> QED BY <2>4 DEF MyTurn, WaitOK
  <1>2. Inv => NobodyWaitsInVain
    BY <1>1 DEF Inv, WaitOK, NobodyWaitsInVain
  <1> QED BY <1>2, Invariance, PTL

\* The server holds a connection from accept to close and its end of a pipe until
\* it has forked; a child that has ended holds nothing.
THEOREM DescriptorsTheorem == Spec => []DescriptorsAccounted
  <1>1. Inv => DescriptorsAccounted
    BY DEF Inv
  <1> QED BY <1>1, Invariance, PTL
=============================================================================
