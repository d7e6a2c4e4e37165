# A TLA+ verification of the OS2026 labs

The repository holds nine independent C programs, the solutions of an operating
systems course: each lives in its own directory `src/m1` ... `src/m9`. This directory
models them in TLA+, model-checks small instances of all of them with TLC and
proves theorems about eight with TLAPS: all but the profiler m3. Of the 38
properties that the runs check 31 are proved for every value of the constants.

    tlc -config MCKvdb.cfg MCKvdb        # any run: see "Runs"
    tlapm KvdbProofs.tla                 # the proofs of one module: see "Proofs"

`PROJECT.json` lists the components, the runs, the correspondence of every
definition to source lines, the hazards the properties are aimed at, and for
every checked property a faulty variant of some definition that breaks it. These
variants stand next to the definition they vary, under a comment that begins
"Faulty variant"; no specification uses them.

## 1. Inventory

The programs share no code. Within each, this is the state, what changes it,
what makes it hard, and what correctness means.

| component | state | operations | interacts through | hard behaviour | correct means |
|---|---|---|---|---|---|
| m9 `libkvdb` | the file of records; `global_mutex`, `db->mutex`, the flock; file offset | `kvdb_open`, `kvdb_put`, `kvdb_get`, `kvdb_close` | file and flock shared by processes, mutexes by threads | interleaving, kills, loss of power, failing calls | linearizable map; what `put` acknowledged survives; append-only |
| m7 `httpd` | request queue, sequence numbers, log turn, CGI children, open descriptors | accept/enqueue, dequeue, `handle_request`, `run_cgi`, `ordered_log` | two mutexes with condition variables, pipes, fork | lost wakeups, waits for a turn, inherited descriptors | each request answered and logged once, in order of arrival |
| m5 `mymalloc` | list of block headers, memory from `vmalloc`, spinlock | `mymalloc`, `myfree` | threads share the heap | long sequences of calls, boundary sizes, placement of chunks | allocations never overlap; list tiles the heap |
| m6 `gpt` with `thread.h` | table of threads, globals of `parallel_for`, activations, tokens | `parallel_for`, `spawn`, `join`, the layers, sampling | threads read slice and function from globals, write one array | order of layers, cut of ranges, size of the table, offsets of 39 tensors | same result as serial code; no race |
| m1 `labyrinth` | the map file | load, check, print, move, save | invocations share the file | invocations at the same time, failing write | the board changes by legal moves only |
| m2 `pstree` | list of processes, children arrays | scan `/proc`, build, sort, print | the changing process table | a snapshot that is not atomic, pids used again | every process printed once, below its parent |
| m3 `sperf` | table of system calls, last report | start strace, parse, add, report | pipe, strace, command and what it leaves running | end of the pipe, full table, broken clock | reports true for the trace so far; the last one complete; ends |
| m4 `crepl` | loaded functions, temporary files | compile, load, call | compiler, dynamic linker | eight calls that may fail per line; order of symbols | a refused line leaves nothing; names keep their meaning |
| m8 `fsrecov` | mapped FAT32 image, candidates | scan entries, choose, copy, checksum | temporary files, pipes, child processes | arbitrary data read as entries, failing calls | files of the image under their names with their checksums |

All nine programs are modelled. Only `m6/thread-sync.h` is not: nothing calls it.

## 2. Modules

    KvStore            abstract: a linearizable, durable map
    Kvdb               m9, one step per lock or file operation
    KvdbRefinement     EXTENDS Kvdb, INSTANCE KvStore: the refinement mapping
    KvdbProofs         EXTENDS KvdbRefinement: locks, file, disk, refinement
    MCKvdb             EXTENDS KvdbRefinement: instances
    Httpd, HttpdProofs, MCHttpd            m7
    Mymalloc, MymallocProofs, MCMymalloc   m5
    GptForward         m6: memory layout and data flow of a forward pass
    Gpt                EXTENDS GptForward: main, parallel_for, thread.h
    GptProofs          EXTENDS Gpt: data flow for every size, then the threads
    MCGpt              EXTENDS Gpt: instance
    LabyrinthGame      abstract: players on a board
    Labyrinth, LabyrinthProofs, MCLabyrinth   m1, INSTANCE LabyrinthGame
    Pstree, PstreeProofs, MCPstree            m2
    Sperf, MCSperf     m3
    Repl               abstract: a session of definitions and expressions
    Crepl, CreplProofs, MCCrepl         m4, INSTANCE Repl
    Fsrecov, FsrecovProofs, MCFsrecov   m8

### Kvdb (m9/kvdb.c)

`file` is what a read returns, a sequence of records. Of a record's bytes the
model keeps what the readers test: `short` (its end cannot be reached, or its header is
no header), `mixed` (complete, checksum wrong) or `whole`, and the committed
word. `durable` is the set of files a loss of power may leave: every write adds
images, with any part of the unsynced record present, and `fsync` reduces the set
to the file itself. `globalMutex`, `dbMutex` and `flock` are the three locks. The
flock belongs to the open file description, so to a handle, and is granted again
to the handle that has it: among threads that share a handle it excludes nobody.
`pos` is the offset threads share through a handle.

Each step of `lock_db`, of the bodies of `kvdb_put` and `kvdb_get` and of
`unlock_db` is an action (`LockGlobal` ... `UnlockGlobal`). A failing call is an
action or a disjunct of its own (`FlockFails`, `PutFails`, `GetFails`, the second
disjunct of `PutHeader`), enabled by the constant `Faults`. `ProcCrash` ends a
process between any two steps, `PowerLoss` ends all of them and picks a file out of
`durable`.

`KvStore` says what callers may rely on. A call is invoked, takes effect at one
instant and returns; a put that failed took effect wholly or not at all; one that
returned 0 is on stable storage. `KvdbRefinement` maps the committed word to the
instant of a put and the end of the scan to the instant of a get.

Assumptions: a later successful `fsync` also writes what a failed one left dirty (on
some kernels it does not; see the hazards); a handle is closed only when no call uses it
(its mutex would be destroyed while held); handles are not used across `fork`; the
library is the only writer of the file, but for a partial record at the end that it may find
when it is opened; the name of the file is on stable storage, although `kvdb_open` may create
it and never syncs the directory (a file system may lose a new file with all that was
acknowledged; see the hazards). A `kvdb_get` into a buffer that is too short copies a part; the
model returns the value. The checksum tells different contents apart.

### Httpd (m7/httpd.c)

The main thread creates the workers, accepts and queues (`CreateWorker`, `Accept`, then
`Enqueue` or `EnqueueFails`; `MainFails`), with the connection it has accepted in
`taken`; workers run `Dequeue`, `Recv`, `OpenPipe`, `Fork`,
`CloseWrite`, `ReadPipe`, `WaitPid`, `Send`, `CloseClient`, `OrderedLog`. `Recv` and `Send` wait for
the client and have no timeout, so they belong to `ClientStep`; `WorkerStep` is what a worker does
without one. A critical section is one
step, because nothing outside touches what it touches; waiting on a
condition variable is a state (`wait_queue`, `wait_log`), woken by signal, broadcast or without reason.
`pipe[w]` and `conn[c]` are the processes that hold the write end of a pipe or
a connection: nothing is marked close-on-exec, so `Fork` gives the child all of
them, and a reader sees the end of its pipe only when every child that was forked
meanwhile has ended. Requests are abstracted to how they are answered, the output of
a program to its first line as `parse_cgi_status` sees it.

### Mymalloc (m5/mymalloc.c)

`block` maps addresses to headers, `head` is `heap_head`; the list is followed
through `next` as in the code. Sizes are computed modulo `WORD`. The operators
`InsertBlock`, `CoalesceWithNext`, `SplitBlock`, `FindFreeBlock` are the functions
of the same name; one action is one call under the lock, so that every intermediate
state of the heap exists while other threads spin. `live` records what callers
hold. `vmalloc` may fail and places chunks `below` all earlier ones, as Linux does for
mappings of a fresh address space, or `anywhere`. `malloc_count`, which nothing
reads, is left out; callers free each pointer once.

### GptForward and Gpt (m6/gpt.c, thread.h)

`GptForward` computes the offsets of the 16 parameter and 23 activation tensors as
`malloc_and_point_*` does and gives, for every unit of every call of
`parallel_for`, the addresses it reads and writes. Values are left out:
the properties are about who computes what from what, and when. `Gpt` runs the passes: `ParseArgs`, `Forward`,
`Call` (slices into the globals), `Spawn`, `RunMain`, `RangeWorker` (a thread finds its
slice by its number), `Compute` (one unit), `Return`, `Join`, `SampleMult`.
`pthread_create` may fail up to `MaxMissing` times; `spawn` does not notice.

### Labyrinth (m1/labyrinth.c)

Every invocation is a process: `Invoke`, `Read` (a buffer of rows, until the end of the
file or a row too many: `AtEnd`), `Loaded` (all
checks of `loadMap`, with `isConnected` as the recursive search of the code), `Move`,
`OpenForWriting` (which empties the file), `Flush`, `Exit`, and the failures
`FileFails` (the file cannot be opened, or a read of it fails at any point: `ferror`), `FlushFails`, `Crash`. History variables for the properties: `before` (the
file when an invocation began), `torn` (a save was cut short) and `overlapped` (two
invocations ran at the same time). Rows are the unit of reading and writing. Arguments
that `main` refuses before it opens a file have no effect and are left out, except for an
unknown direction (`jump`), which is found only in `movePlayer`. `Dfs` is a recursive
function from the set of visited cells and the cell of a call to the visited cells
afterwards; `Visit` is its body. `FilesAssumption` says that the file a game starts with
shows every player at most once: `loadMap` does not test that, and moves keep it.

`LabyrinthGame` is the promise to players who take turns. Its variable `intact` is the
condition: the refinement maps it to `~torn /\ ~overlapped`, and `Lose` ends
the promise. What remains true after that is said by `FileValid` and `RowsTrue`.

### Pstree (m2/pstree.c)

`table` is the system's process table, changed by `Fork` and `Exit` (children of a process that
ends go to process 1; a pid that is free may be used again) while the program reads. The
first table is any forest: in a container, and with kthreadd, more processes than the first have
no parent. The kernel hands out directory entries in batches (`NextTgid`), so a pid may be stale
when its status file is opened (`SkipProcess`, `AddProcess`). After the
scan only memory counts: `BuildTree`, `SortTree`, `PrintForest`, and `PrintTree`, one
call of the recursive function with the calls to come in `stack`. No two entries compare
as equal, so the result of `qsort` is determined: `Ordered` puts in place k the entry
that k - 1 others come before. Zombies are
processes as any other; only `/proc` itself is read, and the option `-V` and
the help text, which read nothing, are left out. History: `lived` (who was there and readable
all along), `reused` (some pid changed hands), `origin` (who was behind a record).

### Sperf (m3/sperf.c)

`writers` is who holds the write end of the pipe: sperf until `CloseWriteEnd`, strace, the
command and what the command leaves in the background. `Profiler` is the parent: `Fork`,
`Fdopen`, one line per `GetLine` with `AddStat` and perhaps a report,
`EndOfTrace`, `Wait`, `Abort`. `getline` answers -1 for an error as for the end (`GetLineFails`, kept in
the history `cut`): the last report is then one of the lines read, and strace is killed by the broken pipe if it writes
again. Times in the trace are integers. The clock is arbitrary: every call of
`now_ms` may return any of `Times`, so that refreshes fall anywhere. Names that the
buffer of 64 bytes would cut to the same text are left out.

### Repl and Crepl (m4/crepl.c)

A line is what it defines, what it calls, whether it compiles and whether its code ends
the process. Every call on the way of a line is an action with its failure: `MakeSource`,
`MakeLibrary`, `WriteSource`, `ForkCompiler`, `WaitCompiler`, `DlopenFails`, then
`LoadFunction` or `RefuseFunction`, or `LoadExpression`, `DlsymFails`, `Call`.
The dynamic linker is modelled by what the program relies on: `scope` is the set of global
libraries opened by the program, which are searched in the order of loading; in front of all of them
comes what was there from the start, crepl itself and libc: `Native`, a function from names to
code. So `Lookup` finds a native function first, and then the oldest library that
defines a name; a definition of `rand` is answered OK, but calls go to libc's. Code is bound when it is
loaded. A handle's library is known by the number of its line: `mkstemp` makes a new
inode each time, and a loaded library keeps its own in use.

`Repl` says what a user may rely on: a native name means what it always did, any other the first
definition that was accepted,
a value comes from the meanings at that time, a refused line changes nothing. The mapping
takes the meaning of a name to be what `Lookup` finds.

### Fsrecov (m8/fsrecov.c, fat32.h)

Offsets and sizes are in bytes; `HEADER`, `ENTRY` and `BMP_HEADER` are the lengths of what is read in
one piece, 512, 32 and 54 in the code. `image` has a slot for each byte: what the bytes from there on mean
to a reader that takes them for a directory entry or for the head of a BMP file. `InitFatView`
decides on the length of the file and the header, `ScanOther`, `ScanLfn` and `ScanFile` are the cases of the loop of
`collect_candidates`, `SeenCandidate` and `BmpHeaderOk` the functions of that
name. Then, per candidate, `Mkstemp`, `Write` (which may be partial), `Close`,
`StartTool`, `StartReading`, `GotDigest`, `WaitTool` and `Unlink`, with `sha1sum` tried first and
`shasum` after any failure. A checksum is the number of bytes the temporary file had. `reached` is the
history of how far the image was read. The program never follows the FAT: a file is `size` bytes
from its first cluster on, and of two entries with one name, in whatever directories, only
the first is reported. The two tests that data lies in the image (in the scan and in
`bmp_header_ok`) each suffice; both are modelled.

## 3. Runs

| run | instance | checks | shows |
|---|---|---|---|
| `kvdb_linearizable` | 2 processes, 3 threads (two share a handle), 2 keys, 2 values, 3 calls, failing flock and malloc | `TypeOK`, `MutualExclusion`, `ImplementsStore` | whatever threads and processes interleave, a get returns the last put |
| `kvdb_power` | 2 processes with a thread each, 3 calls, failing flock, malloc, write and fsync, one kill, one loss of power | `NoHiddenRecord`, `AckedDurable`, `AppendOnly`, `ImplementsStore`, `CallsReturn` | acknowledged records survive, half-done ones never show, nothing committed is cut off, no error path keeps a lock |
| `kvdb_read_error` | 1 thread, reads may fail | violates `AppendOnly` | finding 1 |
| `httpd` | 2 workers, 3 clients, every call may fail | `OnePlace`, `LogInOrder`, `NobodyWaitsInVain`, `DescriptorsAccounted`, `EveryRequestEnds` | the queue, the ordered log and the children never block each other for good; only a client that is silent or does not read holds up itself and those behind it |
| `malloc_heap` | 2 threads, 4 calls of `mymalloc`, chunks downwards | `LiveSound`, `HeapInOrder` | any order of calls keeps the heap in order |
| `malloc_placement` | the same, chunks anywhere | violates `LiveDisjoint` | finding 2 |
| `gpt_parallel` | 2 layers, 2 heads, 1-3 workers, passes over 1 and 2 tokens, one missing thread | `ReadsReady`, `NoRace`, `InBounds`, `EachUnitOnce`, `TableNotFull` | the parallel pass computes what the serial one does |
| `labyrinth` | all boards of 2 x 2 and 1 x 3, all walls of 2 x 3, winding 3 x 3 ones, malformed files; 2 invocations, in turn or at once, opens, reads and writes fail, kills | `FailureKeepsFile`, `ConnectedMeansReachable`, `FileValid`, `RowsTrue`, `ImplementsGame` | one at a time the program plays the game; what remains true without a lock and after a torn save; the search decides connectedness |
| `pstree` | 4 pids, all forests over them, one birth, any number of deaths, both orders, opens and allocations fail | `PrintedOnce`, `NobodyMissing`, `IndentedUnderParent`, `SiblingsInOrder` | what the output is worth although it is a picture of no single instant |
| `sperf` | 4 calls for a table of 3, 4 lines, reports of 2, a pipe of 1 line, a clock that may stand still, jump or be set back, calls fail, `getline` too | `ReportsTrue`, `FinalReport`, `EndsWithCommand` | every report is right for what was read, the last one for all unless `getline` failed; the program does not wait for itself |
| `crepl` | 2 functions with 2 texts, calling none, the other, themselves or a function of libc, which may also be defined anew; 4 lines, a table of 2, every call fails | `NothingLeftBehind`, `ImplementsRepl`, `LineAnswered` | a session is the one `Repl` describes, whatever fails |
| `fsrecov` | all directories of 4 entries over 5 kinds, misleading images and headers, sectors that are no multiple of an entry, at most 2 candidates and 2 parts of a name, every call fails | `InBounds`, `CandidatesRight`, `DigestsRight`, `NothingLeft`, `Ends` | only the image is read, files get their own names and checksums, nothing is left behind |

Every module has a type invariant `TypeOK`. In Kvdb it is a property of its own; elsewhere it
is the first conjunct of the invariant that gives the structure of the state: `OnePlace`,
`HeapInOrder`, `EachUnitOnce`, `FileValid`, `PrintedOnce`, `ReportsTrue`,
`NothingLeftBehind` and Fsrecov's `InBounds`. Where a property has named parts
(`NobodyWaitsInVain == NoLogDeadlock /\ NoLostWakeup`, `LiveSound`,
`HeapInOrder`) the parts are stated one by one in the module.

### Why the bounds are enough

- Kvdb: three calls give a put behind a put and a get behind both, or a put that repairs
  what an interrupted one left; two threads on one handle and a third in another process
  are the three ways in which two callers can be related. Two values tell an old
  record from a new one. A kill and a loss of power can each fall between any
  two steps. With loss of power one value is enough: the question is whether a record is there and committed. The safety properties and the refinement are proved without these bounds.
- Httpd: with two workers one can wait for the turn of the other; three clients leave
  one in the queue meanwhile. A third worker adds no new relation between a waiter and the
  one it waits for.
- Mymalloc: four allocations fill a chunk of 16 (three blocks of 2 or 4 bytes), and force
  a second one next to it or apart from it. The request of 13 needs more than
  a chunk. Requests 1 and 3 take the branch that splits and the one that does not.
- Gpt: with three workers ranges of 1, 2, 4 and more units are cut evenly, unevenly and
  into empty slices. The token 1 of the arguments selects the last row of the embedding,
  2 is refused. Two layers make offsets per layer and the hand-over
  between layers matter. `MAX_THREADS` = 64 is what 3 workers need for the
  passes of the instance; the code's 4096 entries are enough for models of up to
  14 layers with 4 workers, not for deeper ones (hazards).
- Labyrinth: on 2 x 3 boards every way for cells to touch occurs; the 3 x 3 ones
  need all four directions of the search. `BUF` is 2 rows: maps of one and two rows are
  written in one piece, those of three in two. Two invocations are the least that can overlap.
- Pstree: four pids are init, a parent, a child and one more, so records can form a
  chain, a fork or, when a pid is used again, a loop. The buffer of `readdir` holds 2, so that
  pids get stale in it; the list grows once. One birth is enough to give a pid to a second process.
- Sperf: four calls overfill the table, two take equal time, one none. The
  states of the background process are all there are: none, running, ended.
- Crepl: two definitions of a name and one of its caller fill the table; the fourth line
  calls, defines once more or is refused. 128 is where the code has 2. One name of libc suffices: a
  definition of it is never found, a caller of it bound to libc's.
- Fsrecov: four entries hold a long name of three parts, one more than the limit, and its
  entry; or an interrupted name and two files; or one more file than there is
  place for. An entry has two bytes, so that one can lack its last, the header and the head of a file three.
  One file ends exactly at the end of the image. The headers declare less than the file has, the same, and
  more, less than the header itself, reserve everything, have clusters of no or of two sectors, or sectors of
  none or of three bytes; files are too short for a header by one byte and by more.

Deadlock is checked in `gpt_parallel`: the program ends in `Done` or can go on.
The other systems stop when their bounds are used up, so the runs say
`CHECK_DEADLOCK FALSE`; that nobody waits for ever is stated by `CallsReturn`,
`NobodyWaitsInVain`, `EveryRequestEnds`, `EndsWithCommand`, `LineAnswered` and `Ends`.

### Fairness

- Kvdb: weak fairness of `Proceed(t)`, the steps of a call. Threads are scheduled
  preemptively, and the number of calls is bounded, so no thread overtakes another
  at a lock infinitely often; weak fairness of a lock's grant is then what pthreads and the kernel
  give. Failing is never forced.
- Httpd: weak fairness of the steps a worker does by itself, of its creation, of queueing what was
  accepted; and of `CgiExit`, which is an assumption about CGI programs: the server has no timeout, and one that
  never ends stops the log (hazards). `accept` is not fair: clients need not come. Nor are `Recv` and `Send`:
  `recv` and `send` have no timeout, and a client may be silent or read nothing for ever. `EveryRequestEnds`
  therefore has a condition: the request of `c` ends if all clients up to `c` are `Attentive`, that is
  if `Recv` and `Send` are fair for them. Those after `c` need not be, which is what the ordered log promises; an
  earlier one must, because the log waits for its turn.
- Pstree, Gpt, Mymalloc, Labyrinth: only safety is claimed, no fairness assumed.
- Sperf: weak fairness of sperf and of strace's start and end, none of a failing `getline`; none of the command nor of what it leaves
  behind, which `EndsWithCommand` has as its condition.
- Crepl: weak fairness of the program and the compiler, which is assumed to end; none of the next line.
- Fsrecov: weak fairness of the program and of the tools, which are assumed to end, with or without output.

## 4. Proofs

Eight modules, each about a specification with any values of its constants: any
number of processes, threads, workers, clients, keys and lines, any set of failing calls and any
bounds. Every property below is also checked by a run; the inductive
invariants were model-checked on the instances of the runs before they were proved.

| module | theorems | condition |
|---|---|---|
| `KvdbProofs` | `TypeTheorem`, `MutualExclusionTheorem` | |
| | `AckedDurableTheorem`, `NoHiddenRecordTheorem`, `AppendOnlyTheorem` | reads do not fail |
| | `ImplementsStoreTheorem` | reads do not fail |
| `HttpdProofs` | `OnePlaceTheorem`, `LogInOrderTheorem`, `NobodyWaitsTheorem`, `DescriptorsTheorem` | |
| `MymallocProofs` | `LiveSoundTheorem`, `HeapInOrderTheorem` | `Sensible` |
| `GptProofs` | `DataFlow` | |
| | `EachUnitOnceTheorem`, `NoRaceTheorem`, `ReadsReadyTheorem` | |
| | `TableNotFullTheorem` | `TableSuffices` |
| | `InBoundsTheorem` | `PositionsSuffice` |
| `CreplProofs` | `NothingLeftTheorem`, `ImplementsReplTheorem` | |
| `FsrecovProofs` | `InBoundsTheorem`, `CandidatesTheorem`, `DigestsTheorem`, `NothingLeftTheorem` | |
| `LabyrinthProofs` | `ConnectedTheorem`, `FailureKeepsFileTheorem`, `FileValidTheorem`, `RowsTrueTheorem`, `ImplementsGameTheorem` | |
| `PstreeProofs` | `PrintedOnceTheorem`, `NobodyMissingTheorem`, `IndentedTheorem`, `SiblingsTheorem` | |

The conditions:

- *Reads do not fail* is `"read" \notin Faults`. With failing reads `AppendOnly` is
  false (finding 1).
- `Sensible`: chunks are placed downwards (otherwise `LiveSound` is false, finding 2), the
  sizes of a header and of a page are multiples of the alignment (32, 4096 and 8 in the code), and
  no request is so large that rounding it wraps around.
- `TableSuffices`: `(Limit - 1) * NumOps * (MAX_WORKERS - 1) <= MAX_THREADS`. In the code this is
  9 * 124 * 3 = 3348 <= 4096. The instance of `gpt_parallel` has the smaller table that it
  just needs, since short ranges need fewer threads; there TLC is what shows the property.
- `PositionsSuffice`: `Limit - 1 <= maxT`; 9 and 1024 in the code.

### The arguments

**Kvdb, locks.** `TypeOK` and `MutualExclusion` are not inductive. `LockInv ==
TypeOK /\ CallOK /\ LockOK` is: a call in progress has an open handle of its own process
(`CallOK`), from the flock on it owns the handle's mutex, and in the file its handle has the
flock (`LockOK`). Two threads in the file then have one handle, and so are one
thread. A kill releases the locks of that process and ends its calls together.

**Kvdb, file.** `FileInv == PutOK /\ AckedValid /\ NoHiddenRecord /\ AckedDurable`. `PutOK`
says, for each step of a put, how much of the file is valid, that its own record is last,
and that between the first `fsync` and the committed word the disk holds exactly the
file. That is why the committed word can never reach the disk before the record
does. `OthersQuiet` uses the mutual exclusion: while one put is in the file no other is.

**Kvdb, refinement.** `RefInv == ResultOK /\ GetOK /\ RecordOK /\ DurableOK`, on top of the two
above: a call has a result exactly while it unlocks; a get that has come to offset `n` has
the value of the last valid record of its key among the first `n` (`GetOK`); the record a
put is about to commit is its own; what a loss of power may leave has no record that the
file does not have. One lemma per action shows a step of `KvStore` or a stutter.
Committing a record is the only step that changes what `Contents` finds in the file.

**Httpd.** `SeqOK` carries the argument: the sequence numbers of the log, of the workers and of
the queue follow each other without a gap, `0 .. nextLogSeq - 1`,
`nextLogSeq .. Front - 1` and `Front .. nextSeq - 1`. So whose turn it is is always a
worker, never a request that is still queued, and with `WaitOK` (nobody waits when it is its turn)
that worker is not asleep. `WorkerOK` and `AcceptedOK` say what a worker has at each step and that
a client that was not passed on is nowhere (`Passed`: those accepted, but for the one in `taken`); `LogOK` that a line agrees with its response.

**Mymalloc.** `Inv` says that the headers form one list from `heap_head`, linked both ways and in the
order of the addresses, without overlap (`ListOK`); that they cover what `vmalloc` returned and
nothing else; what each thread inside the lock knows about its block (`LockOK`); that the
blocks in use are those callers have or threads are about to return or to free (`UseOK`); and
that two free neighbours exist only where a `myfree` is about to merge them
(`MergeOK`). The lemmas are about the list: what inserting, merging, splitting
and marking do to it. That the walk from `heap_head` meets every header
(`AllListed`) is a counting argument: the positions of the walk are distinct addresses, as many as there
are headers.

**Gpt.** `DataFlow` is about the memory only. The tensors are cut into slots, one per layer
and token; each slot has one writer among the calls of a pass, that
writer comes before all readers (`OneWriter`, `FilledBefore`), slots do not overlap (`SlotsApart`) and
lie in the allocated arrays (`SlotInside`); per kernel, units write disjoint
parts of their call's slots (`EncoderFits`, `LayernormFits`, `MatmulFits`, `AttentionFits`, ...). `Inv ==
TypeOK /\ MainOK /\ PoolOK /\ SlicesOK` is about `parallel_for`: the slices are those of the call,
threads at work have a rest of theirs, and what is neither done nor left belongs to a
thread that was never made. `TableOK` adds a bound on the threads used so far, and
`FlowOK` says which activations hold a result: those of the calls before this one and of the units
done. From there `DataFlow` gives `NoRace` and `ReadsReady`.

**Crepl.** `WorkOK` says per step which files and children there are, `LibsOK` which libraries: those of the
table and, while it is called, the one of the expression. `SameMeaning` then shows that what the
linker resolves is what the session of `Repl` knows: for a native name both are `Native`, whatever was
defined; for any other, the oldest library with it is that of the first definition accepted.

**Fsrecov.** `ImageOK` and `ItemsOK` say that what was read, and what every candidate will make the
program read, lies in the header or the declared part of the image, which lie in the mapping. `FileOK`
and `ToolOK` say per step what the temporary file holds, which descriptors are open and what the tool
may have written; `OutOK` is `DigestsRight` with the type of the lines. `CandidatesRight` is
about the end of the scan; `ScanOK` says the same of the entries in front of `off` at every
step of it (`FoundUpTo`), and that the parts of a name that are kept are those that stand
directly in front of `off` (`PartsBefore`). Entries are numbered there, `off` is the offset of the one
whose turn it is (`Offsets`), and what is left at the end is shorter than an entry (`AllScanned`). Names stay closed in the proof: the
scan and the property join the same parts. The first entry of a candidate is never named,
only that there is one before any entry of the next candidate.

**Labyrinth, search.** `SolutionExists` builds the recursive function of `dfs` on the sets of visited cells
of which fewer and fewer are missing (`Level`), because a call visits a new cell before it calls
again. A call returns what was visited before together with cells that can be reached, and leaves no
neighbour of a newly visited cell out (`CallAnswers`). So the search from the first cell visits exactly the
smallest set that contains it and is closed under neighbours, and it has as
many cells as the floor exactly if no part is cut off (`SearchDecides`).

**Labyrinth, file.** `Inv` has four parts: the types; how far each invocation has come with its
file (`Progress`); what holds as long as invocations run in turn (`InTurn`: what the one at work has read, and
what is left to write); and what holds at any time for a map that fits in one buffer (`AtOnce`: rows in
the file and in anybody's memory are rows of the first map, moved on, and as long as no save was cut short they are
all of them, with every player at most once, or the file is empty and somebody is saving). `MoveKeeps` is the fact about `movePlayer` on which all rest: a
move keeps the walls, the size and the connectedness of a map, and players single.
For the refinement, `OpenForWriting` is the move of the game and every other step leaves `Board` as
it is: the map of the one who saves stands for the file from the moment it is emptied.

**Pstree, processes.** Why do records read at different times form no loop? `Edge(d, e)`
says that e is the parent of d, in the table or in some record. A new process has no children, and
process 1, which takes over those of one that ends, has no parent, so neither step closes a loop: `Acyclic`,
stated over sets (every set of processes has a member with no parent in it), is inductive. It is about
processes, not pids; `KnownOK` ties the two: unless a pid changed hands, a pid in the table or in a record belongs to one
process. `ScanOK` says that the directory is read in the order of pids, so none comes twice, and `LivedOK` that
who was there all along is in a record or still ahead of the cursor.

**Pstree, tree.** Once the scan is over, the argument is about the sequence of lines `W == out \o stack`, of which the
first n are printed: `Good(W, n)`. No index comes twice (`Once`); every line is a root or stands behind
the printed line of its parent, with nothing less deep printed in between (`Placed`); calls to come are
innermost first (`Nested`); the children of what is printed are printed or to come
(`Reached`), in order (`InOrder`). One call of `print_tree` turns the first line to come into a printed one and
inserts its children behind it; that this keeps `Good` is the lemma `Insert`. It needs no acyclic records:
a loop is never entered, because no root leads to it. That it is not lost either when pids keep their owners is
`NobodyMissing`: those who are not printed would be a set in which everyone has a parent, against `Acyclic`.

### What stays with TLC

- Liveness under fairness (`CallsReturn`, `EveryRequestEnds`, `EndsWithCommand`, `LineAnswered`,
  `Ends`): out of the prover's reach.
- `ReportsTrue` and `FinalReport` of Sperf. They compare the table with sums over the trace, which
  are folds of the library over sets; what such a fold yields for every trace needs induction over data.

The library's induction theorems have an operator as a parameter and cannot be used. Where a proof
needs induction over numbers it takes the least counterexample (`LeastNumber`, `MinIsLeast`): so
are the recursive functions `Ends` of GptForward and `List` of Mymalloc unfolded, and a solution of
the recursion of `Dfs` found.

## 5. Findings

1. `m9/kvdb.c:105`: a read error in the scan of `kvdb_put` is taken for the end of the
   valid records, and the put truncates committed ones (`kvdb_read_error`).
2. `m5/mymalloc.c:119`: `extend_heap` returns the predecessor of the new block
   even when the two were not merged. A chunk above an earlier one makes
   allocations overlap (`malloc_placement`).

Facts about the code that nothing in the repository denies, so that a property has them as a
condition:

- `m6/thread.h:54`: the result of `pthread_create` is not tested. A slice is then never computed
  and the pass goes on with garbage: `ReadsReady` is claimed while every thread exists, `EachUnitOnce` except
  for the missing slice, and `NoRace`, `InBounds` and `TableNotFull` in any case.
- `m1/labyrinth.c:247`: `saveMap` empties the only copy of the map before it writes; a write
  that fails, or a kill, loses it (`torn`).
- `m8/fsrecov.c:313`: when the copy of a file could not be written, `sha1sum` is skipped but
  `shasum` is not, and the checksum of the truncated copy is printed (`failed`).
- `m2/pstree.c:244`: when pids are used again during the scan, two processes can be recorded as each other's
  parent, and neither is printed (`reused`).
- `m4/crepl.c:186`: libraries are opened with `RTLD_GLOBAL`, behind crepl's own. A definition of a name that libc has
  is answered OK and never called (`Native`).
- `m7/httpd.c:239` and `:41`: `recv` and `send` have no timeout. A client that is silent, or reads nothing, holds its
  worker and, through the ordered log, everyone behind it (`Attentive`).
- `m3/sperf.c:358`: an error of `getline` is taken for the end of the trace (`cut`).
- `m4/crepl.c:64`: when `fprintf` fails the stream is not closed. The model has no streams.
- `m9/kvdb.c:325`: `kvdb_close` takes no lock; closing a handle in use is left to the caller.
- `m7/httpd.c:403`: when `accept` fails, for instance because descriptors have run out, `main` returns and
  drops what is queued. `MainFails` models it.

## 6. Not modelled

- `m6/thread-sync.h`: wrappers of mutexes, condition variables and semaphores that
  `gpt.c` includes and never calls.
- Liveness of programs other than ours (CGI programs, commands under strace, expressions in crepl) is assumed or not claimed.
- Terminal output, help texts and option parsing; floating point in m6; loading of
  checkpoint files; HTTP header syntax beyond the status line; the bytes of records.
- `mymalloc` for sizes within a few bytes of the largest `size_t`: rounding wraps
  (`m5/mymalloc.c:19`) and the block granted is too small. The model computes it
  so; the runs leave such sizes out.
- The directory entry of a store that `kvdb_open` creates (`m9/kvdb.c:160`): it is taken to be on stable storage.
- Build files, tests, scripts and the course's test harness.

## 7. Plan

Done: all nine programs with their runs; the safety properties and the refinements
of `KvStore`, `Repl` and `LabyrinthGame` proved, except for Sperf.

Left, in this order:

1. Sperf: `ReportsTrue` and `FinalReport`. The invariant would be that the table is the
   sum, by call, of the lines read, and that the lines read and those in the pipe are the trace; `PickTop` is
   an order by rank like `Ordered` of Pstree. What is missing is that a sum over the lines read grows by
   the time of the next one, whichever element the fold takes first.
2. `kvdb_close` and handles across `fork`, which the code leaves to the caller.
