----------------------------- MODULE Labyrinth -----------------------------
(***************************************************************************)
(* The labyrinth program (m1/labyrinth.c).  Every invocation is a process  *)
(* that reads the map file, checks it, moves a player and writes the file  *)
(* again; nothing but the file is shared.  A file is a sequence of rows, a *)
(* row a sequence of characters.  The C library reads and writes at most   *)
(* BUF rows at a time.                                                     *)
(***************************************************************************)
EXTENDS Integers, Sequences, FiniteSets, FiniteSetsExt, SequencesExt

CONSTANTS Proc, Player,
          Files,        \* the files the game may start with
          Moves,        \* the values of --move; "print" for an invocation without
          MAX_ROWS, MAX_COLS, BUF,
          Faults,       \* subset of {"open", "read", "write", "crash"}
          MaxRuns       \* bound on the number of invocations

ASSUME LabyrinthAssumption ==
    /\ {MAX_ROWS, MAX_COLS, BUF} \subseteq Nat \ {0} /\ MaxRuns \in Nat
    /\ Faults \subseteq {"open", "read", "write", "crash"}

VARIABLES file,                  \* the map file
          pc, args,              \* process -> step and arguments
          map, pos,              \* process -> the map, rows read or written so far
          status,                \* process -> how its last invocation ended
          before,                \* process -> the file when it was started
          runs, start,           \* invocations so far; the first file
          torn,                  \* whether a save has not come to its end
          overlapped             \* whether two invocations ran at the same time

local == <<pc, args, map, pos, status>>
history == <<torn, overlapped>>
vars == <<file, local, before, runs, start, history>>

NoArgs == [player |-> CHOOSE x \in Player : TRUE, move |-> "print"]

----------------------------------------------------------------------------
(* Maps.                                                                   *)

Cells(m) == UNION {{r} \X (DOMAIN m[r]) : r \in DOMAIN m}

Ch(m, cell) == m[cell[1]][cell[2]]

\* The first of a set of cells in the order of the two loops over the map.
FirstOf(S) ==
    CHOOSE c \in S : \A e \in S : c[1] < e[1] \/ (c[1] = e[1] /\ c[2] <= e[2])

IsFloor(ch) == ch \in Player \cup {"."}

Floor(m) == {c \in Cells(m) : IsFloor(Ch(m, c))}

\* Faulty variant: the last direction is the third once more.
NeighboursCopied(c) == << <<c[1] - 1, c[2]>>, <<c[1] + 1, c[2]>>,
                          <<c[1], c[2] - 1>>, <<c[1], c[2] - 1>> >>

Neighbours(c) == << <<c[1] - 1, c[2]>>, <<c[1] + 1, c[2]>>,
                    <<c[1], c[2] - 1>>, <<c[1], c[2] + 1>> >>

\* The cells dfs may be called for: the map and its border.
Grid == (0 .. MAX_ROWS + 1) \X (0 .. MAX_COLS + 1)

\* The body of dfs, with visit for dfs itself: the set of visited cells afterwards.
Visit(visit, floor, visited, c) ==
    IF c \notin floor \/ c \in visited THEN visited
    ELSE LET n == Neighbours(c)
         IN  visit[visit[visit[visit[visited \cup {c}][n[1]]][n[2]]][n[3]]][n[4]]

Dfs(floor, from) ==
    LET visit[visited \in SUBSET floor] == [c \in Grid |-> Visit(visit, floor, visited, c)]
    IN  visit[{}][from]

IsConnected(m) ==
    LET floor == Floor(m)
    IN  IF floor = {} THEN TRUE
        ELSE Cardinality(Dfs(floor, FirstOf(floor))) = Cardinality(floor)

\* The checks of loadMap on the rows it has read.
WellFormed(m) ==
    /\ Len(m) \in 1 .. MAX_ROWS
    /\ \A r \in DOMAIN m :
          /\ Len(m[r]) \in 1 .. MAX_COLS /\ Len(m[r]) = Len(m[1])
          /\ \A c \in DOMAIN m[r] : m[r][c] = "#" \/ IsFloor(m[r][c])

LoadMap(m) == WellFormed(m) /\ IsConnected(m)

FindPlayer(m, p)       == {c \in Cells(m) : Ch(m, c) = p}
FindFirstEmptySpace(m) == {c \in Cells(m) : Ch(m, c) = "."}

\* Faulty variant: walls are not tested for.
IsEmptySpaceAny(m, c) == c \in Cells(m)

IsEmptySpace(m, c) == c \in Cells(m) /\ Ch(m, c) = "."

Step(d) == CASE d = "up" -> <<-1, 0>> [] d = "down" -> <<1, 0>>
             [] d = "left" -> <<0, -1>> [] d = "right" -> <<0, 1>> [] OTHER -> <<0, 0>>

Put(m, c, ch) == [m EXCEPT ![c[1]][c[2]] = ch]

\* Faulty variant: the cell the player leaves is not cleared.
ClearKept(m, from, p) == m

Clear(m, from, p) == IF FindPlayer(m, p) # {} THEN Put(m, from, ".") ELSE m

\* movePlayer: the new map, or << >> when the move is refused.
MovePlayer(m, p, d) ==
    LET starts == IF FindPlayer(m, p) # {} THEN FindPlayer(m, p) ELSE FindFirstEmptySpace(m)
        from == FirstOf(starts)
        to   == <<from[1] + Step(d)[1], from[2] + Step(d)[2]>>
    IN  IF d \in {"up", "down", "left", "right"} /\ starts # {} /\ IsEmptySpace(m, to)
        THEN Put(Clear(m, from, p), to, p)
        ELSE << >>

\* The files the game may start with are made of rows of characters, and show
\* every player at most once.
ASSUME FilesAssumption ==
    /\ Player # {} /\ "." \notin Player /\ "#" \notin Player
    /\ Files \subseteq Seq(Seq(STRING))
    /\ \A m \in Files, x \in Player : Cardinality(FindPlayer(m, x)) <= 1

----------------------------------------------------------------------------

\* The values of the variables; what is saved is a map that loadMap would take.
TypeOK ==
    /\ pc \in [Proc -> {"idle", "read", "move", "open", "write"}]
    /\ pos \in [Proc -> 0 .. MAX_ROWS + BUF]
    /\ status \in [Proc -> {"none", "success", "failure", "killed"}]
    /\ runs \in 0 .. MaxRuns
    /\ \A p \in Proc : pc[p] \in {"open", "write"} => WellFormed(map[p]) /\ IsConnected(map[p])

Init ==
    /\ file \in Files /\ start = file
    /\ pc = [p \in Proc |-> "idle"]
    /\ args = [p \in Proc |-> NoArgs]
    /\ map = [p \in Proc |-> << >>] /\ pos = [p \in Proc |-> 0]
    /\ status = [p \in Proc |-> "none"]
    /\ before = [p \in Proc |-> << >>]
    /\ runs = 0 /\ torn = FALSE /\ overlapped = FALSE

\* The process ends; its memory is gone.
Exit(p, how) ==
    /\ pc' = [pc EXCEPT ![p] = "idle"]
    /\ args' = [args EXCEPT ![p] = NoArgs]
    /\ status' = [status EXCEPT ![p] = how]
    /\ map' = [map EXCEPT ![p] = << >>] /\ pos' = [pos EXCEPT ![p] = 0]

\* The program is started with arguments that main accepts; how earlier
\* invocations ended is forgotten.
Invoke(p, who, d) ==
    /\ pc[p] = "idle" /\ runs < MaxRuns
    /\ runs' = runs + 1
    /\ pc' = [pc EXCEPT ![p] = "read"]
    /\ args' = [args EXCEPT ![p] = [player |-> who, move |-> d]]
    /\ status' = [q \in Proc |-> "none"]
    /\ before' = [q \in Proc |-> IF q = p THEN file
                                 ELSE IF pc[q] = "idle" THEN << >> ELSE before[q]]
    /\ overlapped' = (overlapped \/ \E q \in Proc : pc[q] # "idle")
    /\ UNCHANGED <<file, map, pos, start, torn>>

Rows(s, from) == SubSeq(s, from + 1, Min({from + BUF, Len(s)}))

\* The read loop of loadMap ends with the file, or with a row too many.
AtEnd(p) == pos[p] >= Len(file) \/ Len(map[p]) > MAX_ROWS

\* The read loop gets its next piece of the file.
Read(p) ==
    /\ pc[p] = "read" /\ ~ AtEnd(p)
    /\ map' = [map EXCEPT ![p] = @ \o Rows(file, pos[p])]
    /\ pos' = [pos EXCEPT ![p] = @ + Len(Rows(file, pos[p]))]
    /\ UNCHANGED <<file, pc, args, status, before, runs, start, history>>

\* After the loop the map is taken or refused, printed or moved on.
Loaded(p) ==
    /\ pc[p] = "read" /\ AtEnd(p)
    /\ \/ ~ LoadMap(map[p]) /\ Exit(p, "failure")
       \/ LoadMap(map[p]) /\ args[p].move = "print" /\ Exit(p, "success")
       \/ /\ LoadMap(map[p]) /\ args[p].move # "print"
          /\ pc' = [pc EXCEPT ![p] = "move"]
          /\ UNCHANGED <<args, map, pos, status>>
    /\ UNCHANGED <<file, before, runs, start, history>>

\* Faulty variant: the file is opened for writing before the move is tried.
MoveAfterOpen(p) ==
    LET m == MovePlayer(map[p], args[p].player, args[p].move)
    IN  /\ pc[p] = "move"
        /\ file' = << >>
        /\ IF m = << >> THEN Exit(p, "failure")
           ELSE /\ pc' = [pc EXCEPT ![p] = "write"]
                /\ map' = [map EXCEPT ![p] = m] /\ pos' = [pos EXCEPT ![p] = 0]
                /\ UNCHANGED <<args, status>>
        /\ UNCHANGED <<before, runs, start, history>>

Move(p) ==
    LET m == MovePlayer(map[p], args[p].player, args[p].move)
    IN  /\ pc[p] = "move"
        /\ \/ m = << >> /\ Exit(p, "failure")
           \/ /\ m # << >>
              /\ pc' = [pc EXCEPT ![p] = "open"]
              /\ map' = [map EXCEPT ![p] = m]
              /\ UNCHANGED <<args, pos, status>>
        /\ UNCHANGED <<file, before, runs, start, history>>

\* saveMap: opening the file for writing empties it.
OpenForWriting(p) ==
    /\ pc[p] = "open"
    /\ file' = << >>
    /\ pc' = [pc EXCEPT ![p] = "write"]
    /\ pos' = [pos EXCEPT ![p] = 0]
    /\ UNCHANGED <<args, map, status, before, runs, start, history>>

\* Rows written at an offset, over what is there; a gap reads as zeros.
Overlay(f, from, rows) ==
    [r \in 1 .. Max({Len(f), from + Len(rows)}) |->
        IF r \in from + 1 .. from + Len(rows) THEN rows[r - from]
        ELSE IF r <= Len(f) THEN f[r] ELSE <<"NUL">>]

\* One flush of the buffer, the last one by fclose.
Flush(p) ==
    LET rows == Rows(map[p], pos[p])
        end  == pos[p] + Len(rows)
    IN  /\ pc[p] = "write"
        /\ file' = Overlay(file, pos[p], rows)
        /\ IF end = Len(map[p]) THEN Exit(p, "success")
           ELSE pos' = [pos EXCEPT ![p] = end] /\ UNCHANGED <<pc, args, map, status>>
        /\ UNCHANGED <<before, runs, start, history>>

\* A flush fails after some of its rows.
FlushFails(p) ==
    /\ pc[p] = "write" /\ "write" \in Faults
    /\ \E k \in 0 .. Len(Rows(map[p], pos[p])) - 1 :
          file' = IF k = 0 THEN file
                  ELSE Overlay(file, pos[p], SubSeq(Rows(map[p], pos[p]), 1, k))
    /\ torn' = TRUE
    /\ Exit(p, "failure")
    /\ UNCHANGED <<before, runs, start, overlapped>>

\* fopen fails, for reading or for writing, or a read fails: loadMap asks ferror
\* after its loop and returns nothing of what it has read.
FileFails(p) ==
    /\ \/ "open" \in Faults /\ (pc[p] = "open" \/ (pc[p] = "read" /\ pos[p] = 0))
       \/ "read" \in Faults /\ pc[p] = "read"
    /\ Exit(p, "failure")
    /\ UNCHANGED <<file, before, runs, start, history>>

\* The process is killed.
Crash(p) ==
    /\ "crash" \in Faults /\ pc[p] # "idle"
    /\ torn' = (torn \/ pc[p] = "write")
    /\ Exit(p, "killed")
    /\ UNCHANGED <<file, before, runs, start, overlapped>>

Next == \E p \in Proc :
           \/ \E who \in Player, d \in Moves : Invoke(p, who, d)
           \/ Read(p) \/ Loaded(p) \/ Move(p) \/ OpenForWriting(p) \/ Flush(p)
           \/ FlushFails(p) \/ FileFails(p) \/ Crash(p)

Spec == Init /\ [][Next]_vars

----------------------------------------------------------------------------
(* Properties.                                                             *)

\* However many players run the program at the same time, the file of a map that
\* fits in one buffer always holds a whole map with the floor of the first one and
\* every player at most once, except while a process is between the fopen of
\* saveMap, which empties it, and fclose, which fills it.  What a process is about
\* to save is a map that loadMap takes.
FileValid ==
    /\ TypeOK
    /\ LoadMap(start) /\ Len(start) <= BUF /\ ~ torn =>
        \/ file = << >> /\ \E p \in Proc : pc[p] = "write"
        \/ /\ LoadMap(file) /\ Cells(file) = Cells(start) /\ Floor(file) = Floor(start)
           /\ \A x \in Player : Cardinality(FindPlayer(file, x)) <= 1

\* Whatever fails in saveMap, and in whatever order processes write, what the file
\* of such a map still holds are rows of the first map with their walls.
RowsTrue ==
    LoadMap(start) /\ Len(start) <= BUF =>
                      /\ Cells(file) \subseteq Cells(start)
                      /\ Floor(file) = Floor(start) \cap Cells(file)

\* An invocation of main that returns EXIT_FAILURE has not touched the file:
\* nothing can be refused once saveMap has emptied it, except by a write that
\* fails, and then the map is lost.
FailureKeepsFile ==
    ~ torn /\ ~ overlapped =>
        \A p \in Proc : pc[p] = "idle" /\ status[p] = "failure" => file = before[p]

\* isConnected answers what the words say: no part of the floor is cut off
\* from the rest.
ConnectedMeansReachable ==
    runs = 0 /\ WellFormed(start) =>
        (IsConnected(start)
           <=> \A S \in SUBSET Floor(start) :
                  S # {} /\ S # Floor(start) =>
                     \E c \in S, e \in Floor(start) \ S :
                        e \in {<<c[1] - 1, c[2]>>, <<c[1] + 1, c[2]>>,
                               <<c[1], c[2] - 1>>, <<c[1], c[2] + 1>>})

\* The board as the players see it: what is in the file, or is on its way there.
Board == LET saving == {p \in Proc : pc[p] = "write"}
         IN  IF saving = {} THEN file ELSE map[CHOOSE p \in saving : TRUE]

Game == INSTANCE LabyrinthGame WITH
            intact <- ~ torn /\ ~ overlapped,
            floor <- Floor(Board),
            at    <- [x \in Player |-> FindPlayer(Board, x)]

\* Invocations one after the other play the abstract game, also after one that
\* was refused or killed before it saved: a move takes effect completely or not
\* at all, and what one leaves in the file the next one reads.
ImplementsGame == Game!Spec
=============================================================================
