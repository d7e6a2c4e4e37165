-------------------------- MODULE LabyrinthProofs --------------------------
(***************************************************************************)
(* Proofs about the labyrinth program: for every board, isConnected        *)
(* decides whether the floor is connected; whoever runs the program, in    *)
(* turn or at once, the file keeps what the properties say of it; and      *)
(* invocations in turn play the game of LabyrinthGame.                     *)
(***************************************************************************)
EXTENDS Labyrinth, FiniteSetTheorems, WellFoundedInduction, TLAPS

----------------------------------------------------------------------------
(* Numbers and small sets.                                                 *)

LEMMA Bounds == /\ MAX_ROWS \in Nat \ {0} /\ MAX_COLS \in Nat \ {0} /\ BUF \in Nat \ {0}
                /\ MaxRuns \in Nat
  BY LabyrinthAssumption

LEMMA LeastNumber ==
    ASSUME NEW S \in SUBSET Nat, S # {}
    PROVE  \E x \in S : \A y \in S : x <= y
  <1>1. \E R : IsWellFoundedOn(R, Nat) /\ \A x, y \in Nat : y < x => <<y, x>> \in R
    <2>1. \A x, y \in Nat : y < x => <<y, x>> \in OpToRel(<, Nat)
      BY DEF OpToRel
    <2> QED BY <2>1, NatLessThanWellFounded
  <1>2. PICK R : IsWellFoundedOn(R, Nat) /\ \A x, y \in Nat : y < x => <<y, x>> \in R
    BY <1>1
  <1>3. PICK x \in S : \A y \in S : <<y, x>> \notin R
    BY <1>2, WFMin
  <1>4. \A y \in S : ~ (y < x)
    BY <1>2, <1>3
  <1>5. \A y \in S : x <= y
    BY <1>4
  <1> QED BY <1>3, <1>5

LEMMA Lesser ==
    ASSUME NEW a \in Nat, NEW b \in Nat, NEW n \in Nat, a <= b \/ a < b, b < n
    PROVE  a < n
  OBVIOUS

LEMMA MinOfTwo ==
    ASSUME NEW a \in Nat, NEW b \in Nat
    PROVE  Min({a, b}) = IF a <= b THEN a ELSE b
  BY DEF Min

LEMMA MaxOfTwo ==
    ASSUME NEW a \in Nat, NEW b \in Nat
    PROVE  Max({a, b}) = IF a >= b THEN a ELSE b
  BY DEF Max

----------------------------------------------------------------------------
(* The search, by the number of floor cells that are not visited yet.      *)

Inner == (1 .. MAX_ROWS) \X (1 .. MAX_COLS)
Beside(c) == {<<c[1] - 1, c[2]>>, <<c[1] + 1, c[2]>>, <<c[1], c[2] - 1>>, <<c[1], c[2] + 1>>}

\* The sets with fewer than n cells of the floor left, and a solution of the
\* recursion of dfs on the sets D.
Level(floor, n) == {v \in SUBSET floor : Cardinality(floor \ v) < n}
Solves(f, floor, D) == f = [v \in D |-> [c \in Grid |-> Visit(f, floor, v, c)]]
Grows(f, floor, D) == \A v \in D, c \in Grid : v \subseteq f[v][c] /\ f[v][c] \subseteq floor

LEMMA FloorFinite ==
    ASSUME NEW floor \in SUBSET Inner
    PROVE  /\ IsFiniteSet(floor) /\ Cardinality(floor) \in Nat
           /\ \A v : IsFiniteSet(floor \ v) /\ Cardinality(floor \ v) \in Nat
           /\ \A v : Cardinality(floor \ v) <= Cardinality(floor)
           /\ \A v, w : v \subseteq w => Cardinality(floor \ w) <= Cardinality(floor \ v)
           /\ \A v, c : c \in floor \ v
                 => Cardinality(floor \ (v \cup {c})) < Cardinality(floor \ v)
  <1>1. IsFiniteSet(1 .. MAX_ROWS) /\ IsFiniteSet(1 .. MAX_COLS)
    <2>1. 1 \in Int /\ MAX_ROWS \in Int /\ MAX_COLS \in Int
      BY Bounds
    <2> QED BY <2>1, FS_Interval
  <1>2. IsFiniteSet(Inner)
    BY <1>1, FS_Product DEF Inner
  <1>3. IsFiniteSet(floor)
    BY <1>2, FS_Subset
  <1>4. \A v : floor \ v \subseteq floor
    OBVIOUS
  <1>5. \A v : IsFiniteSet(floor \ v)
    BY <1>3, <1>4, FS_Subset
  <1>6. Cardinality(floor) \in Nat /\ \A v : Cardinality(floor \ v) \in Nat
    BY <1>3, <1>5, FS_CardinalityType
  <1>7. \A v : Cardinality(floor \ v) <= Cardinality(floor)
    BY <1>3, <1>4, FS_Subset
  <1>8. ASSUME NEW v, NEW w, v \subseteq w
        PROVE  Cardinality(floor \ w) <= Cardinality(floor \ v)
    <2>1. floor \ w \subseteq floor \ v
      BY <1>8
    <2> QED BY <2>1, <1>5, FS_Subset
  <1>9. ASSUME NEW v, NEW c, c \in floor \ v
        PROVE  Cardinality(floor \ (v \cup {c})) < Cardinality(floor \ v)
    <2>1. floor \ (v \cup {c}) = (floor \ v) \ {c}
      OBVIOUS
    <2>2. Cardinality((floor \ v) \ {c}) = Cardinality(floor \ v) - 1
      BY <1>5, <1>9, FS_RemoveElement
    <2> QED BY <2>1, <2>2, <1>6
  <1> QED BY <1>3, <1>5, <1>6, <1>7, <1>8, <1>9

\* Calls for cells of the map are for cells of the map or its border.
LEMMA NeighboursInGrid ==
    ASSUME NEW c \in Inner, NEW n, n = Neighbours(c)
    PROVE  /\ c \in Grid /\ n[1] \in Grid /\ n[2] \in Grid /\ n[3] \in Grid /\ n[4] \in Grid
           /\ Beside(c) = {n[1], n[2], n[3], n[4]}
  <1>1. PICK i \in 1 .. MAX_ROWS, j \in 1 .. MAX_COLS : c = <<i, j>>
    BY DEF Inner
  <1>2. c[1] = i /\ c[2] = j
    BY <1>1
  <1>3. n = << <<i - 1, j>>, <<i + 1, j>>, <<i, j - 1>>, <<i, j + 1>> >>
    BY <1>2 DEF Neighbours
  <1>4. n[1] = <<i - 1, j>> /\ n[2] = <<i + 1, j>> /\ n[3] = <<i, j - 1>> /\ n[4] = <<i, j + 1>>
    BY <1>3
  <1>5. /\ i - 1 \in 0 .. MAX_ROWS + 1 /\ i \in 0 .. MAX_ROWS + 1 /\ i + 1 \in 0 .. MAX_ROWS + 1
        /\ j - 1 \in 0 .. MAX_COLS + 1 /\ j \in 0 .. MAX_COLS + 1 /\ j + 1 \in 0 .. MAX_COLS + 1
    BY Bounds
  <1>6. Beside(c) = {n[1], n[2], n[3], n[4]}
    BY <1>2, <1>4 DEF Beside
  <1> QED BY <1>1, <1>4, <1>5, <1>6 DEF Grid

\* The four calls in the body of dfs, when f is defined and grows on the sets
\* with fewer cells left: every one gets a set of that kind.
Calls(f, floor, n, v, c, s, w1, w2, w3, w4) ==
    /\ w1 = f[v \cup {c}][s[1]] /\ w2 = f[w1][s[2]]
    /\ w3 = f[w2][s[3]] /\ w4 = f[w3][s[4]]
    /\ w1 \in Level(floor, n) /\ w2 \in Level(floor, n)
    /\ w3 \in Level(floor, n) /\ w4 \in SUBSET floor
    /\ v \cup {c} \subseteq w1 /\ w1 \subseteq w2 /\ w2 \subseteq w3 /\ w3 \subseteq w4
    /\ Visit(f, floor, v, c) = w4

LEMMA FourCalls ==
    ASSUME NEW floor \in SUBSET Inner, NEW n \in Nat, NEW f, Grows(f, floor, Level(floor, n)),
           NEW v \in SUBSET floor, NEW c \in floor, c \notin v, v \cup {c} \in Level(floor, n),
           NEW s, s = Neighbours(c)
    PROVE  \E w1, w2, w3, w4 : Calls(f, floor, n, v, c, s, w1, w2, w3, w4)
  <1>0. PICK w0, w1, w2, w3, w4 : /\ w0 = v \cup {c} /\ w1 = f[w0][s[1]] /\ w2 = f[w1][s[2]]
                                 /\ w3 = f[w2][s[3]] /\ w4 = f[w3][s[4]]
    OBVIOUS
  <1>1. s[1] \in Grid /\ s[2] \in Grid /\ s[3] \in Grid /\ s[4] \in Grid
    BY NeighboursInGrid
  <1>2. ASSUME NEW w \in Level(floor, n), NEW x \in SUBSET floor, w \subseteq x
        PROVE  x \in Level(floor, n)
    <2>1. Cardinality(floor \ x) <= Cardinality(floor \ w)
      BY <1>2, FloorFinite
    <2>2. Cardinality(floor \ x) \in Nat /\ Cardinality(floor \ w) \in Nat
      BY FloorFinite
    <2>3. Cardinality(floor \ w) < n
      BY DEF Level
    <2>4. Cardinality(floor \ x) < n
      BY <2>1, <2>2, <2>3, Lesser
    <2> QED BY <2>4 DEF Level
  <1>3. ASSUME NEW w \in Level(floor, n), NEW d \in Grid
        PROVE  f[w][d] \in Level(floor, n) /\ w \subseteq f[w][d]
    BY <1>2 DEF Grows
  <1>4. w1 \in Level(floor, n) /\ w0 \subseteq w1
    BY <1>0, <1>1, <1>3
  <1>5. w2 \in Level(floor, n) /\ w1 \subseteq w2
    BY <1>0, <1>1, <1>3, <1>4
  <1>6. w3 \in Level(floor, n) /\ w2 \subseteq w3
    BY <1>0, <1>1, <1>3, <1>5
  <1>7. w4 \in Level(floor, n) /\ w3 \subseteq w4
    BY <1>0, <1>1, <1>3, <1>6
  <1>8. Visit(f, floor, v, c) = w4
    BY <1>0 DEF Visit
  <1>9. w4 \in SUBSET floor
    BY <1>7 DEF Level
  <1>10. /\ w1 \in Level(floor, n) /\ w2 \in Level(floor, n) /\ w3 \in Level(floor, n)
         /\ w0 \subseteq w1 /\ w1 \subseteq w2 /\ w2 \subseteq w3 /\ w3 \subseteq w4
    BY <1>4, <1>5, <1>6, <1>7, Zenon
  <1>11. Calls(f, floor, n, v, c, s, w1, w2, w3, w4)
    BY <1>0, <1>8, <1>9, <1>10, Zenon DEF Calls
  <1> QED BY <1>11, Zenon

\* Hence a function that agrees with f there gives the same answer.
LEMMA SameVisit ==
    ASSUME NEW floor \in SUBSET Inner, NEW n \in Nat, NEW f, Grows(f, floor, Level(floor, n)),
           NEW g, \A w \in Level(floor, n) : g[w] = f[w],
           NEW v \in Level(floor, n + 1), NEW c \in Grid
    PROVE  /\ Visit(g, floor, v, c) = Visit(f, floor, v, c)
           /\ v \subseteq Visit(f, floor, v, c) /\ Visit(f, floor, v, c) \subseteq floor
  <1>0. v \in SUBSET floor
    BY DEF Level
  <1>1. CASE c \notin floor \/ c \in v
    BY <1>1, <1>0 DEF Visit
  <1>2. CASE c \in floor \ v
    <2>0. PICK s : s = Neighbours(c)
      OBVIOUS
    <2>1. v \cup {c} \in Level(floor, n)
      <3>1. Cardinality(floor \ (v \cup {c})) < Cardinality(floor \ v)
        BY <1>2, FloorFinite
      <3>2. Cardinality(floor \ (v \cup {c})) \in Nat /\ Cardinality(floor \ v) \in Nat
        BY FloorFinite
      <3>3. Cardinality(floor \ v) < n + 1
        BY DEF Level
      <3>4. Cardinality(floor \ (v \cup {c})) < n
        BY <3>1, <3>2, <3>3
      <3> QED BY <3>4, <1>0, <1>2 DEF Level
    <2>2. PICK w1, w2, w3, w4 : Calls(f, floor, n, v, c, s, w1, w2, w3, w4)
      <3>1. c \in floor /\ c \notin v
        BY <1>2
      <3> QED BY <3>1, <2>0, <2>1, <1>0, FourCalls
    <2>3. /\ g[v \cup {c}][s[1]] = w1 /\ g[w1][s[2]] = w2
          /\ g[w2][s[3]] = w3 /\ g[w3][s[4]] = w4
      BY <2>1, <2>2 DEF Calls
    <2>4. Visit(g, floor, v, c) = w4
      <3>1. Visit(g, floor, v, c) = g[g[g[g[v \cup {c}][s[1]]][s[2]]][s[3]]][s[4]]
        BY <1>2, <2>0 DEF Visit
      <3> QED BY <3>1, <2>3
    <2> QED BY <2>2, <2>4 DEF Calls
  <1> QED BY <1>1, <1>2

\* The recursion of dfs has a solution.
LEMMA SolutionExists ==
    ASSUME NEW floor \in SUBSET Inner
    PROVE  \E f : Solves(f, floor, SUBSET floor)
  <1> DEFINE Good(n) == \E f : /\ Solves(f, floor, Level(floor, n))
                               /\ Grows(f, floor, Level(floor, n))
             N == Cardinality(floor)
  <1>1. Good(0)
    <2> DEFINE f == [v \in {} |-> {}]
    <2>1. Level(floor, 0) = {}
      BY FloorFinite DEF Level
    <2>2. Solves(f, floor, {}) /\ Grows(f, floor, {})
      BY DEF Solves, Grows
    <2> HIDE DEF f
    <2> QED BY <2>1, <2>2
  <1>2. ASSUME NEW n \in Nat, Good(n) PROVE Good(n + 1)
    <2>1. PICK f : Solves(f, floor, Level(floor, n)) /\ Grows(f, floor, Level(floor, n))
      BY <1>2
    <2> DEFINE D == Level(floor, n + 1)
               g == [v \in D |-> [c \in Grid |-> Visit(f, floor, v, c)]]
    <2>2. \A w \in Level(floor, n) : g[w] = f[w]
      <3> SUFFICES ASSUME NEW w \in Level(floor, n) PROVE g[w] = f[w]
        OBVIOUS
      <3>1. w \in D
        BY FloorFinite DEF Level
      <3>2. g[w] = [c \in Grid |-> Visit(f, floor, w, c)]
        BY <3>1
      <3>3. f[w] = [c \in Grid |-> Visit(f, floor, w, c)]
        BY <2>1 DEF Solves
      <3> QED BY <3>2, <3>3
    <2>3. \A v \in D, c \in Grid :
             /\ Visit(g, floor, v, c) = Visit(f, floor, v, c)
             /\ v \subseteq Visit(f, floor, v, c) /\ Visit(f, floor, v, c) \subseteq floor
      <3> HIDE DEF g
      <3> QED BY <2>1, <2>2, SameVisit
    <2>4. g = [v \in D |-> [c \in Grid |-> Visit(g, floor, v, c)]]
      BY <2>3
    <2>5. \A v \in D, c \in Grid : g[v][c] = Visit(f, floor, v, c)
      OBVIOUS
    <2> HIDE DEF g
    <2>6. Solves(g, floor, D)
      BY <2>4 DEF Solves
    <2>7. Grows(g, floor, D)
      BY <2>3, <2>5 DEF Grows
    <2> QED BY <2>6, <2>7
  <1>3. Good(N + 1)
    <2> DEFINE Bad == {n \in Nat : ~ Good(n)}
    <2> HIDE DEF Good
    <2>1. Bad = {}
      <3> SUFFICES ASSUME Bad # {} PROVE FALSE
        OBVIOUS
      <3>1. PICK n \in Bad : \A m \in Bad : n <= m
        <4>1. Bad \in SUBSET Nat
          OBVIOUS
        <4> HIDE DEF Bad
        <4> QED BY <4>1, LeastNumber
      <3>2. n \in Nat /\ n # 0
        BY <1>1
      <3>3. n - 1 \in Nat /\ n - 1 \notin Bad
        <4> HIDE DEF Bad
        <4> QED BY <3>1, <3>2
      <3>4. Good(n - 1)
        BY <3>3
      <3>5. Good((n - 1) + 1)
        BY <3>3, <3>4, <1>2
      <3>6. (n - 1) + 1 = n
        BY <3>2
      <3> QED BY <3>5, <3>6, <3>1
    <2>2. N + 1 \in Nat
      BY FloorFinite
    <2> QED BY <2>1, <2>2
  <1>4. Level(floor, N + 1) = SUBSET floor
    <2>1. \A v : Cardinality(floor \ v) < N + 1
      <3>1. N \in Nat /\ N + 1 \in Nat /\ N < N + 1
        BY FloorFinite
      <3>2. \A v : Cardinality(floor \ v) \in Nat /\ Cardinality(floor \ v) <= N
        BY FloorFinite
      <3> QED BY <3>1, <3>2, Lesser
    <2> QED BY <2>1 DEF Level
  <1> QED BY <1>3, <1>4

\* What one call answers: the set it is given, and all of the floor that can be
\* reached from c without it.
Closed(S, floor) == \A x \in S : Beside(x) \cap floor \subseteq S
Answers(R, floor, v, c) ==
    /\ v \subseteq R /\ R \subseteq floor
    /\ c \in floor => c \in R
    /\ c \notin floor => R = v
    /\ \A x \in R \ v : Beside(x) \cap floor \subseteq R
    /\ \A S \in SUBSET floor : Closed(S, floor) /\ c \in S => R \subseteq v \cup S

LEMMA CallAnswers ==
    ASSUME NEW floor \in SUBSET Inner, NEW f, NEW n \in Nat,
           \A w \in Level(floor, n), d \in Grid : Answers(f[w][d], floor, w, d),
           NEW v \in Level(floor, n + 1), NEW c \in Grid
    PROVE  Answers(Visit(f, floor, v, c), floor, v, c)
  <1>0. v \in SUBSET floor
    BY DEF Level
  <1>1. CASE c \notin floor \/ c \in v
    <2>1. Visit(f, floor, v, c) = v
      BY <1>1 DEF Visit
    <2> QED BY <2>1, <1>0, <1>1 DEF Answers
  <1>2. CASE c \in floor \ v
    <2>0. PICK s : s = Neighbours(c)
      OBVIOUS
    <2>1. v \cup {c} \in Level(floor, n)
      <3>1. Cardinality(floor \ (v \cup {c})) < Cardinality(floor \ v)
        BY <1>2, FloorFinite
      <3>2. Cardinality(floor \ (v \cup {c})) \in Nat /\ Cardinality(floor \ v) \in Nat
        BY FloorFinite
      <3>3. Cardinality(floor \ v) < n + 1
        BY DEF Level
      <3>4. Cardinality(floor \ (v \cup {c})) < n
        BY <3>1, <3>2, <3>3
      <3> QED BY <3>4, <1>0, <1>2 DEF Level
    <2>2. Grows(f, floor, Level(floor, n))
      BY DEF Grows, Answers
    <2>3. PICK w1, w2, w3, w4 : Calls(f, floor, n, v, c, s, w1, w2, w3, w4)
      <3>1. c \in floor /\ c \notin v
        BY <1>2
      <3> QED BY <3>1, <2>0, <2>1, <2>2, <1>0, FourCalls
    <2>4. /\ s[1] \in Grid /\ s[2] \in Grid /\ s[3] \in Grid /\ s[4] \in Grid
          /\ Beside(c) = {s[1], s[2], s[3], s[4]}
      BY <2>0, <1>2, NeighboursInGrid
    <2>5. /\ Answers(w1, floor, v \cup {c}, s[1]) /\ Answers(w2, floor, w1, s[2])
          /\ Answers(w3, floor, w2, s[3]) /\ Answers(w4, floor, w3, s[4])
      BY <2>0, <2>1, <2>3, <2>4 DEF Calls
    <2>6. Beside(c) \cap floor \subseteq w4
      <3>1. /\ s[1] \in floor => s[1] \in w4
            /\ s[2] \in floor => s[2] \in w4
            /\ s[3] \in floor => s[3] \in w4
            /\ s[4] \in floor => s[4] \in w4
        BY <2>3, <2>5 DEF Answers, Calls
      <3> QED BY <3>1, <2>4
    <2>7. \A x \in w4 \ v : Beside(x) \cap floor \subseteq w4
      <3> SUFFICES ASSUME NEW x \in w4 \ v PROVE Beside(x) \cap floor \subseteq w4
        OBVIOUS
      <3>1. CASE x = c
        BY <3>1, <2>6
      <3>2. CASE x \in w4 \ w3
        BY <3>2, <2>5 DEF Answers
      <3>3. CASE x \in w3 \ w2
        <4>1. Beside(x) \cap floor \subseteq w3
          BY <3>3, <2>5 DEF Answers
        <4> QED BY <4>1, <2>3 DEF Calls
      <3>4. CASE x \in w2 \ w1
        <4>1. Beside(x) \cap floor \subseteq w2
          BY <3>4, <2>5 DEF Answers
        <4> QED BY <4>1, <2>3 DEF Calls
      <3>5. CASE x \in w1 \ (v \cup {c})
        <4>1. Beside(x) \cap floor \subseteq w1
          BY <3>5, <2>5 DEF Answers
        <4> QED BY <4>1, <2>3 DEF Calls
      <3> QED BY <3>1, <3>2, <3>3, <3>4, <3>5, <2>0
    <2>8. ASSUME NEW S \in SUBSET floor, Closed(S, floor), c \in S
          PROVE  w4 \subseteq v \cup S
      <3>1. Beside(c) \cap floor \subseteq S
        BY <2>8 DEF Closed
      <3>2. /\ s[1] \in floor => s[1] \in S
            /\ s[2] \in floor => s[2] \in S
            /\ s[3] \in floor => s[3] \in S
            /\ s[4] \in floor => s[4] \in S
        BY <3>1, <2>4
      <3>3. ASSUME NEW R, NEW w, NEW d, Answers(R, floor, w, d), d \in floor => d \in S
            PROVE  R \subseteq w \cup S
        BY <3>3, <2>8 DEF Answers
      <3>4. w1 \subseteq (v \cup {c}) \cup S /\ w2 \subseteq w1 \cup S
        BY <3>2, <3>3, <2>5
      <3>5. w3 \subseteq w2 \cup S /\ w4 \subseteq w3 \cup S
        BY <3>2, <3>3, <2>5
      <3>6. v \cup {c} \subseteq v \cup S
        BY <2>0, <2>8
      <3> QED BY <3>4, <3>5, <3>6
    <2>9. v \subseteq w4 /\ c \in w4
      BY <2>3 DEF Calls
    <2> QED BY <2>3, <2>7, <2>8, <2>9, <1>2 DEF Answers, Calls
  <1> QED BY <1>1, <1>2

\* Every solution of the recursion answers so.
LEMMA SolutionAnswers ==
    ASSUME NEW floor \in SUBSET Inner, NEW f, Solves(f, floor, SUBSET floor)
    PROVE  \A v \in SUBSET floor, c \in Grid : Answers(f[v][c], floor, v, c)
  <1> DEFINE Good(n) == \A w \in Level(floor, n), d \in Grid : Answers(f[w][d], floor, w, d)
             Bad == {n \in Nat : ~ Good(n)}
             N == Cardinality(floor)
  <1>1. Good(0)
    <2>1. Level(floor, 0) = {}
      BY FloorFinite DEF Level
    <2> QED BY <2>1
  <1>2. ASSUME NEW n \in Nat, Good(n) PROVE Good(n + 1)
    <2> SUFFICES ASSUME NEW v \in Level(floor, n + 1), NEW c \in Grid
                 PROVE  Answers(f[v][c], floor, v, c)
      OBVIOUS
    <2>1. Answers(Visit(f, floor, v, c), floor, v, c)
      BY <1>2, CallAnswers
    <2>2. v \in SUBSET floor
      BY DEF Level
    <2>3. f[v] = [d \in Grid |-> Visit(f, floor, v, d)]
      BY <2>2 DEF Solves
    <2>4. f[v][c] = Visit(f, floor, v, c)
      BY <2>3
    <2> QED BY <2>1, <2>4
  <1>3. Good(N + 1)
    <2> HIDE DEF Good
    <2>1. Bad = {}
      <3> SUFFICES ASSUME Bad # {} PROVE FALSE
        OBVIOUS
      <3>1. PICK n \in Bad : \A m \in Bad : n <= m
        <4>1. Bad \in SUBSET Nat
          OBVIOUS
        <4> HIDE DEF Bad
        <4> QED BY <4>1, LeastNumber
      <3>2. n \in Nat /\ n # 0
        BY <1>1
      <3>3. n - 1 \in Nat /\ n - 1 \notin Bad
        <4> HIDE DEF Bad
        <4> QED BY <3>1, <3>2
      <3>4. Good(n - 1)
        BY <3>3
      <3>5. Good((n - 1) + 1)
        BY <3>3, <3>4, <1>2
      <3>6. (n - 1) + 1 = n
        BY <3>2
      <3> QED BY <3>5, <3>6, <3>1
    <2>2. N + 1 \in Nat
      BY FloorFinite
    <2> QED BY <2>1, <2>2
  <1>4. Level(floor, N + 1) = SUBSET floor
    <2>1. \A v : Cardinality(floor \ v) < N + 1
      <3>1. N \in Nat /\ N + 1 \in Nat /\ N < N + 1
        BY FloorFinite
      <3>2. \A v : Cardinality(floor \ v) \in Nat /\ Cardinality(floor \ v) <= N
        BY FloorFinite
      <3> QED BY <3>1, <3>2, Lesser
    <2> QED BY <2>1 DEF Level
  <1> QED BY <1>3, <1>4

LEMMA DfsAnswers ==
    ASSUME NEW floor \in SUBSET Inner, NEW c \in floor
    PROVE  Answers(Dfs(floor, c), floor, {}, c)
  <1> DEFINE f == CHOOSE f : Solves(f, floor, SUBSET floor)
  <1>1. Solves(f, floor, SUBSET floor)
    <2>1. \E g : Solves(g, floor, SUBSET floor)
      BY SolutionExists
    <2> QED BY <2>1
  <1>2. Dfs(floor, c) = f[{}][c]
    BY DEF Dfs, Solves
  <1>3. c \in Grid
    <2>1. c \in Inner /\ Neighbours(c) = Neighbours(c)
      OBVIOUS
    <2> QED BY <2>1, NeighboursInGrid
  <1> HIDE DEF f
  <1>4. Answers(f[{}][c], floor, {}, c)
    BY <1>1, <1>3, SolutionAnswers
  <1> QED BY <1>2, <1>4

\* A set of cells has a first one in the order of reading, and FirstOf is it.
LEMMA FirstIs ==
    ASSUME NEW S \in SUBSET (Nat \X Nat), S # {}
    PROVE  /\ FirstOf(S) \in S
           /\ \A e \in S : \/ FirstOf(S)[1] < e[1]
                           \/ FirstOf(S)[1] = e[1] /\ FirstOf(S)[2] <= e[2]
  <1> DEFINE R == {c[1] : c \in S}
  <1>1. R \in SUBSET Nat /\ R # {}
    OBVIOUS
  <1>2. PICK i \in R : \A y \in R : i <= y
    <2> HIDE DEF R
    <2> QED BY <1>1, LeastNumber
  <1> DEFINE C == {c[2] : c \in {c \in S : c[1] = i}}
  <1>3. C \in SUBSET Nat /\ C # {}
    BY <1>2
  <1>4. PICK j \in C : \A y \in C : j <= y
    <2> HIDE DEF C
    <2> QED BY <1>3, LeastNumber
  <1>5. PICK c \in S : c[1] = i /\ c[2] = j
    BY <1>4
  <1>6. \A e \in S : c[1] < e[1] \/ (c[1] = e[1] /\ c[2] <= e[2])
    <2> SUFFICES ASSUME NEW e \in S PROVE c[1] < e[1] \/ (c[1] = e[1] /\ c[2] <= e[2])
      OBVIOUS
    <2>1. e[1] \in Nat /\ e[1] \in R /\ i \in Nat
      BY <1>1
    <2>2. e[1] = i => e[2] \in C
      OBVIOUS
    <2>3. i <= e[1]
      BY <2>1, <1>2
    <2>4. e[1] = i => j <= e[2]
      BY <2>2, <1>4
    <2> QED BY <2>1, <2>3, <2>4, <1>5
  <1> QED BY <1>5, <1>6 DEF FirstOf

\* isConnected decides what the words say: the cells counted are those of the floor
\* exactly if no part of the floor is cut off.
LEMMA SearchDecides ==
    ASSUME NEW floor \in SUBSET Inner, floor # {}
    PROVE  Cardinality(Dfs(floor, FirstOf(floor))) = Cardinality(floor)
             <=> \A S \in SUBSET floor :
                    S # {} /\ S # floor => \E c \in S, e \in floor \ S : e \in Beside(c)
  <1> DEFINE c0 == FirstOf(floor)
             R == Dfs(floor, c0)
  <1>1. c0 \in floor
    <2>1. floor \in SUBSET (Nat \X Nat)
      BY Bounds DEF Inner
    <2> QED BY <2>1, FirstIs
  <1>2. Answers(R, floor, {}, c0)
    <2> HIDE DEF c0
    <2> QED BY <1>1, DfsAnswers
  <1>3. c0 \in R /\ R \subseteq floor
    BY <1>1, <1>2 DEF Answers
  <1>4. Closed(R, floor)
    BY <1>2 DEF Answers, Closed
  <1>5. \A S \in SUBSET floor : Closed(S, floor) /\ c0 \in S => R \subseteq S
    BY <1>2 DEF Answers
  <1> HIDE DEF c0
  <1> HIDE DEF R
  <1>6. Cardinality(R) = Cardinality(floor) <=> R = floor
    BY <1>3, FloorFinite, FS_Subset
  <1>7. \A c, e \in floor : e \in Beside(c) => c \in Beside(e)
    <2> SUFFICES ASSUME NEW c \in floor, NEW e \in floor, e \in Beside(c) PROVE c \in Beside(e)
      OBVIOUS
    <2>1. PICK i \in 1 .. MAX_ROWS, j \in 1 .. MAX_COLS : c = <<i, j>>
      BY DEF Inner
    <2>2. c[1] = i /\ c[2] = j
      BY <2>1
    <2>3. e \in {<<i - 1, j>>, <<i + 1, j>>, <<i, j - 1>>, <<i, j + 1>>}
      BY <2>2 DEF Beside
    <2>4. /\ i = i - 1 + 1 /\ i = i + 1 - 1 /\ j = j - 1 + 1 /\ j = j + 1 - 1
      BY Bounds
    <2>5. Beside(e) = {<<e[1] - 1, e[2]>>, <<e[1] + 1, e[2]>>, <<e[1], e[2] - 1>>, <<e[1], e[2] + 1>>}
      BY DEF Beside
    <2> QED BY <2>1, <2>3, <2>4, <2>5
  <1>8. ASSUME R = floor, NEW S \in SUBSET floor, S # {}, S # floor
        PROVE  \E c \in S, e \in floor \ S : e \in Beside(c)
    <2> SUFFICES ASSUME ~ \E c \in S, e \in floor \ S : e \in Beside(c) PROVE FALSE
      OBVIOUS
    <2>1. Closed(S, floor)
      BY DEF Closed
    <2>2. Closed(floor \ S, floor)
      <3> SUFFICES ASSUME NEW x \in floor \ S, NEW y \in Beside(x) \cap floor PROVE y \notin S
        BY DEF Closed
      <3> QED BY <1>7
    <2>3. CASE c0 \in S
      BY <2>1, <2>3, <1>5, <1>8
    <2>4. CASE c0 \notin S
      <3>1. floor \ S \in SUBSET floor /\ c0 \in floor \ S
        BY <2>4, <1>1
      <3>2. R \subseteq floor \ S
        BY <3>1, <2>2, <1>5
      <3> QED BY <3>2, <1>8
    <2> QED BY <2>3, <2>4
  <1>9. ASSUME R # floor
        PROVE  \E S \in SUBSET floor : /\ S # {} /\ S # floor
                                      /\ ~ \E c \in S, e \in floor \ S : e \in Beside(c)
    <2>1. ~ \E c \in R, e \in floor \ R : e \in Beside(c)
      BY <1>4 DEF Closed
    <2> QED BY <2>1, <1>3, <1>9
  <1>10. (R = floor) <=> \A S \in SUBSET floor :
            S # {} /\ S # floor => \E c \in S, e \in floor \ S : e \in Beside(c)
    BY <1>8, <1>9
  <1>11. R = Dfs(floor, FirstOf(floor))
    BY DEF R, c0
  <1> QED BY <1>6, <1>10, <1>11

----------------------------------------------------------------------------
(* Maps.                                                                   *)

Char == STRING \cup Player \cup {".", "NUL"}
Row  == Seq(Char)
Map  == Seq(Row)

\* Row by row, a cell is a place in a row.
LEMMA CellIs ==
    ASSUME NEW m \in Map
    PROVE  /\ Len(m) \in Nat /\ DOMAIN m = 1 .. Len(m)
           /\ \A r \in 1 .. Len(m) : /\ m[r] \in Row /\ Len(m[r]) \in Nat
                                     /\ DOMAIN m[r] = 1 .. Len(m[r])
                                     /\ \A k \in 1 .. Len(m[r]) : m[r][k] \in Char
           /\ \A c : c \in Cells(m) <=> \E r \in 1 .. Len(m) : \E k \in 1 .. Len(m[r]) : c = <<r, k>>
           /\ \A r, k : <<r, k>> \in Cells(m) <=> r \in 1 .. Len(m) /\ k \in 1 .. Len(m[r])
           /\ \A r, k : Ch(m, <<r, k>>) = m[r][k]
           /\ Cells(m) \in SUBSET (Nat \X Nat)
  <1>1. /\ Len(m) \in Nat /\ DOMAIN m = 1 .. Len(m)
        /\ \A r \in 1 .. Len(m) : m[r] \in Row
    BY DEF Map
  <1>2. \A r \in 1 .. Len(m) : /\ Len(m[r]) \in Nat /\ DOMAIN m[r] = 1 .. Len(m[r])
                               /\ \A k \in 1 .. Len(m[r]) : m[r][k] \in Char
    BY <1>1 DEF Row
  <1>3. \A c : c \in Cells(m) <=> \E r \in DOMAIN m : c \in {r} \X DOMAIN m[r]
    BY DEF Cells
  <1>4. \A c : c \in Cells(m) <=> \E r \in 1 .. Len(m) : \E k \in 1 .. Len(m[r]) : c = <<r, k>>
    BY <1>1, <1>2, <1>3
  <1>5. \A r, k : <<r, k>> \in Cells(m) <=> r \in 1 .. Len(m) /\ k \in 1 .. Len(m[r])
    BY <1>4
  <1>6. \A r, k : Ch(m, <<r, k>>) = m[r][k]
    BY DEF Ch
  <1>7. Cells(m) \in SUBSET (Nat \X Nat)
    <2> SUFFICES ASSUME NEW c \in Cells(m) PROVE c \in Nat \X Nat
      OBVIOUS
    <2>1. PICK r, k : r \in 1 .. Len(m) /\ k \in 1 .. Len(m[r]) /\ c = <<r, k>>
      BY <1>4
    <2>2. r \in Nat /\ k \in Nat
      BY <1>1, <1>2, <2>1
    <2> QED BY <2>1, <2>2
  <1> QED BY <1>1, <1>2, <1>4, <1>5, <1>6, <1>7

LEMMA FloorIs ==
    ASSUME NEW m \in Map
    PROVE  /\ \A r, k : <<r, k>> \in Floor(m)
                 <=> r \in 1 .. Len(m) /\ k \in 1 .. Len(m[r]) /\ IsFloor(m[r][k])
           /\ \A x, r, k : <<r, k>> \in FindPlayer(m, x)
                 <=> r \in 1 .. Len(m) /\ k \in 1 .. Len(m[r]) /\ m[r][k] = x
           /\ Floor(m) \subseteq Cells(m) /\ \A x : FindPlayer(m, x) \subseteq Cells(m)
           /\ \A x \in Player : FindPlayer(m, x) \subseteq Floor(m)
  BY CellIs DEF Floor, FindPlayer, IsFloor

\* The floor of a map that loadMap takes lies within the limits.
LEMMA FloorInner ==
    ASSUME NEW m \in Map, WellFormed(m)
    PROVE  Floor(m) \in SUBSET Inner
  <1> SUFFICES ASSUME NEW c \in Floor(m) PROVE c \in Inner
    OBVIOUS
  <1>1. PICK r, k : r \in 1 .. Len(m) /\ k \in 1 .. Len(m[r]) /\ c = <<r, k>>
    BY CellIs DEF Floor
  <1>2. Len(m) \in 1 .. MAX_ROWS /\ Len(m[r]) \in 1 .. MAX_COLS
    BY <1>1, CellIs DEF WellFormed
  <1>3. r \in 1 .. MAX_ROWS /\ k \in 1 .. MAX_COLS
    BY <1>1, <1>2, CellIs, Bounds
  <1> QED BY <1>1, <1>3 DEF Inner

\* The cells of a map are finitely many.
LEMMA CellsFinite ==
    ASSUME NEW m \in Map
    PROVE  IsFiniteSet(Cells(m))
  <1> DEFINE Upto(n) == {c \in Cells(m) : c[1] <= n}
             Bad == {n \in Nat : n <= Len(m) /\ ~ IsFiniteSet(Upto(n))}
  <1>1. Bad = {}
    <2> SUFFICES ASSUME Bad # {} PROVE FALSE
      OBVIOUS
    <2>1. PICK n \in Bad : \A k \in Bad : n <= k
      <3>1. Bad \in SUBSET Nat
        OBVIOUS
      <3> HIDE DEF Bad
      <3> QED BY <3>1, LeastNumber
    <2>2. n \in Nat /\ n <= Len(m) /\ ~ IsFiniteSet(Upto(n))
      OBVIOUS
    <2>3. n # 0
      <3> SUFFICES ASSUME n = 0 PROVE FALSE
        OBVIOUS
      <3>1. Upto(0) = {}
        BY CellIs
      <3> QED BY <3>1, <2>2, FS_EmptySet
    <2>4. IsFiniteSet(Upto(n - 1))
      <3>1. n - 1 \notin Bad
        <4> HIDE DEF Bad
        <4> QED BY <2>1, <2>2
      <3>2. n - 1 \in Nat /\ n - 1 <= Len(m)
        BY <2>2, <2>3, CellIs
      <3> QED BY <3>1, <3>2
    <2> DEFINE Places == {n} \X (1 .. Len(m[n]))
    <2>5. IsFiniteSet(Places)
      <3>1. n \in 1 .. Len(m)
        BY <2>2, <2>3, CellIs
      <3>2. Len(m[n]) \in Int /\ 1 \in Int
        BY <3>1, CellIs
      <3>3. IsFiniteSet(1 .. Len(m[n])) /\ IsFiniteSet({n})
        BY <3>2, FS_Interval, FS_Singleton
      <3> QED BY <3>3, FS_Product
    <2>6. Upto(n) \subseteq Upto(n - 1) \cup Places
      <3> SUFFICES ASSUME NEW c \in Upto(n) PROVE c \in Upto(n - 1) \cup Places
        OBVIOUS
      <3>1. PICK r, k : r \in 1 .. Len(m) /\ k \in 1 .. Len(m[r]) /\ c = <<r, k>>
        BY CellIs
      <3>2. r \in Nat /\ r <= n
        BY <3>1, CellIs
      <3>3. r <= n - 1 \/ r = n
        BY <3>2, <2>2
      <3> QED BY <3>1, <3>3
    <2> HIDE DEF Upto, Places
    <2>7. IsFiniteSet(Upto(n - 1) \cup Places)
      BY <2>4, <2>5, FS_Union
    <2>8. IsFiniteSet(Upto(n))
      BY <2>6, <2>7, FS_Subset
    <2> QED BY <2>8, <2>2
  <1>2. Len(m) \in Nat
    BY CellIs
  <1>3. Cells(m) = Upto(Len(m))
    BY CellIs
  <1>4. IsFiniteSet(Upto(Len(m)))
    <2> HIDE DEF Upto
    <2>1. Len(m) <= Len(m) /\ Len(m) \notin Bad
      BY <1>1, <1>2
    <2> QED BY <1>2, <2>1
  <1> QED BY <1>3, <1>4

\* At most one cell, said with and without counting.
LEMMA AtMostOne ==
    ASSUME NEW m \in Map, NEW x
    PROVE  Cardinality(FindPlayer(m, x)) <= 1 <=> \A a, b \in FindPlayer(m, x) : a = b
  <1> DEFINE S == FindPlayer(m, x)
  <1>1. IsFiniteSet(S) /\ Cardinality(S) \in Nat
    BY CellsFinite, FloorIs, FS_Subset, FS_CardinalityType
  <1> HIDE DEF S
  <1>2. ASSUME Cardinality(S) <= 1, NEW a \in S, NEW b \in S, a # b PROVE FALSE
    <2>1. Cardinality(S \ {a}) = Cardinality(S) - 1 /\ IsFiniteSet(S \ {a})
      BY <1>1, FS_RemoveElement
    <2>2. Cardinality(S \ {a}) = 0 \/ Cardinality(S) = 0
      BY <1>1, <1>2, <2>1
    <2>3. S \ {a} = {} \/ S = {}
      BY <1>1, <2>1, <2>2, FS_EmptySet
    <2> QED BY <2>3, <1>2
  <1>3. ASSUME \A a, b \in S : a = b PROVE Cardinality(S) <= 1
    <2>1. CASE S = {}
      <3>1. Cardinality(S) = 0
        BY <2>1, <1>1, FS_EmptySet
      <3> QED BY <3>1
    <2>2. CASE S # {}
      <3>1. PICK a \in S : TRUE
        BY <2>2
      <3>2. S = {a}
        BY <1>3, <3>1
      <3>3. Cardinality(S) = 1
        BY <3>2, FS_Singleton
      <3> QED BY <3>3
    <2> QED BY <2>1, <2>2
  <1>4. Cardinality(S) <= 1 <=> \A a, b \in S : a = b
    BY <1>2, <1>3
  <1> QED BY <1>4 DEF S

\* Maps of one shape with walls at the same places.
SameShape(m, n) == Len(m) = Len(n) /\ \A r \in 1 .. Len(m) : Len(m[r]) = Len(n[r])
SameWalls(m, n) ==
    /\ SameShape(m, n)
    /\ \A r \in 1 .. Len(m) : \A k \in 1 .. Len(m[r]) :
          IsFloor(m[r][k]) = IsFloor(n[r][k]) /\ (m[r][k] = "#" <=> n[r][k] = "#")

LEMMA SameFloor ==
    ASSUME NEW m \in Map, NEW n \in Map, SameWalls(m, n)
    PROVE  /\ Cells(n) = Cells(m) /\ Floor(n) = Floor(m)
           /\ WellFormed(n) <=> WellFormed(m)
           /\ IsConnected(n) <=> IsConnected(m)
  <1>1. Cells(n) = Cells(m)
    <2>1. \A c : c \in Cells(n) <=> c \in Cells(m)
      <3>1. \A r : r \in 1 .. Len(n) => Len(n[r]) = Len(m[r])
        BY DEF SameWalls, SameShape
      <3> QED BY <3>1, CellIs DEF SameWalls, SameShape
    <2> QED BY <2>1
  <1>2. Floor(n) = Floor(m)
    <2>1. \A c \in Cells(m) : IsFloor(Ch(m, c)) <=> IsFloor(Ch(n, c))
      <3> SUFFICES ASSUME NEW c \in Cells(m) PROVE IsFloor(Ch(m, c)) <=> IsFloor(Ch(n, c))
        OBVIOUS
      <3>1. PICK r, k : r \in 1 .. Len(m) /\ k \in 1 .. Len(m[r]) /\ c = <<r, k>>
        BY CellIs
      <3>2. Ch(m, c) = m[r][k] /\ Ch(n, c) = n[r][k]
        BY <3>1, CellIs
      <3>3. IsFloor(m[r][k]) = IsFloor(n[r][k])
        BY <3>1 DEF SameWalls
      <3> QED BY <3>2, <3>3
    <2> QED BY <2>1, <1>1 DEF Floor
  <1>3. WellFormed(n) <=> WellFormed(m)
    <2>1. Len(n) = Len(m) /\ \A r \in 1 .. Len(m) : Len(m[r]) = Len(n[r])
      BY DEF SameWalls, SameShape
    <2>2. \A r \in 1 .. Len(m) : \A k \in 1 .. Len(m[r]) :
             m[r][k] = "#" \/ IsFloor(m[r][k]) <=> n[r][k] = "#" \/ IsFloor(n[r][k])
      BY DEF SameWalls
    <2>3. DOMAIN m = 1 .. Len(m) /\ DOMAIN n = 1 .. Len(m)
      BY <2>1, CellIs
    <2>4. \A r \in 1 .. Len(m) : DOMAIN m[r] = 1 .. Len(m[r]) /\ DOMAIN n[r] = 1 .. Len(m[r])
      BY <2>1, CellIs
    <2>5. Len(m) \in 1 .. MAX_ROWS => 1 \in 1 .. Len(m)
      BY CellIs
    <2>6. Len(m) \in 1 .. MAX_ROWS => Len(m[1]) = Len(n[1])
      BY <2>1, <2>5
    <2> QED BY <2>1, <2>2, <2>3, <2>4, <2>6 DEF WellFormed
  <1>4. IsConnected(n) <=> IsConnected(m)
    BY <1>2 DEF IsConnected
  <1> QED BY <1>1, <1>2, <1>3, <1>4

\* An assignment to an element of a sequence.
LEMMA ExceptSeq ==
    ASSUME NEW S, NEW s \in Seq(S), NEW k \in 1 .. Len(s), NEW e \in S, NEW t,
           t = [s EXCEPT ![k] = e]
    PROVE  /\ t \in Seq(S) /\ Len(t) = Len(s)
           /\ \A j \in 1 .. Len(s) : t[j] = IF j = k THEN e ELSE s[j]
  <1>1. Len(s) \in Nat /\ DOMAIN s = 1 .. Len(s) /\ \A j \in 1 .. Len(s) : s[j] \in S
    OBVIOUS
  <1>2. DOMAIN t = 1 .. Len(s) /\ t = [j \in 1 .. Len(s) |-> IF j = k THEN e ELSE s[j]]
    BY <1>1
  <1>3. \A j \in 1 .. Len(s) : t[j] = IF j = k THEN e ELSE s[j]
    BY <1>2
  <1>4. t \in [1 .. Len(s) -> S]
    BY <1>1, <1>2
  <1> QED BY <1>1, <1>3, <1>4

\* An assignment to a cell of the map.
LEMMA PutFacts ==
    ASSUME NEW m \in Map, NEW r \in 1 .. Len(m), NEW k \in 1 .. Len(m[r]), NEW ch \in Char,
           NEW n, n = Put(m, <<r, k>>, ch)
    PROVE  /\ n \in Map /\ SameShape(m, n)
           /\ \A i \in 1 .. Len(m) : \A j \in 1 .. Len(m[i]) :
                 n[i][j] = IF i = r /\ j = k THEN ch ELSE m[i][j]
  <1>1. n = [m EXCEPT ![r] = [m[r] EXCEPT ![k] = ch]]
    BY DEF Put
  <1>2. Len(m) \in Nat /\ DOMAIN m = 1 .. Len(m)
    BY CellIs
  <1>3. \A i \in 1 .. Len(m) : m[i] \in Row
    BY CellIs
  <1>4. PICK row : row = [m[r] EXCEPT ![k] = ch]
    OBVIOUS
  <1>5. /\ row \in Row /\ Len(row) = Len(m[r])
        /\ \A j \in 1 .. Len(m[r]) : row[j] = IF j = k THEN ch ELSE m[r][j]
    BY <1>3, <1>4, ExceptSeq DEF Row
  <1>6. n = [m EXCEPT ![r] = row]
    BY <1>1, <1>4
  <1>7. /\ n \in Map /\ Len(n) = Len(m)
        /\ \A i \in 1 .. Len(m) : n[i] = IF i = r THEN row ELSE m[i]
    <2>1. m \in Seq(Row) /\ row \in Row
      BY <1>5 DEF Map
    <2>2. \A t : t = [m EXCEPT ![r] = row] =>
             /\ t \in Seq(Row) /\ Len(t) = Len(m)
             /\ \A i \in 1 .. Len(m) : t[i] = IF i = r THEN row ELSE m[i]
      BY <2>1, ExceptSeq
    <2> QED BY <2>2, <1>6 DEF Map
  <1>8. \A i \in 1 .. Len(m) : n[i] = IF i = r THEN row ELSE m[i]
    BY <1>7
  <1>9. SameShape(m, n)
    BY <1>5, <1>7, <1>8 DEF SameShape
  <1> QED BY <1>5, <1>7, <1>8, <1>9 DEF Map

LEMMA Characters == /\ "." \in Char /\ "." \notin Player /\ "#" \notin Player /\ "." # "#"
                    /\ \A p \in Player : p \in Char /\ p # "." /\ p # "#"
  <1>1. "." # "#"
    OBVIOUS
  <1> QED BY <1>1, FilesAssumption DEF Char

Directions == {"up", "down", "left", "right"}

\* What a move does: p, who was at from or starts from the first empty cell, is at
\* to, which was empty, and nobody else has moved.
Moved(m, n, p, d, from, to) ==
    /\ n \in Map /\ SameWalls(m, n)
    /\ d \in Directions /\ from \in Floor(m) /\ to \in Floor(m) /\ Ch(m, to) = "."
    /\ to = <<from[1] + Step(d)[1], from[2] + Step(d)[2]>>
    /\ FindPlayer(m, p) # {} => from \in FindPlayer(m, p)
    /\ FindPlayer(m, p) = {} => /\ from \in FindFirstEmptySpace(m)
                                /\ from = FirstOf(FindFirstEmptySpace(m))
    /\ FindPlayer(n, p) = (FindPlayer(m, p) \ {from}) \cup {to}
    /\ \A x \in Player \ {p} : FindPlayer(n, x) = FindPlayer(m, x)

LEMMA MoveFacts ==
    ASSUME NEW m \in Map, NEW p \in Player, NEW d, MovePlayer(m, p, d) # << >>
    PROVE  \E from, to : Moved(m, MovePlayer(m, p, d), p, d, from, to)
  <1> DEFINE starts == IF FindPlayer(m, p) # {} THEN FindPlayer(m, p) ELSE FindFirstEmptySpace(m)
             from == FirstOf(starts)
             to   == <<from[1] + Step(d)[1], from[2] + Step(d)[2]>>
             half == Clear(m, from, p)
             n == Put(half, to, p)
  <1>1. /\ d \in Directions /\ starts # {} /\ IsEmptySpace(m, to)
        /\ MovePlayer(m, p, d) = n
    BY DEF MovePlayer, Directions
  <1>2. FindFirstEmptySpace(m) = FindPlayer(m, ".") /\ starts \subseteq Cells(m)
    BY FloorIs DEF FindFirstEmptySpace, FindPlayer
  <1>3. from \in starts
    <2>1. starts \in SUBSET (Nat \X Nat)
      BY <1>2, CellIs
    <2> HIDE DEF starts
    <2> QED BY <1>1, <2>1, FirstIs
  <1>4. /\ FindPlayer(m, p) # {} => from \in FindPlayer(m, p)
        /\ FindPlayer(m, p) = {} => /\ from \in FindFirstEmptySpace(m)
                                    /\ from = FirstOf(FindFirstEmptySpace(m))
    BY <1>3
  <1>5. PICK fr, fk : fr \in 1 .. Len(m) /\ fk \in 1 .. Len(m[fr]) /\ from = <<fr, fk>>
    <2> HIDE DEF starts, from
    <2> QED BY <1>2, <1>3, CellIs
  <1>6. PICK tr, tk : tr \in 1 .. Len(m) /\ tk \in 1 .. Len(m[tr]) /\ to = <<tr, tk>>
    <2> HIDE DEF to
    <2> QED BY <1>1, CellIs DEF IsEmptySpace
  <1>7. to = <<from[1] + Step(d)[1], from[2] + Step(d)[2]>>
    OBVIOUS
  <1> HIDE DEF starts, from, to
  <1>8. m[tr][tk] = "." /\ Ch(m, to) = "."
    BY <1>1, <1>6, CellIs DEF IsEmptySpace
  <1>9. /\ FindPlayer(m, p) # {} => m[fr][fk] = p
        /\ FindPlayer(m, p) = {} => m[fr][fk] = "."
    <2>1. FindPlayer(m, p) # {} => <<fr, fk>> \in FindPlayer(m, p)
      BY <1>4, <1>5
    <2>2. FindPlayer(m, p) = {} => <<fr, fk>> \in FindPlayer(m, ".")
      BY <1>2, <1>4, <1>5
    <2> QED BY <2>1, <2>2, FloorIs
  <1> DEFINE There == FindPlayer(m, p) # {}
  <1>10. /\ half \in Map /\ SameShape(m, half)
         /\ \A i \in 1 .. Len(m) : \A j \in 1 .. Len(m[i]) :
               half[i][j] = IF There /\ i = fr /\ j = fk THEN "." ELSE m[i][j]
    <2>1. CASE There
      <3>1. half = Put(m, <<fr, fk>>, ".")
        BY <2>1, <1>5 DEF Clear
      <3> HIDE DEF half, There
      <3>2. /\ half \in Map /\ SameShape(m, half)
            /\ \A i \in 1 .. Len(m) : \A j \in 1 .. Len(m[i]) :
                  half[i][j] = IF i = fr /\ j = fk THEN "." ELSE m[i][j]
        BY <3>1, <1>5, Characters, PutFacts
      <3> QED BY <2>1, <3>2
    <2>2. CASE ~ There
      <3>1. half = m
        BY <2>2 DEF Clear
      <3> QED BY <3>1, <2>2 DEF SameShape
    <2> QED BY <2>1, <2>2
  <1> HIDE DEF half, There
  <1>11. /\ n \in Map /\ SameShape(half, n)
         /\ \A i \in 1 .. Len(half) : \A j \in 1 .. Len(half[i]) :
               n[i][j] = IF i = tr /\ j = tk THEN p ELSE half[i][j]
    <2>1. tr \in 1 .. Len(half) /\ tk \in 1 .. Len(half[tr])
      BY <1>6, <1>10 DEF SameShape
    <2>2. n = Put(half, <<tr, tk>>, p)
      BY <1>6
    <2>3. half \in Map /\ p \in Char
      BY <1>10, Characters
    <2> HIDE DEF n
    <2> QED BY <2>1, <2>2, <2>3, PutFacts
  <1> HIDE DEF n
  <1>12. /\ SameShape(m, n)
         /\ \A i \in 1 .. Len(m) : \A j \in 1 .. Len(m[i]) :
               n[i][j] = IF i = tr /\ j = tk THEN p
                         ELSE IF There /\ i = fr /\ j = fk THEN "." ELSE m[i][j]
    <2>1. Len(half) = Len(m) /\ \A i \in 1 .. Len(m) : Len(half[i]) = Len(m[i])
      BY <1>10 DEF SameShape
    <2>2. Len(n) = Len(half) /\ \A i \in 1 .. Len(half) : Len(half[i]) = Len(n[i])
      BY <1>11 DEF SameShape
    <2>3. SameShape(m, n)
      BY <2>1, <2>2 DEF SameShape
    <2>4. ASSUME NEW i \in 1 .. Len(m), NEW j \in 1 .. Len(m[i])
          PROVE  n[i][j] = IF i = tr /\ j = tk THEN p
                           ELSE IF There /\ i = fr /\ j = fk THEN "." ELSE m[i][j]
      <3>1. i \in 1 .. Len(half) /\ j \in 1 .. Len(half[i])
        BY <2>1
      <3>2. n[i][j] = IF i = tr /\ j = tk THEN p ELSE half[i][j]
        BY <3>1, <1>11
      <3>3. half[i][j] = IF There /\ i = fr /\ j = fk THEN "." ELSE m[i][j]
        BY <1>10
      <3> QED BY <3>2, <3>3
    <2> QED BY <2>3, <2>4
  <1>13. SameWalls(m, n)
    <2> SUFFICES ASSUME NEW i \in 1 .. Len(m), NEW j \in 1 .. Len(m[i])
                 PROVE  IsFloor(m[i][j]) = IsFloor(n[i][j]) /\ (m[i][j] = "#" <=> n[i][j] = "#")
      BY <1>12 DEF SameWalls
    <2>1. CASE i = tr /\ j = tk
      <3>1. m[i][j] = "." /\ n[i][j] = p
        BY <2>1, <1>8, <1>12
      <3> QED BY <3>1, Characters DEF IsFloor
    <2>2. CASE There /\ i = fr /\ j = fk /\ ~ (i = tr /\ j = tk)
      <3>1. m[i][j] = p /\ n[i][j] = "."
        BY <2>2, <1>9, <1>12 DEF There
      <3> QED BY <3>1, Characters DEF IsFloor
    <2>3. CASE ~ (i = tr /\ j = tk) /\ ~ (There /\ i = fr /\ j = fk)
      <3>1. n[i][j] = m[i][j]
        BY <2>3, <1>12
      <3> QED BY <3>1
    <2> QED BY <2>1, <2>2, <2>3
  <1>14. from \in Floor(m) /\ to \in Floor(m)
    BY <1>5, <1>6, <1>8, <1>9, FloorIs DEF IsFloor
  <1>15. \A x : \A c : c \in FindPlayer(n, x) <=>
            \E i \in 1 .. Len(m) : \E j \in 1 .. Len(m[i]) : c = <<i, j>> /\ n[i][j] = x
    <2>1. Cells(n) = Cells(m)
      BY <1>11, <1>13, SameFloor
    <2>2. \A x, c : c \in FindPlayer(n, x) <=> c \in Cells(m) /\ Ch(n, c) = x
      BY <2>1 DEF FindPlayer
    <2>3. \A i, j : Ch(n, <<i, j>>) = n[i][j]
      BY <1>11, CellIs
    <2> QED BY <2>2, <2>3, CellIs
  <1>16. \A x : \A c : c \in FindPlayer(m, x) <=>
            \E i \in 1 .. Len(m) : \E j \in 1 .. Len(m[i]) : c = <<i, j>> /\ m[i][j] = x
    BY CellIs DEF FindPlayer
  <1>17. FindPlayer(n, p) = (FindPlayer(m, p) \ {from}) \cup {to}
    <2> SUFFICES ASSUME NEW c
                 PROVE  c \in FindPlayer(n, p)
                           <=> (c \in FindPlayer(m, p) /\ c # from) \/ c = to
      OBVIOUS
    <2>1. ASSUME NEW i \in 1 .. Len(m), NEW j \in 1 .. Len(m[i]), c = <<i, j>>
          PROVE  n[i][j] = p <=> (m[i][j] = p /\ c # from) \/ c = to
      <3>1. c = to <=> i = tr /\ j = tk
        BY <2>1, <1>6
      <3>2. c = from <=> i = fr /\ j = fk
        BY <2>1, <1>5
      <3>3. ~ There => m[i][j] # p
        BY <2>1, <1>16 DEF There
      <3> QED BY <3>1, <3>2, <3>3, <1>12, <1>9, Characters
    <2>2. c \in FindPlayer(n, p) \/ c \in FindPlayer(m, p) \/ c = to
             => \E i \in 1 .. Len(m) : \E j \in 1 .. Len(m[i]) : c = <<i, j>>
      BY <1>15, <1>16, <1>6
    <2>3. CASE \E i \in 1 .. Len(m) : \E j \in 1 .. Len(m[i]) : c = <<i, j>>
      <3>1. PICK i, j : i \in 1 .. Len(m) /\ j \in 1 .. Len(m[i]) /\ c = <<i, j>>
        BY <2>3
      <3>2. c \in FindPlayer(n, p) <=> n[i][j] = p
        BY <3>1, <1>15
      <3>3. c \in FindPlayer(m, p) <=> m[i][j] = p
        BY <3>1, <1>16
      <3>4. n[i][j] = p <=> (m[i][j] = p /\ c # from) \/ c = to
        BY <3>1, <2>1
      <3> QED BY <3>2, <3>3, <3>4
    <2> QED BY <2>2, <2>3
  <1>18. \A x \in Player \ {p} : FindPlayer(n, x) = FindPlayer(m, x)
    <2> SUFFICES ASSUME NEW x \in Player \ {p}, NEW c
                 PROVE  c \in FindPlayer(n, x) <=> c \in FindPlayer(m, x)
      OBVIOUS
    <2>1. \A i \in 1 .. Len(m) : \A j \in 1 .. Len(m[i]) : n[i][j] = x <=> m[i][j] = x
      <3> SUFFICES ASSUME NEW i \in 1 .. Len(m), NEW j \in 1 .. Len(m[i])
                   PROVE  n[i][j] = x <=> m[i][j] = x
        OBVIOUS
      <3>1. x # p /\ x # "."
        BY Characters
      <3>2. There => m[fr][fk] = p
        BY <1>9 DEF There
      <3> QED BY <3>1, <3>2, <1>8, <1>12
    <2> QED BY <2>1, <1>15, <1>16
  <1>19. Moved(m, n, p, d, from, to)
    BY <1>1, <1>4, <1>7, <1>8, <1>11, <1>13, <1>14, <1>17, <1>18 DEF Moved
  <1>20. MovePlayer(m, p, d) = n
    BY <1>1
  <1> QED BY <1>19, <1>20

----------------------------------------------------------------------------
(* Rows read and written.                                                  *)

LEMMA SeqIn ==
    ASSUME NEW S, NEW n \in Nat, NEW s \in [1 .. n -> S]
    PROVE  s \in Seq(S) /\ Len(s) = n /\ DOMAIN s = 1 .. n
  OBVIOUS

LEMMA FilesAreMaps == Files \subseteq Map /\ << >> \in Map /\ Len(<< >>) = 0
  <1>1. ASSUME NEW s \in Seq(STRING) PROVE s \in Row
    <2>1. s \in [1 .. Len(s) -> Char] /\ Len(s) \in Nat
      BY DEF Char
    <2> QED BY <2>1, SeqIn DEF Row
  <1>2. ASSUME NEW m \in Files PROVE m \in Map
    <2>1. m \in Seq(Seq(STRING))
      BY FilesAssumption
    <2>2. PICK S : S = Seq(STRING)
      OBVIOUS
    <2>3. m \in Seq(S) /\ \A s \in S : s \in Row
      BY <2>1, <2>2, <1>1
    <2>4. Len(m) \in Nat /\ m \in [1 .. Len(m) -> Row]
      BY <2>3
    <2> QED BY <2>4, SeqIn DEF Map
  <1> QED BY <1>2 DEF Map

\* A piece of at most BUF rows after the first k.
LEMMA RowsFacts ==
    ASSUME NEW m \in Map, NEW k \in Nat, k < Len(m), NEW rows, rows = Rows(m, k)
    PROVE  /\ rows \in Map /\ Len(rows) \in 1 .. BUF /\ k + Len(rows) <= Len(m)
           /\ Len(m) <= k + BUF => k + Len(rows) = Len(m)
           /\ \A i \in 1 .. Len(rows) : rows[i] = m[k + i]
  <1>1. Len(m) \in Nat /\ BUF \in Nat \ {0} /\ k + BUF \in Nat
    BY CellIs, Bounds
  <1>2. PICK e : e = Min({k + BUF, Len(m)})
    OBVIOUS
  <1>3. e = IF k + BUF <= Len(m) THEN k + BUF ELSE Len(m)
    BY <1>1, <1>2, MinOfTwo
  <1>4. e \in Nat /\ k < e /\ e <= Len(m) /\ e <= k + BUF /\ (Len(m) <= k + BUF => e = Len(m))
    BY <1>1, <1>3
  <1>5. rows = SubSeq(m, k + 1, e)
    BY <1>2 DEF Rows
  <1>6. /\ rows \in Seq(Row) /\ Len(rows) = e - k
        /\ \A i \in 1 .. e - k : rows[i] = m[k + i]
    <2>1. m \in Seq(Row) /\ k + 1 \in 1 .. Len(m) + 1 /\ e \in 0 .. Len(m)
      BY <1>1, <1>4 DEF Map
    <2>2. rows = [i \in 1 .. (e - (k + 1) + 1) |-> m[i + (k + 1) - 1]]
      BY <1>5, <2>1
    <2>3. e - (k + 1) + 1 = e - k /\ e - k \in Nat /\ \A i \in 1 .. e - k : i + (k + 1) - 1 = k + i /\ k + i \in 1 .. Len(m)
      BY <1>1, <1>4
    <2>4. rows = [i \in 1 .. e - k |-> m[k + i]]
      BY <2>2, <2>3
    <2>5. rows \in [1 .. e - k -> Row]
      BY <2>1, <2>3, <2>4
    <2>6. rows \in Seq(Row) /\ Len(rows) = e - k
      BY <2>3, <2>5, SeqIn
    <2>7. \A i \in 1 .. e - k : rows[i] = m[k + i]
      BY <2>4
    <2> QED BY <2>6, <2>7
  <1>7. Len(rows) \in 1 .. BUF /\ k + Len(rows) = e
    BY <1>1, <1>4, <1>6
  <1> QED BY <1>4, <1>6, <1>7 DEF Map

\* The first rows of such a piece.
LEMMA FirstRows ==
    ASSUME NEW m \in Map, NEW k \in 0 .. Len(m), NEW rows, rows = SubSeq(m, 1, k)
    PROVE  rows \in Map /\ Len(rows) = k /\ \A i \in 1 .. k : rows[i] = m[i]
  <1>1. Len(m) \in Nat /\ m \in Seq(Row)
    BY CellIs DEF Map
  <1>2. rows = [i \in 1 .. (k - 1 + 1) |-> m[i + 1 - 1]]
    BY <1>1
  <1>3. k - 1 + 1 = k /\ k \in Nat /\ \A i \in 1 .. k : i + 1 - 1 = i /\ i \in 1 .. Len(m)
    BY <1>1
  <1>4. rows = [i \in 1 .. k |-> m[i]]
    BY <1>2, <1>3
  <1>5. rows \in [1 .. k -> Row]
    <2>1. \A i \in 1 .. k : m[i] \in Row
      BY <1>1, <1>3
    <2> QED BY <2>1, <1>4
  <1>6. rows \in Seq(Row) /\ Len(rows) = k
    BY <1>3, <1>5, SeqIn
  <1> QED BY <1>4, <1>6 DEF Map

LEMMA Appended ==
    ASSUME NEW m \in Map, NEW rows \in Map, NEW n, n = m \o rows
    PROVE  /\ n \in Map /\ Len(n) = Len(m) + Len(rows)
           /\ \A i \in 1 .. Len(n) : n[i] = IF i <= Len(m) THEN m[i] ELSE rows[i - Len(m)]
  BY DEF Map

LEMMA OverlayFacts ==
    ASSUME NEW f \in Map, NEW k \in Nat, NEW rows \in Map, NEW n, n = Overlay(f, k, rows)
    PROVE  /\ n \in Map /\ Len(n) = IF Len(f) >= k + Len(rows) THEN Len(f) ELSE k + Len(rows)
           /\ \A r \in 1 .. Len(n) : n[r] = IF r \in k + 1 .. k + Len(rows) THEN rows[r - k]
                                            ELSE IF r <= Len(f) THEN f[r] ELSE <<"NUL">>
  <1>1. Len(f) \in Nat /\ Len(rows) \in Nat
    BY CellIs
  <1>2. PICK e : e = Max({Len(f), k + Len(rows)})
    OBVIOUS
  <1>3. e = (IF Len(f) >= k + Len(rows) THEN Len(f) ELSE k + Len(rows)) /\ e \in Nat
    BY <1>1, <1>2, MaxOfTwo
  <1>4. n = [r \in 1 .. e |-> IF r \in k + 1 .. k + Len(rows) THEN rows[r - k]
                              ELSE IF r <= Len(f) THEN f[r] ELSE <<"NUL">>]
    BY <1>2 DEF Overlay
  <1>5. <<"NUL">> \in Row
    BY DEF Row, Char
  <1>6. ASSUME NEW r \in 1 .. e PROVE n[r] \in Row
    <2>1. CASE r \in k + 1 .. k + Len(rows)
      <3>1. n[r] = rows[r - k] /\ r - k \in 1 .. Len(rows)
        BY <2>1, <1>1, <1>4
      <3> QED BY <3>1, CellIs
    <2>2. CASE r \notin k + 1 .. k + Len(rows) /\ r <= Len(f)
      <3>1. n[r] = f[r] /\ r \in 1 .. Len(f)
        BY <2>2, <1>1, <1>3, <1>4
      <3> QED BY <3>1, CellIs
    <2>3. CASE r \notin k + 1 .. k + Len(rows) /\ ~ (r <= Len(f))
      BY <2>3, <1>4, <1>5
    <2> QED BY <2>1, <2>2, <2>3
  <1>7. n \in [1 .. e -> Row]
    BY <1>4, <1>6
  <1>8. n \in Seq(Row) /\ Len(n) = e
    BY <1>3, <1>7, SeqIn
  <1> QED BY <1>3, <1>4, <1>8 DEF Map

\* A move keeps a map that loadMap takes such a map.
LEMMA MoveKeeps ==
    ASSUME NEW m \in Map, NEW p \in Player, NEW d, NEW n, n = MovePlayer(m, p, d), n # << >>, LoadMap(m)
    PROVE  n \in Map /\ SameWalls(m, n) /\ LoadMap(n)
  <1>1. n \in Map /\ SameWalls(m, n)
    BY MoveFacts DEF Moved
  <1> QED BY <1>1, SameFloor DEF LoadMap

----------------------------------------------------------------------------
(* The invariant.  OneEach: every player at most once.  Begins: f is the   *)
(* first k rows of m.  Piece: rows of the first map, moved on; Whole: all  *)
(* of them.                                                                *)

OneEach(m) == \A x \in Player : \A a, b \in FindPlayer(m, x) : a = b
Begins(m, f, k) == k <= Len(m) /\ Len(f) = k /\ \A r \in 1 .. k : f[r] = m[r]
SameRow(a, b) == /\ Len(a) = Len(b)
                 /\ \A k \in 1 .. Len(a) : IsFloor(a[k]) = IsFloor(b[k]) /\ (a[k] = "#" <=> b[k] = "#")
Piece(m) == Len(m) <= Len(start) /\ \A r \in 1 .. Len(m) : SameRow(start[r], m[r])
Whole(m) == Piece(m) /\ Len(m) = Len(start) /\ OneEach(m)

Types ==
    /\ file \in Map /\ start \in Files
    /\ pc \in [Proc -> {"idle", "read", "move", "open", "write"}]
    /\ status \in [Proc -> {"none", "success", "failure", "killed"}]
    /\ args \in [Proc -> [player : Player, move : Moves \cup {"print"}]]
    /\ map \in [Proc -> Map] /\ before \in [Proc -> Map] /\ pos \in [Proc -> Nat]
    /\ runs \in 0 .. MaxRuns /\ torn \in BOOLEAN /\ overlapped \in BOOLEAN

\* How far a process has come with its map.
Progress(p) ==
    /\ pos[p] <= MAX_ROWS + BUF
    /\ pc[p] = "idle" => map[p] = << >> /\ pos[p] = 0
    /\ pc[p] = "read" => Len(map[p]) = pos[p]
    /\ pc[p] \in {"move", "open", "write"} => LoadMap(map[p])
    /\ pc[p] = "write" => pos[p] < Len(map[p])

Alone == \A p, q \in Proc : pc[p] # "idle" /\ pc[q] # "idle" => p = q

\* In turn, the file is as the process found it until the process writes.
Kept(p) ==
    /\ pc[p] # "idle" => \A q \in Proc : status[q] = "none"
    /\ pc[p] \in {"read", "move", "open"} => before[p] = file
    /\ pc[p] = "idle" /\ status[p] = "failure" => file = before[p]

\* In turn, what the map of a process is to the file.
Played(p) ==
    /\ pc[p] = "read" => Begins(file, map[p], pos[p])
    /\ pc[p] = "move" => map[p] = file
    /\ pc[p] = "open" => map[p] = MovePlayer(file, args[p].player, args[p].move)
    /\ pc[p] = "write" => OneEach(map[p]) /\ Begins(map[p], file, pos[p])

InTurn ==
    ~ overlapped => Alone /\ (~ torn => /\ \A p \in Proc : Kept(p) /\ Played(p)
                                        /\ (\A p \in Proc : pc[p] # "write") => OneEach(file))

\* At once, for a map that fits in the buffer.
Pieces == Piece(file) /\ \A p \in Proc : Piece(map[p]) /\ (pc[p] = "write" => pos[p] = 0)
Wholes ==
    /\ Whole(file) \/ (file = << >> /\ \E p \in Proc : pc[p] = "write")
    /\ \A p \in Proc : /\ pc[p] = "read" => map[p] = << >> \/ Whole(map[p])
                       /\ pc[p] \in {"move", "open", "write"} => Whole(map[p])
AtOnce == LoadMap(start) /\ Len(start) <= BUF => Pieces /\ (~ torn => Wholes)

Inv == Types /\ (\A p \in Proc : Progress(p)) /\ InTurn /\ AtOnce

----------------------------------------------------------------------------
(* What isConnected answers.                                               *)

\* isConnected answers TRUE exactly when no part of the floor is cut off, for every
\* map within the limits of loadMap.
THEOREM ConnectedTheorem == Spec => []ConnectedMeansReachable
  <1>1. Init => start \in Files
    BY DEF Init
  <1>2. start \in Files /\ [Next]_vars => (start \in Files)'
    BY DEF Next, vars, Invoke, Read, Loaded, Move, OpenForWriting, Flush, FlushFails, FileFails, Crash
  <1>3. start \in Files => ConnectedMeansReachable
    <2> SUFFICES ASSUME start \in Files, WellFormed(start)
                 PROVE  IsConnected(start)
                          <=> \A S \in SUBSET Floor(start) :
                                S # {} /\ S # Floor(start) =>
                                   \E c \in S, e \in Floor(start) \ S : e \in Beside(c)
      BY DEF ConnectedMeansReachable, Beside
    <2>1. start \in Map /\ Floor(start) \in SUBSET Inner
      BY FilesAreMaps, FloorInner
    <2>2. CASE Floor(start) = {}
      BY <2>2 DEF IsConnected
    <2>3. CASE Floor(start) # {}
      BY <2>1, <2>3, SearchDecides DEF IsConnected
    <2> QED BY <2>2, <2>3
  <1> QED BY <1>1, <1>2, <1>3, PTL DEF Spec

----------------------------------------------------------------------------
(* Types and progress.                                                     *)

LEMMA NoArgsType == NoArgs \in [player : Player, move : Moves \cup {"print"}]
  BY FilesAssumption DEF NoArgs

\* What is the same for all actions with Exit.
LEMMA ExitTypes ==
    ASSUME Types, NEW p \in Proc, NEW how \in {"success", "failure", "killed"}, Exit(p, how)
    PROVE  /\ pc' \in [Proc -> {"idle", "read", "move", "open", "write"}]
           /\ status' \in [Proc -> {"none", "success", "failure", "killed"}]
           /\ args' \in [Proc -> [player : Player, move : Moves \cup {"print"}]]
           /\ map' \in [Proc -> Map] /\ pos' \in [Proc -> Nat]
           /\ pc'[p] = "idle" /\ map'[p] = << >> /\ pos'[p] = 0 /\ status'[p] = how
           /\ \A q \in Proc \ {p} : /\ pc'[q] = pc[q] /\ map'[q] = map[q] /\ pos'[q] = pos[q]
                                    /\ status'[q] = status[q] /\ args'[q] = args[q]
  <1>1. args' \in [Proc -> [player : Player, move : Moves \cup {"print"}]]
    BY NoArgsType DEF Types, Exit
  <1>2. map' \in [Proc -> Map]
    BY FilesAreMaps DEF Types, Exit
  <1>3. /\ pc' \in [Proc -> {"idle", "read", "move", "open", "write"}]
        /\ status' \in [Proc -> {"none", "success", "failure", "killed"}]
        /\ pos' \in [Proc -> Nat]
    BY DEF Types, Exit
  <1>4. /\ pc'[p] = "idle" /\ map'[p] = << >> /\ pos'[p] = 0 /\ status'[p] = how
        /\ \A q \in Proc \ {p} : /\ pc'[q] = pc[q] /\ map'[q] = map[q] /\ pos'[q] = pos[q]
                                 /\ status'[q] = status[q] /\ args'[q] = args[q]
    BY DEF Types, Exit
  <1> QED BY <1>1, <1>2, <1>3, <1>4

LEMMA LoadedRows ==
    ASSUME NEW m \in Map, LoadMap(m)
    PROVE  Len(m) \in Nat /\ Len(m) > 0 /\ Len(m) <= MAX_ROWS
  BY CellIs, Bounds DEF LoadMap, WellFormed

LEMMA TypesNext ==
    ASSUME Types, \A p \in Proc : Progress(p), [Next]_vars
    PROVE  Types'
  <1>1. CASE UNCHANGED vars
    BY <1>1 DEF Types, vars, local, history
  <1>2. ASSUME NEW p \in Proc, NEW who \in Player, NEW d \in Moves, Invoke(p, who, d) PROVE Types'
    <2>1. args' \in [Proc -> [player : Player, move : Moves \cup {"print"}]]
      BY <1>2 DEF Types, Invoke
    <2>2. before' \in [Proc -> Map]
      BY <1>2, FilesAreMaps DEF Types, Invoke
    <2>3. runs' \in 0 .. MaxRuns
      BY <1>2, Bounds DEF Types, Invoke
    <2>4. overlapped' \in BOOLEAN
      BY <1>2 DEF Types, Invoke
    <2> QED BY <1>2, <2>1, <2>2, <2>3, <2>4 DEF Types, Invoke
  <1>3. ASSUME NEW p \in Proc, Read(p) PROVE Types'
    <2>1. pos[p] \in Nat /\ pos[p] < Len(file) /\ file \in Map /\ map[p] \in Map
      BY <1>3, CellIs DEF Types, Read, AtEnd
    <2>2. PICK rows : rows = Rows(file, pos[p])
      OBVIOUS
    <2>3. rows \in Map /\ Len(rows) \in Nat
      BY <2>1, <2>2, RowsFacts, CellIs
    <2>4. map[p] \o rows \in Map
      BY <2>1, <2>3, Appended
    <2>5. map' \in [Proc -> Map]
      BY <1>3, <2>2, <2>4 DEF Types, Read
    <2>6. pos' \in [Proc -> Nat]
      BY <1>3, <2>1, <2>2, <2>3 DEF Types, Read
    <2> QED BY <1>3, <2>5, <2>6 DEF Types, Read, history
  <1>4. ASSUME NEW p \in Proc, Loaded(p) PROVE Types'
    <2>1. CASE Exit(p, "failure") \/ Exit(p, "success")
      BY <1>4, <2>1, ExitTypes DEF Types, Loaded, history
    <2>2. CASE pc' = [pc EXCEPT ![p] = "move"] /\ UNCHANGED <<args, map, pos, status>>
      BY <1>4, <2>2 DEF Types, Loaded, history
    <2> QED BY <1>4, <2>1, <2>2 DEF Loaded
  <1>5. ASSUME NEW p \in Proc, Move(p) PROVE Types'
    <2>1. PICK m : m = MovePlayer(map[p], args[p].player, args[p].move)
      OBVIOUS
    <2>2. CASE m = << >>
      BY <1>5, <2>1, <2>2, ExitTypes DEF Types, Move, history
    <2>3. CASE m # << >>
      <3>1. map[p] \in Map /\ args[p].player \in Player /\ LoadMap(map[p])
        BY <1>5 DEF Types, Progress, Move
      <3>2. m \in Map
        BY <2>1, <2>3, <3>1, MoveKeeps
      <3>3. /\ pc' = [pc EXCEPT ![p] = "open"] /\ map' = [map EXCEPT ![p] = m]
            /\ UNCHANGED <<args, pos, status, file, before, runs, start, history>>
        BY <1>5, <2>1, <2>3 DEF Move
      <3> QED BY <3>2, <3>3 DEF Types, history
    <2> QED BY <2>2, <2>3
  <1>6. ASSUME NEW p \in Proc, OpenForWriting(p) PROVE Types'
    BY <1>6, FilesAreMaps DEF Types, OpenForWriting, history
  <1>7. ASSUME NEW p \in Proc, Flush(p) PROVE Types'
    <2>1. PICK rows : rows = Rows(map[p], pos[p])
      OBVIOUS
    <2>2. pos[p] \in Nat /\ pos[p] < Len(map[p]) /\ map[p] \in Map
      BY <1>7 DEF Types, Progress, Flush
    <2>3. rows \in Map /\ Len(rows) \in Nat
      BY <2>1, <2>2, RowsFacts, CellIs
    <2>4. Overlay(file, pos[p], rows) \in Map
      BY <2>2, <2>3, OverlayFacts DEF Types
    <2>5. /\ file' = Overlay(file, pos[p], rows)
          /\ Exit(p, "success") \/ (/\ pos' = [pos EXCEPT ![p] = pos[p] + Len(rows)]
                                    /\ UNCHANGED <<pc, args, map, status>>)
          /\ UNCHANGED <<before, runs, start, history>>
      BY <1>7, <2>1 DEF Flush
    <2>6. CASE Exit(p, "success")
      BY <2>4, <2>5, <2>6, ExitTypes DEF Types, history
    <2>7. CASE pos' = [pos EXCEPT ![p] = pos[p] + Len(rows)] /\ UNCHANGED <<pc, args, map, status>>
      <3>1. pos[p] + Len(rows) \in Nat
        BY <2>2, <2>3
      <3> QED BY <3>1, <2>4, <2>5, <2>7 DEF Types, history
    <2> QED BY <2>5, <2>6, <2>7
  <1>8. ASSUME NEW p \in Proc, FlushFails(p) PROVE Types'
    <2>1. PICK rows : rows = Rows(map[p], pos[p])
      OBVIOUS
    <2>2. pos[p] \in Nat /\ pos[p] < Len(map[p]) /\ map[p] \in Map
      BY <1>8 DEF Types, Progress, FlushFails
    <2>3. rows \in Map /\ Len(rows) \in Nat
      BY <2>1, <2>2, RowsFacts, CellIs
    <2>4. PICK k \in 0 .. Len(rows) - 1 :
             file' = IF k = 0 THEN file ELSE Overlay(file, pos[p], SubSeq(rows, 1, k))
      BY <1>8, <2>1 DEF FlushFails
    <2>5. k \in 0 .. Len(rows)
      BY <2>3
    <2>6. SubSeq(rows, 1, k) \in Map
      BY <2>3, <2>5, FirstRows
    <2>7. Overlay(file, pos[p], SubSeq(rows, 1, k)) \in Map
      BY <2>2, <2>6, OverlayFacts DEF Types
    <2>8. file' \in Map
      BY <2>4, <2>7 DEF Types
    <2>9. Exit(p, "failure") /\ torn' = TRUE /\ UNCHANGED <<before, runs, start, overlapped>>
      BY <1>8 DEF FlushFails
    <2> QED BY <2>8, <2>9, ExitTypes DEF Types
  <1>9. ASSUME NEW p \in Proc, FileFails(p) PROVE Types'
    BY <1>9, ExitTypes DEF Types, FileFails, history
  <1>10. ASSUME NEW p \in Proc, Crash(p) PROVE Types'
    BY <1>10, ExitTypes DEF Types, Crash
  <1> QED BY <1>1, <1>2, <1>3, <1>4, <1>5, <1>6, <1>7, <1>8, <1>9, <1>10 DEF Next

\* A process whose step, map and position stay as they are is as far as it was.
LEMMA SameProgress ==
    ASSUME NEW q \in Proc, Progress(q), pc'[q] = pc[q], map'[q] = map[q], pos'[q] = pos[q]
    PROVE  Progress(q)'
  BY DEF Progress, LoadMap, WellFormed, IsConnected

LEMMA ExitProgress ==
    ASSUME Types, NEW p \in Proc, NEW how \in {"success", "failure", "killed"}, Exit(p, how),
           \A q \in Proc : Progress(q)
    PROVE  \A q \in Proc : Progress(q)'
  <1> SUFFICES ASSUME NEW q \in Proc PROVE Progress(q)'
    OBVIOUS
  <1>1. CASE q = p
    BY <1>1, ExitTypes, Bounds DEF Progress
  <1>2. CASE q # p
    <2>1. pc'[q] = pc[q] /\ map'[q] = map[q] /\ pos'[q] = pos[q]
      BY <1>2, ExitTypes
    <2> QED BY <2>1, SameProgress
  <1> QED BY <1>1, <1>2

LEMMA ProgressNext ==
    ASSUME Types, Types', \A p \in Proc : Progress(p), [Next]_vars
    PROVE  \A q \in Proc : Progress(q)'
  <1>1. CASE UNCHANGED vars
    BY <1>1, SameProgress DEF vars, local
  <1>2. ASSUME NEW p \in Proc, NEW who \in Player, NEW d \in Moves, Invoke(p, who, d), NEW q \in Proc
        PROVE  Progress(q)'
    <2>1. map'[q] = map[q] /\ pos'[q] = pos[q] /\ (q # p => pc'[q] = pc[q])
      BY <1>2 DEF Types, Invoke
    <2>2. q = p => map[q] = << >> /\ pos[q] = 0 /\ pc'[q] = "read"
      BY <1>2 DEF Types, Progress, Invoke
    <2>3. CASE q = p
      BY <2>1, <2>2, <2>3, Bounds, FilesAreMaps DEF Progress
    <2> QED BY <2>1, <2>3, SameProgress
  <1>3. ASSUME NEW p \in Proc, Read(p), NEW q \in Proc PROVE Progress(q)'
    <2>1. q # p => pc'[q] = pc[q] /\ map'[q] = map[q] /\ pos'[q] = pos[q]
      BY <1>3 DEF Types, Read
    <2>2. CASE q = p
      <3>1. /\ pos[p] \in Nat /\ pos[p] < Len(file) /\ file \in Map /\ map[p] \in Map
            /\ Len(map[p]) = pos[p] /\ Len(map[p]) <= MAX_ROWS
        BY <1>3, CellIs, Bounds DEF Types, Read, AtEnd, Progress
      <3>2. PICK rows : rows = Rows(file, pos[p])
        OBVIOUS
      <3>3. rows \in Map /\ Len(rows) \in 1 .. BUF
        BY <3>1, <3>2, RowsFacts
      <3>4. Len(map[p] \o rows) = Len(map[p]) + Len(rows)
        BY <3>1, <3>3, Appended
      <3>5. pc'[p] = "read" /\ map'[p] = map[p] \o rows /\ pos'[p] = pos[p] + Len(rows)
        BY <1>3, <3>2 DEF Types, Read
      <3>6. Len(map'[p]) = pos'[p] /\ pos'[p] <= MAX_ROWS + BUF
        BY <3>1, <3>3, <3>4, <3>5, Bounds
      <3> QED BY <2>2, <3>5, <3>6 DEF Progress
    <2> QED BY <2>1, <2>2, SameProgress
  <1>4. ASSUME NEW p \in Proc, Loaded(p), NEW q \in Proc PROVE Progress(q)'
    <2>1. CASE Exit(p, "failure") \/ Exit(p, "success")
      BY <2>1, ExitProgress
    <2>2. CASE /\ LoadMap(map[p]) /\ pc' = [pc EXCEPT ![p] = "move"]
               /\ UNCHANGED <<args, map, pos, status>>
      <3>1. /\ q # p => pc'[q] = pc[q]
            /\ map'[q] = map[q] /\ pos'[q] = pos[q] /\ (q = p => pc'[q] = "move")
        BY <2>2 DEF Types
      <3>2. CASE q = p
        BY <2>2, <3>1, <3>2 DEF Progress, LoadMap, WellFormed, IsConnected
      <3> QED BY <3>1, <3>2, SameProgress
    <2> QED BY <1>4, <2>1, <2>2 DEF Loaded
  <1>5. ASSUME NEW p \in Proc, Move(p), NEW q \in Proc PROVE Progress(q)'
    <2>1. PICK m : m = MovePlayer(map[p], args[p].player, args[p].move)
      OBVIOUS
    <2>2. CASE m = << >>
      BY <1>5, <2>1, <2>2, ExitProgress DEF Move
    <2>3. CASE m # << >>
      <3>1. map[p] \in Map /\ args[p].player \in Player /\ LoadMap(map[p])
        BY <1>5 DEF Types, Progress, Move
      <3>2. LoadMap(m)
        BY <2>1, <2>3, <3>1, MoveKeeps
      <3>3. /\ pc' = [pc EXCEPT ![p] = "open"] /\ map' = [map EXCEPT ![p] = m]
            /\ UNCHANGED pos
        BY <1>5, <2>1, <2>3 DEF Move
      <3>4. CASE q = p
        <4>1. pc'[q] = "open" /\ map'[q] = m /\ pos'[q] = pos[q]
          BY <3>3, <3>4 DEF Types
        <4> QED BY <4>1, <3>2 DEF Progress, LoadMap, WellFormed, IsConnected
      <3>5. CASE q # p
        <4>1. pc'[q] = pc[q] /\ map'[q] = map[q] /\ pos'[q] = pos[q]
          BY <3>3, <3>5 DEF Types
        <4> QED BY <4>1, SameProgress
      <3> QED BY <3>4, <3>5
    <2> QED BY <2>2, <2>3
  <1>6. ASSUME NEW p \in Proc, OpenForWriting(p), NEW q \in Proc PROVE Progress(q)'
    <2>1. CASE q = p
      <3>1. LoadMap(map[p]) /\ Len(map[p]) > 0
        BY <1>6, LoadedRows DEF Progress, OpenForWriting, Types
      <3>2. pc'[q] = "write" /\ map'[q] = map[p] /\ pos'[q] = 0
        BY <1>6, <2>1 DEF Types, OpenForWriting
      <3> QED BY <3>1, <3>2, Bounds DEF Progress, LoadMap, WellFormed, IsConnected
    <2>2. CASE q # p
      <3>1. pc'[q] = pc[q] /\ map'[q] = map[q] /\ pos'[q] = pos[q]
        BY <1>6, <2>2 DEF Types, OpenForWriting
      <3> QED BY <3>1, SameProgress
    <2> QED BY <2>1, <2>2
  <1>7. ASSUME NEW p \in Proc, Flush(p), NEW q \in Proc PROVE Progress(q)'
    <2>1. PICK rows : rows = Rows(map[p], pos[p])
      OBVIOUS
    <2>2. /\ pos[p] \in Nat /\ pos[p] < Len(map[p]) /\ map[p] \in Map /\ pc[p] = "write"
          /\ LoadMap(map[p])
      BY <1>7 DEF Types, Progress, Flush
    <2>3. Len(rows) \in Nat /\ pos[p] + Len(rows) <= Len(map[p])
      BY <2>1, <2>2, RowsFacts, Bounds
    <2>4. CASE pos[p] + Len(rows) = Len(map[p])
      <3>1. Exit(p, "success")
        BY <1>7, <2>1, <2>4 DEF Flush
      <3> QED BY <3>1, ExitProgress
    <2>5. CASE pos[p] + Len(rows) # Len(map[p])
      <3>1. pos' = [pos EXCEPT ![p] = pos[p] + Len(rows)] /\ UNCHANGED <<pc, map>>
        BY <1>7, <2>1, <2>5 DEF Flush
      <3>2. CASE q = p
        <4>1. pc'[q] = "write" /\ map'[q] = map[p] /\ pos'[q] = pos[p] + Len(rows)
          BY <3>1, <3>2, <2>2 DEF Types
        <4>2. Len(map[p]) \in Nat /\ Len(map[p]) <= MAX_ROWS
          BY <2>2, LoadedRows
        <4>3. pos'[q] < Len(map'[q]) /\ pos'[q] <= MAX_ROWS + BUF
          BY <4>1, <4>2, <2>2, <2>3, <2>5, Bounds
        <4> QED BY <4>1, <4>3, <2>2 DEF Progress, LoadMap, WellFormed, IsConnected
      <3>3. CASE q # p
        <4>1. pc'[q] = pc[q] /\ map'[q] = map[q] /\ pos'[q] = pos[q]
          BY <3>1, <3>3 DEF Types
        <4> QED BY <4>1, SameProgress
      <3> QED BY <3>2, <3>3
    <2> QED BY <2>4, <2>5
  <1>8. ASSUME NEW p \in Proc, FlushFails(p) \/ FileFails(p) \/ Crash(p), NEW q \in Proc PROVE Progress(q)'
    <2>1. Exit(p, "failure") \/ Exit(p, "killed")
      BY <1>8 DEF FlushFails, FileFails, Crash
    <2> QED BY <2>1, ExitProgress
  <1> QED BY <1>1, <1>2, <1>3, <1>4, <1>5, <1>6, <1>7, <1>8 DEF Next

----------------------------------------------------------------------------
(* Invocations in turn.                                                    *)

LEMMA SameRows ==
    ASSUME NEW m \in Map, NEW n \in Map, Len(m) = Len(n), \A r \in 1 .. Len(m) : n[r] = m[r]
    PROVE  n = m
  BY DEF Map

LEMMA MoveOneEach ==
    ASSUME NEW m \in Map, NEW p \in Player, NEW d, NEW n, n = MovePlayer(m, p, d), n # << >>, OneEach(m)
    PROVE  OneEach(n)
  <1>1. PICK from, to : Moved(m, n, p, d, from, to)
    BY MoveFacts
  <1>2. FindPlayer(n, p) = {to}
    BY <1>1 DEF Moved, OneEach
  <1>3. \A x \in Player \ {p} : FindPlayer(n, x) = FindPlayer(m, x)
    BY <1>1 DEF Moved
  <1> QED BY <1>2, <1>3 DEF OneEach

\* While p runs alone nobody else has anything to show.
LEMMA OthersIdle ==
    ASSUME Types, Types', NEW p \in Proc, pc[p] # "idle", Alone,
           \A q \in Proc \ {p} : pc'[q] = pc[q]
    PROVE  /\ Alone' /\ \A q \in Proc \ {p} : pc[q] = "idle" /\ Played(q)'
           /\ Kept(p) /\ (\A q \in Proc \ {p} : status'[q] = status[q]) => \A q \in Proc \ {p} : Kept(q)'
  <1>1. \A q \in Proc \ {p} : pc[q] = "idle" /\ pc'[q] = "idle"
    BY DEF Alone
  <1>2. Alone'
    BY <1>1 DEF Alone
  <1>3. \A q \in Proc \ {p} : Played(q)'
    BY <1>1 DEF Played
  <1>4. Kept(p) /\ (\A q \in Proc \ {p} : status'[q] = status[q]) => \A q \in Proc \ {p} : Kept(q)'
    BY <1>1 DEF Kept
  <1> QED BY <1>1, <1>2, <1>3, <1>4

\* p ends and leaves the file alone, not in the middle of a save.
LEMMA ExitInTurn ==
    ASSUME Types, Types', NEW p \in Proc, NEW how \in {"success", "failure", "killed"}, Exit(p, how),
           pc[p] # "idle", file' = file, before' = before, overlapped' = overlapped,
           torn' = (torn \/ pc[p] = "write"), InTurn
    PROVE  InTurn'
  <1> SUFFICES ASSUME ~ overlapped
               PROVE  Alone' /\ (~ torn' => /\ \A q \in Proc : Kept(q)' /\ Played(q)'
                                            /\ OneEach(file'))
    BY DEF InTurn, OneEach
  <1>1. \A q \in Proc \ {p} : pc'[q] = pc[q] /\ status'[q] = status[q]
    BY ExitTypes
  <1>2. pc'[p] = "idle" /\ status'[p] = how
    BY ExitTypes
  <1>3. Alone
    BY DEF InTurn
  <1>4. Alone' /\ \A q \in Proc \ {p} : pc[q] = "idle" /\ Played(q)'
    BY <1>1, <1>3, OthersIdle
  <1>5. ASSUME ~ torn' PROVE (\A q \in Proc : Kept(q)' /\ Played(q)') /\ OneEach(file')
    <2>1. ~ torn /\ pc[p] \in {"read", "move", "open"}
      BY <1>5 DEF Types
    <2>2. Kept(p) /\ before[p] = file /\ OneEach(file)
      BY <2>1, <1>4 DEF InTurn, Kept
    <2>3. \A q \in Proc \ {p} : Kept(q)'
      BY <1>1, <1>3, <2>2, OthersIdle
    <2>4. Kept(p)' /\ Played(p)'
      BY <1>2, <2>2 DEF Kept, Played
    <2> QED BY <1>4, <2>2, <2>3, <2>4
  <1> QED BY <1>4, <1>5


\* What a save in turn has written is the beginning of the map, and all of it
\* after the last flush.
LEMMA Saved ==
    ASSUME Types, NEW p \in Proc, Progress(p), Played(p), Flush(p), NEW rows, rows = Rows(map[p], pos[p])
    PROVE  /\ Len(file') = pos[p] + Len(rows) /\ pos[p] + Len(rows) <= Len(map[p])
           /\ \A r \in 1 .. Len(file') : file'[r] = map[p][r]
           /\ pos[p] + Len(rows) = Len(map[p]) => file' = map[p]
  <1>1. pc[p] = "write" /\ file' = Overlay(file, pos[p], rows)
    BY DEF Flush
  <1>3. pos[p] \in Nat /\ pos[p] < Len(map[p]) /\ file \in Map /\ map[p] \in Map /\ Len(map[p]) \in Nat
    BY <1>1, CellIs DEF Types, Progress
  <1>4. /\ rows \in Map /\ Len(rows) \in Nat /\ pos[p] + Len(rows) <= Len(map[p])
        /\ \A i \in 1 .. Len(rows) : rows[i] = map[p][pos[p] + i]
    BY <1>3, RowsFacts, Bounds
  <1>5. OneEach(map[p]) /\ Len(file) = pos[p] /\ \A r \in 1 .. pos[p] : file[r] = map[p][r]
    BY <1>1 DEF Played, Begins
  <1>6. /\ file' \in Map
        /\ Len(file') = IF Len(file) >= pos[p] + Len(rows) THEN Len(file) ELSE pos[p] + Len(rows)
        /\ \A r \in 1 .. Len(file') :
              file'[r] = IF r \in pos[p] + 1 .. pos[p] + Len(rows) THEN rows[r - pos[p]]
                         ELSE IF r <= Len(file) THEN file[r] ELSE <<"NUL">>
    BY <1>1, <1>3, <1>4, OverlayFacts
  <1>7. Len(file') = pos[p] + Len(rows)
    BY <1>3, <1>4, <1>5, <1>6
  <1>8. \A r \in 1 .. Len(file') : file'[r] = map[p][r]
    <2> SUFFICES ASSUME NEW r \in 1 .. Len(file') PROVE file'[r] = map[p][r]
      OBVIOUS
    <2>1. CASE r <= pos[p]
      <3>1. r \in 1 .. pos[p] /\ r \notin pos[p] + 1 .. pos[p] + Len(rows) /\ r <= Len(file)
        BY <2>1, <1>3, <1>4, <1>5
      <3> QED BY <3>1, <1>5, <1>6
    <2>2. CASE ~ (r <= pos[p])
      <3>1. /\ r \in pos[p] + 1 .. pos[p] + Len(rows) /\ r - pos[p] \in 1 .. Len(rows)
            /\ pos[p] + (r - pos[p]) = r
        BY <2>2, <1>3, <1>4, <1>7
      <3> QED BY <3>1, <1>4, <1>6
    <2> QED BY <2>1, <2>2
  <1>9. pos[p] + Len(rows) = Len(map[p]) => file' = map[p]
    BY <1>3, <1>6, <1>7, <1>8, SameRows
  <1> QED BY <1>4, <1>7, <1>8, <1>9

LEMMA InTurnNext ==
    ASSUME Types, Types', \A p \in Proc : Progress(p), InTurn, [Next]_vars
    PROVE  InTurn'
  <1> DEFINE Goal == Alone' /\ (~ torn' => /\ \A q \in Proc : Kept(q)' /\ Played(q)'
                                           /\ (\A q \in Proc : pc'[q] # "write") => OneEach(file'))
  <1>1. CASE UNCHANGED vars
    <2>1. /\ file' = file /\ pc' = pc /\ args' = args /\ map' = map /\ pos' = pos /\ status' = status
          /\ before' = before /\ torn' = torn /\ overlapped' = overlapped
      BY <1>1 DEF vars, local, history
    <2>2. (Alone' <=> Alone) /\ \A q \in Proc : Kept(q)' <=> Kept(q)
      BY <2>1 DEF Alone, Kept
    <2>3. \A q \in Proc : Played(q)' <=> Played(q)
      BY <2>1 DEF Played, Begins, OneEach
    <2> QED BY <2>1, <2>2, <2>3 DEF InTurn, OneEach
  <1>2. ASSUME NEW p \in Proc, NEW who \in Player, NEW d \in Moves, Invoke(p, who, d) PROVE InTurn'
    <2> SUFFICES ASSUME ~ overlapped' PROVE Goal
      BY DEF InTurn, OneEach
    <2>1. ~ overlapped /\ \A q \in Proc : pc[q] = "idle"
      BY <1>2 DEF Invoke
    <2>2. pc'[p] = "read" /\ \A q \in Proc \ {p} : pc'[q] = "idle"
      BY <1>2, <2>1 DEF Types, Invoke
    <2>3. /\ \A q \in Proc : status'[q] = "none"
          /\ before'[p] = file /\ file' = file /\ map'[p] = << >> /\ pos'[p] = 0 /\ torn' = torn
      BY <1>2 DEF Invoke, Progress
    <2>4. Alone'
      BY <2>2 DEF Alone
    <2>5. \A q \in Proc : Kept(q)'
      BY <2>2, <2>3 DEF Kept
    <2>6. Begins(file', map'[p], pos'[p])
      BY <2>3, FilesAreMaps, CellIs DEF Begins, Types
    <2>7. \A q \in Proc : Played(q)'
      BY <2>2, <2>6 DEF Played
    <2>8. ~ torn => OneEach(file')
      BY <2>1, <2>3 DEF InTurn
    <2> QED BY <2>3, <2>4, <2>5, <2>7, <2>8
  <1>3. ASSUME NEW p \in Proc, Read(p) PROVE InTurn'
    <2> SUFFICES ASSUME ~ overlapped' PROVE Goal
      BY DEF InTurn, OneEach
    <2>1. /\ pc[p] = "read" /\ pc' = pc /\ status' = status /\ file' = file /\ before' = before
          /\ torn' = torn /\ ~ overlapped
      BY <1>3 DEF Read, history
    <2>2. Alone' /\ \A q \in Proc \ {p} : pc[q] = "idle" /\ Played(q)'
      BY <2>1, OthersIdle DEF InTurn
    <2>3. ASSUME ~ torn PROVE (\A q \in Proc : Kept(q)' /\ Played(q)') /\ OneEach(file')
      <3>1. Kept(p) /\ Played(p) /\ OneEach(file)
        BY <2>1, <2>2, <2>3 DEF InTurn
      <3>2. \A q \in Proc \ {p} : Kept(q)'
        BY <2>1, <3>1, OthersIdle DEF InTurn
      <3>3. Kept(p)'
        BY <3>1, <2>1 DEF Kept
      <3>4. PICK rows : rows = Rows(file, pos[p])
        OBVIOUS
      <3>5. pos[p] \in Nat /\ pos[p] < Len(file) /\ file \in Map /\ map[p] \in Map
        BY <1>3, CellIs DEF Types, Read, AtEnd
      <3>6. /\ rows \in Map /\ Len(rows) \in Nat /\ pos[p] + Len(rows) <= Len(file)
            /\ \A i \in 1 .. Len(rows) : rows[i] = file[pos[p] + i]
        BY <3>4, <3>5, RowsFacts, Bounds
      <3>7. map'[p] = map[p] \o rows /\ pos'[p] = pos[p] + Len(rows)
        BY <1>3, <3>4 DEF Types, Read
      <3>8. /\ Len(map'[p]) = Len(map[p]) + Len(rows)
            /\ \A i \in 1 .. Len(map'[p]) :
                  map'[p][i] = IF i <= Len(map[p]) THEN map[p][i] ELSE rows[i - Len(map[p])]
        BY <3>5, <3>6, <3>7, Appended
      <3>9. Len(map[p]) = pos[p] /\ \A r \in 1 .. pos[p] : map[p][r] = file[r]
        BY <3>1, <2>1 DEF Played, Begins
      <3>10. \A i \in 1 .. pos'[p] : map'[p][i] = file[i]
        <4> SUFFICES ASSUME NEW i \in 1 .. pos'[p] PROVE map'[p][i] = file[i]
          OBVIOUS
        <4>1. CASE i <= pos[p]
          BY <4>1, <3>5, <3>6, <3>7, <3>8, <3>9
        <4>2. CASE ~ (i <= pos[p])
          <5>1. i - pos[p] \in 1 .. Len(rows) /\ pos[p] + (i - pos[p]) = i
            BY <4>2, <3>5, <3>6, <3>7
          <5>2. map'[p][i] = rows[i - pos[p]]
            BY <4>2, <3>5, <3>6, <3>7, <3>8, <3>9
          <5> QED BY <5>1, <5>2, <3>6
        <4> QED BY <4>1, <4>2
      <3>11. Begins(file', map'[p], pos'[p])
        BY <2>1, <3>6, <3>7, <3>8, <3>9, <3>10 DEF Begins
      <3>12. Played(p)'
        BY <2>1, <3>11 DEF Played
      <3> QED BY <2>1, <2>2, <3>1, <3>2, <3>3, <3>12
    <2> QED BY <2>1, <2>2, <2>3
  <1>4. ASSUME NEW p \in Proc, Loaded(p) PROVE InTurn'
    <2>0. /\ pc[p] = "read" /\ AtEnd(p) /\ file' = file /\ before' = before
          /\ torn' = torn /\ overlapped' = overlapped
      BY <1>4 DEF Loaded, history
    <2>1. CASE Exit(p, "failure") \/ Exit(p, "success")
      BY <2>0, <2>1, ExitInTurn DEF Types
    <2>2. CASE /\ LoadMap(map[p]) /\ pc' = [pc EXCEPT ![p] = "move"]
               /\ UNCHANGED <<args, map, pos, status>>
      <3> SUFFICES ASSUME ~ overlapped PROVE Goal
        BY <2>0 DEF InTurn, OneEach
      <3>1. pc'[p] = "move" /\ \A q \in Proc \ {p} : pc'[q] = pc[q] /\ status'[q] = status[q]
        BY <2>2 DEF Types
      <3>2. Alone' /\ \A q \in Proc \ {p} : pc[q] = "idle" /\ Played(q)'
        BY <2>0, <3>1, OthersIdle DEF InTurn
      <3>3. ASSUME ~ torn PROVE (\A q \in Proc : Kept(q)' /\ Played(q)') /\ OneEach(file')
        <4>1. Kept(p) /\ Played(p) /\ OneEach(file)
          BY <2>0, <3>2, <3>3 DEF InTurn
        <4>2. \A q \in Proc \ {p} : Kept(q)'
          BY <2>0, <3>1, <4>1, OthersIdle DEF InTurn
        <4>3. Kept(p)'
          BY <4>1, <2>0, <2>2, <3>1 DEF Kept
        <4>4. /\ map[p] \in Map /\ file \in Map /\ Len(map[p]) \in Nat /\ Len(map[p]) <= MAX_ROWS
              /\ Len(file) \in Nat
          BY <2>2, LoadedRows, CellIs DEF Types
        <4>5. Len(map[p]) = pos[p] /\ pos[p] <= Len(file) /\ \A r \in 1 .. pos[p] : map[p][r] = file[r]
          BY <4>1, <2>0 DEF Played, Begins
        <4>6. pos[p] >= Len(file)
          BY <4>4, <2>0, Bounds DEF AtEnd
        <4>7. map[p] = file
          <5>1. Len(file) = Len(map[p]) /\ \A r \in 1 .. Len(file) : map[p][r] = file[r]
            BY <4>4, <4>5, <4>6
          <5> QED BY <5>1, <4>4, SameRows
        <4>8. Played(p)'
          BY <4>7, <2>0, <2>2, <3>1 DEF Played
        <4> QED BY <2>0, <3>2, <4>1, <4>2, <4>3, <4>8
      <3> QED BY <2>0, <3>2, <3>3
    <2> QED BY <1>4, <2>1, <2>2 DEF Loaded
  <1>5. ASSUME NEW p \in Proc, Move(p) PROVE InTurn'
    <2>0. /\ pc[p] = "move" /\ file' = file /\ before' = before
          /\ torn' = torn /\ overlapped' = overlapped
      BY <1>5 DEF Move, history
    <2>1. PICK m : m = MovePlayer(map[p], args[p].player, args[p].move)
      OBVIOUS
    <2>2. CASE m = << >>
      <3>1. Exit(p, "failure")
        BY <1>5, <2>1, <2>2 DEF Move
      <3> QED BY <2>0, <3>1, ExitInTurn DEF Types
    <2>3. CASE m # << >>
      <3> SUFFICES ASSUME ~ overlapped PROVE Goal
        BY <2>0 DEF InTurn, OneEach
      <3>0. /\ pc' = [pc EXCEPT ![p] = "open"] /\ map' = [map EXCEPT ![p] = m]
            /\ args' = args /\ status' = status
        BY <1>5, <2>1, <2>3 DEF Move
      <3>1. pc'[p] = "open" /\ \A q \in Proc \ {p} : pc'[q] = pc[q] /\ status'[q] = status[q]
        BY <3>0 DEF Types
      <3>2. Alone' /\ \A q \in Proc \ {p} : pc[q] = "idle" /\ Played(q)'
        BY <2>0, <3>1, OthersIdle DEF InTurn
      <3>3. ASSUME ~ torn PROVE (\A q \in Proc : Kept(q)' /\ Played(q)') /\ OneEach(file')
        <4>1. Kept(p) /\ Played(p) /\ OneEach(file)
          BY <2>0, <3>2, <3>3 DEF InTurn
        <4>2. \A q \in Proc \ {p} : Kept(q)'
          BY <2>0, <3>1, <4>1, OthersIdle DEF InTurn
        <4>3. Kept(p)'
          BY <4>1, <2>0, <3>0, <3>1 DEF Kept
        <4>4. map'[p] = MovePlayer(file', args'[p].player, args'[p].move)
          <5>1. map[p] = file
            BY <4>1, <2>0 DEF Played
          <5>2. map'[p] = m
            BY <3>0 DEF Types
          <5> QED BY <5>1, <5>2, <2>0, <2>1, <3>0
        <4>5. Played(p)'
          BY <4>4, <3>1 DEF Played
        <4> QED BY <2>0, <3>2, <4>1, <4>2, <4>3, <4>5
      <3> QED BY <2>0, <3>2, <3>3
    <2> QED BY <2>2, <2>3
  <1>6. ASSUME NEW p \in Proc, OpenForWriting(p) PROVE InTurn'
    <2> SUFFICES ASSUME ~ overlapped' PROVE Goal
      BY DEF InTurn, OneEach
    <2>0. /\ pc[p] = "open" /\ file' = << >> /\ before' = before /\ status' = status /\ map' = map
          /\ torn' = torn /\ ~ overlapped
      BY <1>6 DEF OpenForWriting, history
    <2>1. pc'[p] = "write" /\ pos'[p] = 0 /\ \A q \in Proc \ {p} : pc'[q] = pc[q] /\ status'[q] = status[q]
      BY <1>6 DEF Types, OpenForWriting
    <2>2. Alone' /\ \A q \in Proc \ {p} : pc[q] = "idle" /\ Played(q)'
      BY <2>0, <2>1, OthersIdle DEF InTurn
    <2>3. ASSUME ~ torn PROVE \A q \in Proc : Kept(q)' /\ Played(q)'
      <3>1. Kept(p) /\ Played(p) /\ OneEach(file)
        BY <2>0, <2>2, <2>3 DEF InTurn
      <3>2. \A q \in Proc \ {p} : Kept(q)'
        BY <2>0, <2>1, <3>1, OthersIdle DEF InTurn
      <3>3. Kept(p)'
        BY <3>1, <2>0, <2>1 DEF Kept
      <3>4. /\ file \in Map /\ args[p].player \in Player /\ map[p] \in Map /\ map[p] # << >>
            /\ map[p] = MovePlayer(file, args[p].player, args[p].move) /\ Len(map[p]) \in Nat
        <4>1. map[p] \in Map /\ LoadMap(map[p])
          BY <2>0 DEF Progress, Types
        <4>2. Len(map[p]) \in Nat /\ map[p] # << >>
          BY <4>1, LoadedRows, FilesAreMaps
        <4> QED BY <3>1, <2>0, <4>1, <4>2 DEF Types, Played
      <3>5. OneEach(map[p])
        BY <3>1, <3>4, MoveOneEach
      <3>6. Begins(map'[p], file', pos'[p])
        BY <2>0, <2>1, <3>4, FilesAreMaps DEF Begins
      <3>7. Played(p)'
        BY <2>0, <2>1, <3>5, <3>6 DEF Played, OneEach
      <3> QED BY <2>2, <3>2, <3>3, <3>7
    <2> QED BY <2>0, <2>1, <2>2, <2>3
  <1>7. ASSUME NEW p \in Proc, Flush(p) PROVE InTurn'
    <2> SUFFICES ASSUME ~ overlapped' PROVE Goal
      BY DEF InTurn, OneEach
    <2>0. PICK rows : rows = Rows(map[p], pos[p])
      OBVIOUS
    <2>1. /\ pc[p] = "write" /\ before' = before /\ torn' = torn /\ ~ overlapped
          /\ file' = Overlay(file, pos[p], rows)
          /\ IF pos[p] + Len(rows) = Len(map[p]) THEN Exit(p, "success")
             ELSE pos' = [pos EXCEPT ![p] = pos[p] + Len(rows)] /\ UNCHANGED <<pc, args, map, status>>
      BY <1>7, <2>0 DEF Flush, history
    <2>2. \A q \in Proc \ {p} : pc'[q] = pc[q] /\ status'[q] = status[q]
      BY <2>1, ExitTypes
    <2>3. Alone' /\ \A q \in Proc \ {p} : pc[q] = "idle" /\ Played(q)'
      BY <2>1, <2>2, OthersIdle DEF InTurn
    <2>4. ASSUME ~ torn
          PROVE  /\ \A q \in Proc : Kept(q)' /\ Played(q)'
                 /\ (\A q \in Proc : pc'[q] # "write") => OneEach(file')
      <3>1. Kept(p) /\ Played(p)
        BY <2>1, <2>3, <2>4 DEF InTurn
      <3>2. \A q \in Proc \ {p} : Kept(q)'
        BY <2>1, <2>2, <3>1, OthersIdle DEF InTurn
      <3>4. /\ Len(file') = pos[p] + Len(rows) /\ pos[p] + Len(rows) <= Len(map[p])
            /\ \A r \in 1 .. Len(file') : file'[r] = map[p][r]
            /\ pos[p] + Len(rows) = Len(map[p]) => file' = map[p]
        BY <1>7, <2>0, <3>1, Saved
      <3>5. OneEach(map[p])
        BY <3>1, <2>1 DEF Played
      <3>9. CASE pos[p] + Len(rows) = Len(map[p])
        <4>1. Exit(p, "success")
          BY <2>1, <3>9
        <4>2. pc'[p] = "idle" /\ status'[p] = "success"
          BY <4>1, ExitTypes
        <4>3. file' = map[p]
          BY <3>4, <3>9
        <4>4. Kept(p)' /\ Played(p)'
          BY <4>2 DEF Kept, Played
        <4> QED BY <2>3, <3>2, <3>5, <4>3, <4>4
      <3>10. CASE pos[p] + Len(rows) # Len(map[p])
        <4>1. /\ pos' = [pos EXCEPT ![p] = pos[p] + Len(rows)]
              /\ pc' = pc /\ map' = map /\ status' = status
          BY <2>1, <3>10
        <4>2. pc'[p] = "write" /\ pos'[p] = pos[p] + Len(rows) /\ map'[p] = map[p]
          BY <4>1, <2>1 DEF Types
        <4>3. Kept(p)'
          BY <4>1, <4>2, <3>1, <2>1 DEF Kept
        <4>4. Begins(map'[p], file', pos'[p])
          BY <4>2, <3>4 DEF Begins
        <4>5. Played(p)'
          BY <4>2, <4>4, <3>5 DEF Played, OneEach
        <4> QED BY <2>3, <3>2, <4>2, <4>3, <4>5
      <3> QED BY <3>9, <3>10
    <2> QED BY <2>1, <2>3, <2>4
  <1>8. ASSUME NEW p \in Proc, FlushFails(p) PROVE InTurn'
    <2> SUFFICES ASSUME ~ overlapped' PROVE Goal
      BY DEF InTurn, OneEach
    <2>1. pc[p] = "write" /\ torn' = TRUE /\ ~ overlapped /\ Exit(p, "failure")
      BY <1>8 DEF FlushFails
    <2>2. \A q \in Proc \ {p} : pc'[q] = pc[q]
      BY <2>1, ExitTypes
    <2> QED BY <2>1, <2>2, OthersIdle DEF InTurn
  <1>9. ASSUME NEW p \in Proc, FileFails(p) PROVE InTurn'
    <2>1. /\ pc[p] \in {"open", "read"} /\ Exit(p, "failure") /\ file' = file /\ before' = before
          /\ torn' = torn /\ overlapped' = overlapped
      BY <1>9 DEF FileFails, history
    <2> QED BY <2>1, ExitInTurn DEF Types
  <1>10. ASSUME NEW p \in Proc, Crash(p) PROVE InTurn'
    BY <1>10, ExitInTurn DEF Crash
  <1> QED BY <1>1, <1>2, <1>3, <1>4, <1>5, <1>6, <1>7, <1>8, <1>9, <1>10 DEF Next

----------------------------------------------------------------------------
(* Invocations at once.                                                    *)

LEMMA StartKept ==
    ASSUME [Next]_vars
    PROVE  start' = start
  BY DEF Next, vars, Invoke, Read, Loaded, Move, OpenForWriting, Flush, FlushFails, FileFails, Crash

LEMMA EmptyPiece ==
    ASSUME start \in Map
    PROVE  Piece(<< >>)
  BY FilesAreMaps, CellIs DEF Piece

LEMMA PieceMoved ==
    ASSUME start \in Map, NEW m \in Map, NEW n \in Map, SameWalls(m, n), Piece(m)
    PROVE  Piece(n) /\ Len(n) = Len(m)
  <1>1. Len(n) = Len(m) /\ \A r \in 1 .. Len(m) : SameRow(m[r], n[r])
    BY DEF SameWalls, SameShape, SameRow
  <1>2. \A r \in 1 .. Len(m) : SameRow(start[r], n[r])
    BY <1>1 DEF Piece, SameRow
  <1> QED BY <1>1, <1>2 DEF Piece

\* Pieces written at the beginning of a piece.
LEMMA PieceOverlay ==
    ASSUME start \in Map, NEW f \in Map, NEW rows \in Map, Piece(f), Piece(rows),
           NEW n, n = Overlay(f, 0, rows)
    PROVE  Piece(n) /\ (Len(f) <= Len(rows) => n = rows)
  <1>1. Len(f) \in Nat /\ Len(rows) \in Nat /\ Len(start) \in Nat
    BY CellIs
  <1>2. /\ n \in Map /\ Len(n) = IF Len(f) >= 0 + Len(rows) THEN Len(f) ELSE 0 + Len(rows)
        /\ \A r \in 1 .. Len(n) : n[r] = IF r \in 0 + 1 .. 0 + Len(rows) THEN rows[r - 0]
                                         ELSE IF r <= Len(f) THEN f[r] ELSE <<"NUL">>
    BY OverlayFacts
  <1>3. Len(n) <= Len(start)
    BY <1>1, <1>2 DEF Piece
  <1>4. \A r \in 1 .. Len(n) : IF r <= Len(rows) THEN r \in 1 .. Len(rows) /\ n[r] = rows[r]
                               ELSE r \in 1 .. Len(f) /\ n[r] = f[r]
    BY <1>1, <1>2
  <1>5. Piece(n)
    BY <1>3, <1>4 DEF Piece
  <1>6. ASSUME Len(f) <= Len(rows) PROVE n = rows
    <2>1. Len(n) = Len(rows) /\ \A r \in 1 .. Len(rows) : n[r] = rows[r]
      BY <1>1, <1>2, <1>4, <1>6
    <2> QED BY <2>1, <1>2, SameRows
  <1> QED BY <1>5, <1>6

\* What a process has read after a read.
LEMMA ReadFacts ==
    ASSUME Types, NEW p \in Proc, Progress(p), Read(p), NEW n, n = map'[p]
    PROVE  /\ pc[p] = "read" /\ map[p] \in Map /\ Len(map[p]) = pos[p] /\ pos[p] \in Nat
           /\ Len(file) \in Nat /\ pos[p] < Len(file)
           /\ n \in Map /\ Len(n) \in Nat /\ Len(n) <= Len(file)
           /\ Len(file) <= pos[p] + BUF => Len(n) = Len(file)
           /\ \A i \in 1 .. Len(n) : IF i <= pos[p] THEN n[i] = map[p][i] /\ i \in 1 .. Len(map[p])
                                      ELSE n[i] = file[i] /\ i \in 1 .. Len(file)
           /\ pc' = pc /\ file' = file /\ torn' = torn
           /\ \A q \in Proc \ {p} : map'[q] = map[q] /\ pos'[q] = pos[q]
  <1>1. /\ pos[p] \in Nat /\ pos[p] < Len(file) /\ file \in Map /\ map[p] \in Map /\ pc[p] = "read"
        /\ Len(map[p]) = pos[p] /\ Len(file) \in Nat
    BY CellIs DEF Types, Read, AtEnd, Progress
  <1>2. PICK rows : rows = Rows(file, pos[p])
    OBVIOUS
  <1>3. /\ rows \in Map /\ Len(rows) \in Nat /\ pos[p] + Len(rows) <= Len(file)
        /\ Len(file) <= pos[p] + BUF => pos[p] + Len(rows) = Len(file)
        /\ \A i \in 1 .. Len(rows) : rows[i] = file[pos[p] + i]
    <2>1. rows \in Map
      BY <1>1, <1>2, RowsFacts
    <2>2. Len(rows) \in Nat
      BY <2>1, CellIs
    <2> QED BY <1>1, <1>2, <2>2, RowsFacts
  <1>4. n = map[p] \o rows
    BY <1>2 DEF Types, Read
  <1>5. /\ n \in Map /\ Len(n) = pos[p] + Len(rows)
        /\ \A i \in 1 .. Len(n) : n[i] = IF i <= pos[p] THEN map[p][i] ELSE rows[i - pos[p]]
    <2>1. /\ n \in Map /\ Len(n) = Len(map[p]) + Len(rows)
          /\ \A i \in 1 .. Len(n) : n[i] = IF i <= Len(map[p]) THEN map[p][i] ELSE rows[i - Len(map[p])]
      <3>1. map[p] \in Map /\ rows \in Map
        BY <1>1, <1>3
      <3> QED BY <3>1, <1>4 DEF Map
    <2> QED BY <2>1, <1>1
  <1>6. /\ pc' = pc /\ file' = file /\ torn' = torn
        /\ \A q \in Proc \ {p} : map'[q] = map[q] /\ pos'[q] = pos[q]
    BY DEF Types, Read, history
  <1>8. \A i \in 1 .. Len(n) : IF i <= pos[p] THEN n[i] = map[p][i] /\ i \in 1 .. Len(map[p])
                               ELSE n[i] = file[i] /\ i \in 1 .. Len(file)
    <2> SUFFICES ASSUME NEW i \in 1 .. Len(n)
                 PROVE  IF i <= pos[p] THEN n[i] = map[p][i] /\ i \in 1 .. Len(map[p])
                        ELSE n[i] = file[i] /\ i \in 1 .. Len(file)
      OBVIOUS
    <2>1. CASE i <= pos[p]
      BY <2>1, <1>1, <1>3, <1>5
    <2>2. CASE ~ (i <= pos[p])
      <3>1. /\ i - pos[p] \in 1 .. Len(rows) /\ pos[p] + (i - pos[p]) = i
            /\ i \in 1 .. Len(file) /\ n[i] = rows[i - pos[p]]
        <4>1. i \in Int /\ i <= pos[p] + Len(rows) /\ pos[p] < i
          BY <2>2, <1>1, <1>3, <1>5
        <4>2. n[i] = rows[i - pos[p]]
          BY <2>2, <1>5
        <4>3. pos[p] \in Nat /\ Len(rows) \in Nat /\ Len(file) \in Nat /\ pos[p] + Len(rows) <= Len(file)
          BY <1>1, <1>3
        <4>4. i - pos[p] \in 1 .. Len(rows) /\ pos[p] + (i - pos[p]) = i /\ i \in 1 .. Len(file)
          BY <4>1, <4>3
        <4> QED BY <4>2, <4>4
      <3> QED BY <3>1, <2>2, <1>3
    <2> QED BY <2>1, <2>2
  <1>9. Len(n) \in Nat /\ Len(n) <= Len(file) /\ (Len(file) <= pos[p] + BUF => Len(n) = Len(file))
    BY <1>1, <1>3, <1>5
  <1> QED BY <1>1, <1>5, <1>6, <1>8, <1>9

LEMMA PiecePart ==
    ASSUME start \in Map, NEW m \in Map, Piece(m), NEW k \in 0 .. Len(m), NEW part, part = SubSeq(m, 1, k)
    PROVE  part \in Map /\ Piece(part)
  <1>1. part \in Map /\ Len(part) = k /\ \A i \in 1 .. k : part[i] = m[i]
    BY FirstRows
  <1>2. Len(m) \in Nat /\ Len(start) \in Nat
    BY CellIs
  <1>3. k <= Len(start) /\ \A i \in 1 .. k : i \in 1 .. Len(m)
    BY <1>2 DEF Piece
  <1> QED BY <1>1, <1>3 DEF Piece

\* The invariant of the next state, with the first map of this one.
NextPieces == Piece(file') /\ \A q \in Proc : Piece(map'[q]) /\ (pc'[q] = "write" => pos'[q] = 0)
NextWholes ==
    /\ Whole(file') \/ (file' = << >> /\ \E q \in Proc : pc'[q] = "write")
    /\ \A q \in Proc : /\ pc'[q] = "read" => map'[q] = << >> \/ Whole(map'[q])
                       /\ pc'[q] \in {"move", "open", "write"} => Whole(map'[q])

LEMMA ExitAtOnce ==
    ASSUME Types, NEW p \in Proc, NEW how \in {"success", "failure", "killed"}, Exit(p, how),
           \A q \in Proc : Progress(q), Pieces, Piece(file')
    PROVE  /\ NextPieces
           /\ Wholes /\ file' = file /\ pc[p] # "write" => NextWholes
           /\ Wholes /\ Whole(file') => NextWholes
  <1>1. /\ pc'[p] = "idle" /\ map'[p] = << >>
        /\ \A q \in Proc \ {p} : pc'[q] = pc[q] /\ map'[q] = map[q] /\ pos'[q] = pos[q]
    BY ExitTypes
  <1>2. Piece(<< >>)
    BY EmptyPiece, FilesAreMaps DEF Types
  <1>3. NextPieces
    BY <1>1, <1>2 DEF Pieces, NextPieces
  <1>4. ASSUME Wholes, NEW q \in Proc
        PROVE  /\ pc'[q] = "read" => map'[q] = << >> \/ Whole(map'[q])
               /\ pc'[q] \in {"move", "open", "write"} => Whole(map'[q])
    BY <1>1, <1>4 DEF Wholes
  <1>5. ASSUME Wholes, file' = file, pc[p] # "write"
        PROVE  Whole(file') \/ (file' = << >> /\ \E q \in Proc : pc'[q] = "write")
    BY <1>1, <1>5 DEF Wholes
  <1> QED BY <1>3, <1>4, <1>5 DEF NextWholes

LEMMA AtOnceNext ==
    ASSUME Types, Types', \A p \in Proc : Progress(p), AtOnce, [Next]_vars
    PROVE  AtOnce'
  <1>a. start' = start /\ start \in Map /\ Len(start) \in Nat
    BY StartKept, FilesAreMaps, CellIs DEF Types
  <1> DEFINE Goal == NextPieces /\ (~ torn' => NextWholes)
  <1> SUFFICES ASSUME LoadMap(start), Len(start) <= BUF, Pieces, ~ torn => Wholes PROVE Goal
    <2>1. (LoadMap(start))' <=> LoadMap(start)
      BY <1>a DEF LoadMap, WellFormed, IsConnected
    <2>2. NextPieces => Pieces'
      BY <1>a DEF NextPieces, Pieces, Piece, SameRow
    <2>3. NextWholes => Wholes'
      <3>1. (Whole(file))' <=> Whole(file')
        BY <1>a DEF Whole, OneEach, Piece, SameRow
      <3>2. ASSUME NEW q \in Proc PROVE (Whole(map[q]))' <=> Whole(map'[q])
        BY <1>a DEF Whole, OneEach, Piece, SameRow
      <3> QED BY <3>1, <3>2 DEF NextWholes, Wholes
    <2> QED BY <1>a, <2>1, <2>2, <2>3 DEF AtOnce
  <1>1. CASE UNCHANGED vars
    BY <1>1 DEF vars, local, history, Pieces, NextPieces, Wholes, NextWholes
  <1>2. ASSUME NEW p \in Proc, NEW who \in Player, NEW d \in Moves, Invoke(p, who, d) PROVE Goal
    <2>1. /\ file' = file /\ map' = map /\ pos' = pos /\ torn' = torn /\ map[p] = << >>
          /\ pc[p] = "idle" /\ pc'[p] = "read" /\ \A q \in Proc \ {p} : pc'[q] = pc[q]
      BY <1>2 DEF Invoke, Progress, Types
    <2>2. NextPieces
      BY <2>1 DEF Pieces, NextPieces
    <2>3. Wholes => NextWholes
      BY <2>1 DEF Wholes, NextWholes
    <2> QED BY <2>1, <2>2, <2>3
  <1>3. ASSUME NEW p \in Proc, Read(p) PROVE Goal
    <2> DEFINE n == map'[p]
    <2>1. /\ pc[p] = "read" /\ map[p] \in Map /\ Len(map[p]) = pos[p] /\ pos[p] \in Nat
          /\ Len(file) \in Nat /\ pos[p] < Len(file) /\ file \in Map
          /\ n \in Map /\ Len(n) \in Nat /\ Len(n) <= Len(file)
          /\ Len(file) <= pos[p] + BUF => Len(n) = Len(file)
      BY <1>3, ReadFacts DEF Types
    <2>6. /\ pc' = pc /\ file' = file /\ torn' = torn
          /\ \A q \in Proc \ {p} : map'[q] = map[q] /\ pos'[q] = pos[q]
      BY <1>3, ReadFacts
    <2>7. Piece(map[p]) /\ Piece(file)
      BY DEF Pieces
    <2>8. \A i \in 1 .. Len(n) : IF i <= pos[p] THEN n[i] = map[p][i] /\ i \in 1 .. Len(map[p])
                                 ELSE n[i] = file[i] /\ i \in 1 .. Len(file)
      BY <1>3, ReadFacts
    <2> HIDE DEF n
    <2>9. Piece(n)
      <3>1. Len(n) <= Len(start)
        BY <1>a, <2>1, <2>7 DEF Piece
      <3> QED BY <3>1, <2>7, <2>8 DEF Piece
    <2>10. NextPieces
      BY <2>1, <2>6, <2>7, <2>9 DEF Pieces, NextPieces, n
    <2>11. ASSUME Wholes PROVE NextWholes
      <3>1. map[p] = << >> \/ Whole(map[p])
        BY <2>1, <2>11 DEF Wholes
      <3>2. Len(file) <= Len(start)
        BY <2>7 DEF Piece
      <3>3. map[p] = << >> /\ pos[p] = 0
        BY <1>a, <2>1, <3>1, <3>2, FilesAreMaps DEF Whole
      <3>4. Whole(file)
        BY <2>1, <2>11, FilesAreMaps DEF Wholes
      <3>5. Len(n) = Len(file)
        <4>1. Len(file) <= pos[p] + BUF
          BY <1>a, <2>1, <3>2, <3>3, Bounds
        <4> QED BY <4>1, <2>1
      <3>6. \A i \in 1 .. Len(file) : n[i] = file[i]
        BY <2>1, <2>8, <3>3, <3>5
      <3>7. Whole(n)
        BY <3>4, <3>5, <3>6, <2>1, SameRows
      <3> QED BY <2>1, <2>6, <2>11, <3>7 DEF Wholes, NextWholes, n
    <2> QED BY <2>6, <2>10, <2>11
  <1>4. ASSUME NEW p \in Proc, Loaded(p) PROVE Goal
    <2>0. pc[p] = "read" /\ file' = file /\ torn' = torn /\ Piece(file')
      BY <1>4 DEF Loaded, history, Pieces
    <2>1. CASE Exit(p, "failure") \/ Exit(p, "success")
      BY <2>0, <2>1, ExitAtOnce
    <2>2. CASE /\ LoadMap(map[p]) /\ pc' = [pc EXCEPT ![p] = "move"]
               /\ UNCHANGED <<args, map, pos, status>>
      <3>1. pc'[p] = "move" /\ map' = map /\ pos' = pos /\ \A q \in Proc \ {p} : pc'[q] = pc[q]
        BY <2>2 DEF Types
      <3>2. map[p] # << >>
        BY <2>2, LoadedRows, FilesAreMaps DEF Types
      <3>3. NextPieces
        BY <2>0, <3>1 DEF Pieces, NextPieces
      <3>4. Wholes => NextWholes
        BY <2>0, <3>1, <3>2 DEF Wholes, NextWholes
      <3> QED BY <2>0, <3>3, <3>4
    <2> QED BY <1>4, <2>1, <2>2 DEF Loaded
  <1>5. ASSUME NEW p \in Proc, Move(p) PROVE Goal
    <2>0. pc[p] = "move" /\ file' = file /\ torn' = torn /\ Piece(file')
      BY <1>5 DEF Move, history, Pieces
    <2>1. PICK m : m = MovePlayer(map[p], args[p].player, args[p].move)
      OBVIOUS
    <2>2. CASE m = << >>
      <3>1. Exit(p, "failure")
        BY <1>5, <2>1, <2>2 DEF Move
      <3> QED BY <2>0, <3>1, ExitAtOnce
    <2>3. CASE m # << >>
      <3>1. map[p] \in Map /\ args[p].player \in Player /\ LoadMap(map[p])
        BY <2>0 DEF Types, Progress
      <3>2. m \in Map /\ SameWalls(map[p], m)
        BY <2>1, <2>3, <3>1, MoveKeeps
      <3>3. Piece(m) /\ Len(m) = Len(map[p])
        BY <1>a, <3>1, <3>2, PieceMoved DEF Pieces
      <3>4. Whole(map[p]) => Whole(m)
        BY <2>1, <2>3, <3>1, <3>3, MoveOneEach DEF Whole
      <3>5. /\ pc'[p] = "open" /\ map'[p] = m /\ pos' = pos
            /\ \A q \in Proc \ {p} : pc'[q] = pc[q] /\ map'[q] = map[q]
        BY <1>5, <2>1, <2>3 DEF Types, Move
      <3>6. NextPieces
        BY <2>0, <3>3, <3>5 DEF Pieces, NextPieces
      <3>7. Wholes => NextWholes
        BY <2>0, <3>4, <3>5 DEF Wholes, NextWholes
      <3> QED BY <2>0, <3>6, <3>7
    <2> QED BY <2>2, <2>3
  <1>6. ASSUME NEW p \in Proc, OpenForWriting(p) PROVE Goal
    <2>1. /\ pc[p] = "open" /\ file' = << >> /\ torn' = torn /\ map' = map
          /\ pc'[p] = "write" /\ pos'[p] = 0
          /\ \A q \in Proc \ {p} : pc'[q] = pc[q] /\ pos'[q] = pos[q]
      BY <1>6 DEF Types, OpenForWriting, history
    <2>2. NextPieces
      BY <1>a, <2>1, EmptyPiece DEF Pieces, NextPieces
    <2>3. Wholes => NextWholes
      BY <2>1 DEF Wholes, NextWholes
    <2> QED BY <2>1, <2>2, <2>3
  <1>7. ASSUME NEW p \in Proc, pc[p] = "write", NEW rows, rows = Rows(map[p], pos[p])
        PROVE  /\ pos[p] = 0 /\ map[p] \in Map /\ Piece(map[p])
               /\ rows = map[p]
    <2>1. pos[p] = 0 /\ map[p] \in Map /\ Piece(map[p]) /\ pos[p] < Len(map[p]) /\ Len(map[p]) \in Nat
      BY <1>7, CellIs DEF Pieces, Types, Progress
    <2>2. Len(map[p]) <= pos[p] + BUF
      BY <1>a, <2>1, Bounds DEF Piece
    <2>3. rows \in Map /\ pos[p] + Len(rows) = Len(map[p]) /\ \A i \in 1 .. Len(rows) : rows[i] = map[p][pos[p] + i]
      BY <1>7, <2>1, <2>2, RowsFacts
    <2>4. Len(rows) \in Nat
      BY <2>3, CellIs
    <2>5. Len(rows) = Len(map[p]) /\ \A i \in 1 .. Len(map[p]) : rows[i] = map[p][i]
      BY <2>1, <2>3, <2>4
    <2> QED BY <2>1, <2>3, <2>5, SameRows
  <1>8. ASSUME NEW p \in Proc, Flush(p) PROVE Goal
    <2>1. PICK rows : rows = Rows(map[p], pos[p])
      OBVIOUS
    <2>2. pc[p] = "write" /\ torn' = torn
      BY <1>8 DEF Flush, history
    <2>3. pos[p] = 0 /\ map[p] \in Map /\ Piece(map[p]) /\ rows = map[p] /\ Len(map[p]) \in Nat
      BY <2>1, <2>2, <1>7, CellIs
    <2>4. file' = Overlay(file, 0, map[p])
      BY <1>8, <2>1, <2>3 DEF Flush
    <2>5. pos[p] + Len(rows) = Len(map[p])
      BY <2>3
    <2>6. Exit(p, "success")
      BY <1>8, <2>1, <2>5 DEF Flush
    <2>7. Piece(file) /\ file \in Map
      BY DEF Pieces, Types
    <2>8. Piece(file') /\ (Len(file) <= Len(map[p]) => file' = map[p])
      BY <1>a, <2>3, <2>4, <2>7, PieceOverlay
    <2>9. Wholes => Whole(file')
      <3> SUFFICES ASSUME Wholes PROVE Whole(file')
        OBVIOUS
      <3>1. Whole(map[p])
        BY <2>2 DEF Wholes
      <3>2. Len(file) <= Len(map[p])
        BY <3>1, <2>7 DEF Whole, Piece
      <3> QED BY <3>1, <3>2, <2>8
    <2> QED BY <2>2, <2>6, <2>8, <2>9, ExitAtOnce
  <1>9. ASSUME NEW p \in Proc, FlushFails(p) PROVE Goal
    <2>1. PICK rows : rows = Rows(map[p], pos[p])
      OBVIOUS
    <2>2. pc[p] = "write" /\ torn' = TRUE /\ Exit(p, "failure")
      BY <1>9 DEF FlushFails
    <2>3. pos[p] = 0 /\ map[p] \in Map /\ Piece(map[p]) /\ rows = map[p] /\ Len(map[p]) \in Nat
      BY <2>1, <2>2, <1>7, CellIs
    <2>4. PICK k \in 0 .. Len(rows) - 1 :
             file' = IF k = 0 THEN file ELSE Overlay(file, pos[p], SubSeq(rows, 1, k))
      BY <1>9, <2>1 DEF FlushFails
    <2>5. PICK part : part = SubSeq(map[p], 1, k)
      OBVIOUS
    <2>6. k \in 0 .. Len(map[p])
      BY <2>3
    <2>7. part \in Map /\ Piece(part)
      BY <1>a, <2>3, <2>5, <2>6, PiecePart
    <2>8. Piece(file) /\ file \in Map
      BY DEF Pieces, Types
    <2>9. Piece(Overlay(file, 0, part))
      BY <1>a, <2>7, <2>8, PieceOverlay
    <2>10. file' = file \/ file' = Overlay(file, 0, part)
      BY <2>3, <2>4, <2>5
    <2>11. Piece(file')
      BY <2>8, <2>9, <2>10
    <2> QED BY <2>2, <2>11, ExitAtOnce
  <1>10. ASSUME NEW p \in Proc, FileFails(p) PROVE Goal
    <2>1. pc[p] # "write" /\ Exit(p, "failure") /\ file' = file /\ torn' = torn /\ Piece(file')
      BY <1>10 DEF FileFails, history, Pieces
    <2> QED BY <2>1, ExitAtOnce
  <1>11. ASSUME NEW p \in Proc, Crash(p) PROVE Goal
    <2>1. Exit(p, "killed") /\ file' = file /\ torn' = (torn \/ pc[p] = "write") /\ Piece(file')
      BY <1>11 DEF Crash, Pieces
    <2> QED BY <2>1, ExitAtOnce
  <1> QED BY <1>1, <1>2, <1>3, <1>4, <1>5, <1>6, <1>8, <1>9, <1>10, <1>11 DEF Next

----------------------------------------------------------------------------
(* Theorems.                                                               *)

LEMMA InvInit ==
    ASSUME Init
    PROVE  Inv
  <1>1. start \in Files /\ file = start /\ start \in Map /\ Len(start) \in Nat
    BY FilesAreMaps, CellIs DEF Init
  <1>2. \A p \in Proc : pc[p] = "idle" /\ map[p] = << >> /\ pos[p] = 0 /\ status[p] = "none"
    BY DEF Init
  <1>3. Types
    <2>1. args \in [Proc -> [player : Player, move : Moves \cup {"print"}]]
      BY NoArgsType DEF Init
    <2>2. map \in [Proc -> Map] /\ before \in [Proc -> Map] /\ pos \in [Proc -> Nat]
      BY FilesAreMaps DEF Init
    <2>3. runs \in 0 .. MaxRuns
      BY Bounds DEF Init
    <2>4. torn \in BOOLEAN /\ overlapped \in BOOLEAN
      BY DEF Init
    <2> QED BY <1>1, <2>1, <2>2, <2>3, <2>4 DEF Init, Types
  <1>4. \A p \in Proc : Progress(p)
    BY <1>2, Bounds DEF Progress
  <1>5. OneEach(file)
    BY <1>1, FilesAssumption, AtMostOne DEF OneEach
  <1>6. InTurn
    BY <1>2, <1>5 DEF InTurn, Alone, Kept, Played
  <1>7. Whole(file)
    BY <1>1, <1>5 DEF Whole, Piece, SameRow
  <1>8. AtOnce
    BY <1>1, <1>2, <1>7, EmptyPiece DEF AtOnce, Pieces, Wholes, Whole
  <1> QED BY <1>3, <1>4, <1>6, <1>8 DEF Inv

\* In all runs, whoever is started when, and whatever fails or is killed.
THEOREM Invariant == Spec => []Inv
  <1>1. Init => Inv
    BY InvInit
  <1>2. Inv /\ [Next]_vars => Inv'
    <2> SUFFICES ASSUME Inv, [Next]_vars PROVE Inv'
      OBVIOUS
    <2>1. Types /\ (\A p \in Proc : Progress(p)) /\ InTurn /\ AtOnce
      BY DEF Inv
    <2>2. Types'
      BY <2>1, TypesNext
    <2>3. \A q \in Proc : Progress(q)'
      BY <2>1, <2>2, ProgressNext
    <2>4. InTurn' /\ AtOnce'
      BY <2>1, <2>2, InTurnNext, AtOnceNext
    <2> QED BY <2>2, <2>3, <2>4 DEF Inv
  <1> QED BY <1>1, <1>2, PTL DEF Spec

\* Nothing is refused any more once saveMap has emptied the file: as long as nobody
\* else runs and no write fails, EXIT_FAILURE means that the file is as it was.
THEOREM FailureKeepsFileTheorem == Spec => []FailureKeepsFile
  <1>1. Inv => FailureKeepsFile
    BY DEF Inv, InTurn, Kept, FailureKeepsFile
  <1> QED BY <1>1, Invariant, PTL

LEMMA PieceCells ==
    ASSUME NEW m \in Map, start \in Map, Piece(m)
    PROVE  /\ Cells(m) \subseteq Cells(start) /\ Floor(m) = Floor(start) \cap Cells(m)
           /\ Len(m) = Len(start) => SameWalls(start, m)
  <1>1. Len(m) \in Nat /\ Len(start) \in Nat /\ Len(m) <= Len(start)
    BY CellIs DEF Piece
  <1>2. \A r \in 1 .. Len(m) :
           /\ r \in 1 .. Len(start) /\ Len(start[r]) = Len(m[r])
           /\ \A k \in 1 .. Len(m[r]) : /\ IsFloor(start[r][k]) = IsFloor(m[r][k])
                                        /\ start[r][k] = "#" <=> m[r][k] = "#"
    BY <1>1 DEF Piece, SameRow
  <1>3. ASSUME NEW c \in Cells(m) PROVE c \in Cells(start) /\ (c \in Floor(m) <=> c \in Floor(start))
    <2>1. PICK r, k : r \in 1 .. Len(m) /\ k \in 1 .. Len(m[r]) /\ c = <<r, k>>
      BY CellIs
    <2>2. r \in 1 .. Len(start) /\ k \in 1 .. Len(start[r]) /\ IsFloor(start[r][k]) = IsFloor(m[r][k])
      BY <2>1, <1>2
    <2>3. c \in Cells(start)
      BY <2>1, <2>2, CellIs
    <2>4. c \in Floor(m) <=> IsFloor(m[r][k])
      BY <2>1, FloorIs
    <2>5. c \in Floor(start) <=> IsFloor(start[r][k])
      BY <2>1, <2>2, FloorIs
    <2> QED BY <2>2, <2>3, <2>4, <2>5
  <1>4. Floor(m) \subseteq Cells(m)
    BY FloorIs
  <1>5. Len(m) = Len(start) => SameWalls(start, m)
    BY <1>2 DEF SameWalls, SameShape
  <1> QED BY <1>3, <1>4, <1>5

\* Whatever fails and whoever writes at once, the rows in the file are rows of the
\* first map, with its walls, when that fits in the buffer.
THEOREM RowsTrueTheorem == Spec => []RowsTrue
  <1>1. Inv => RowsTrue
    <2> SUFFICES ASSUME Inv, LoadMap(start), Len(start) <= BUF
                 PROVE  /\ Cells(file) \subseteq Cells(start)
                        /\ Floor(file) = Floor(start) \cap Cells(file)
      BY DEF RowsTrue
    <2>1. file \in Map /\ start \in Map /\ Piece(file)
      BY FilesAreMaps DEF Inv, Types, AtOnce, Pieces
    <2> QED BY <2>1, PieceCells
  <1> QED BY <1>1, Invariant, PTL

\* Whoever runs the program at once, the file holds a whole map that loadMap takes,
\* with the floor of the first one and every player at most once, or is being saved.
THEOREM FileValidTheorem == Spec => []FileValid
  <1>1. Inv => FileValid
    <2> SUFFICES ASSUME Inv PROVE FileValid
      OBVIOUS
    <2>1. Types /\ (\A p \in Proc : Progress(p)) /\ file \in Map /\ start \in Map
      BY FilesAreMaps DEF Inv, Types
    <2>2. TypeOK
      <3>1. pos \in [Proc -> 0 .. MAX_ROWS + BUF]
        BY <2>1, Bounds DEF Types, Progress
      <3>2. \A p \in Proc : pc[p] \in {"open", "write"} => WellFormed(map[p]) /\ IsConnected(map[p])
        BY <2>1 DEF Progress, LoadMap
      <3> QED BY <2>1, <3>1, <3>2 DEF Types, TypeOK
    <2>3. ASSUME LoadMap(start), Whole(file)
          PROVE  /\ LoadMap(file) /\ Cells(file) = Cells(start) /\ Floor(file) = Floor(start)
                 /\ \A x \in Player : Cardinality(FindPlayer(file, x)) <= 1
      <3>1. SameWalls(start, file)
        BY <2>1, <2>3, PieceCells DEF Whole
      <3>2. LoadMap(file) /\ Cells(file) = Cells(start) /\ Floor(file) = Floor(start)
        BY <2>1, <2>3, <3>1, SameFloor DEF LoadMap
      <3>3. \A x \in Player : Cardinality(FindPlayer(file, x)) <= 1
        BY <2>1, <2>3, AtMostOne DEF Whole, OneEach
      <3> QED BY <3>2, <3>3
    <2> QED BY <2>2, <2>3 DEF Inv, AtOnce, Wholes, FileValid
  <1> QED BY <1>1, Invariant, PTL

----------------------------------------------------------------------------
(* Invocations in turn play the game.                                      *)

intactBar == ~ torn /\ ~ overlapped
atBar == [x \in Player |-> FindPlayer(Board, x)]

LEMMA BoardIs ==
    ASSUME Alone
    PROVE  /\ (\A p \in Proc : pc[p] # "write") => Board = file
           /\ \A p \in Proc : pc[p] = "write" => Board = map[p]
  <1>1. ASSUME \A p \in Proc : pc[p] # "write" PROVE Board = file
    <2>1. {p \in Proc : pc[p] = "write"} = {}
      BY <1>1
    <2> QED BY <2>1 DEF Board
  <1>2. ASSUME NEW p \in Proc, pc[p] = "write" PROVE Board = map[p]
    <2>1. {q \in Proc : pc[q] = "write"} = {p}
      BY <1>2 DEF Alone
    <2>2. (CHOOSE q \in {p} : TRUE) = p
      OBVIOUS
    <2> QED BY <2>1, <2>2 DEF Board
  <1> QED BY <1>1, <1>2

\* The cells of a map that are empty, as the game sees them.
LEMMA EmptyCells ==
    ASSUME NEW m \in Map
    PROVE  FindFirstEmptySpace(m) = {c \in Floor(m) : \A p \in Player : c \notin FindPlayer(m, p)}
  <1>1. \A c \in Cells(m) : Ch(m, c) = "." <=> IsFloor(Ch(m, c)) /\ \A p \in Player : Ch(m, c) # p
    BY Characters DEF IsFloor
  <1> QED BY <1>1 DEF FindFirstEmptySpace, Floor, FindPlayer

\* What a move does to the map is a move of the game.
LEMMA MoveIsMove ==
    ASSUME NEW m \in Map, NEW p \in Player, NEW d, NEW n, n = MovePlayer(m, p, d), n # << >>, OneEach(m),
           intactBar, intactBar', Board = m, Board' = n
    PROVE  d \in Game!Directions /\ Game!Move(p, d)
  <1>1. PICK from, to : Moved(m, n, p, d, from, to)
    BY MoveFacts
  <1>2. d \in Game!Directions
    BY <1>1 DEF Moved, Directions, Game!Directions
  <1>3. Game!Empty = FindFirstEmptySpace(m)
    BY EmptyCells DEF Game!Empty
  <1>4. Game!Target(from, d) = to
    <2>1. to = <<from[1] + Step(d)[1], from[2] + Step(d)[2]>> /\ d \in Directions
      BY <1>1 DEF Moved
    <2>2. CASE d = "up"
      BY <2>1, <2>2 DEF Game!Target, Step
    <2>3. CASE d = "down"
      BY <2>1, <2>3 DEF Game!Target, Step
    <2>4. CASE d = "left"
      BY <2>1, <2>4 DEF Game!Target, Step
    <2>5. CASE d = "right"
      BY <2>1, <2>5 DEF Game!Target, Step
    <2> QED BY <2>1, <2>2, <2>3, <2>4, <2>5 DEF Directions
  <1>5. to \in Game!Empty
    BY <1>1, <1>3, FloorIs DEF Moved, FindFirstEmptySpace
  <1>6. IF FindPlayer(m, p) = {} THEN Game!IsFirst(from, Game!Empty) ELSE from \in FindPlayer(m, p)
    <2>1. ASSUME FindPlayer(m, p) = {} PROVE Game!IsFirst(from, Game!Empty)
      <3>1. from \in Game!Empty /\ from = FirstOf(Game!Empty)
        BY <1>1, <1>3, <2>1 DEF Moved
      <3>2. Game!Empty \in SUBSET (Nat \X Nat)
        BY <1>3, CellIs DEF FindFirstEmptySpace
      <3> QED BY <3>1, <3>2, FirstIs DEF Game!IsFirst
    <2>2. ASSUME FindPlayer(m, p) # {} PROVE from \in FindPlayer(m, p)
      BY <1>1, <2>2 DEF Moved
    <2> QED BY <2>1, <2>2
  <1>7. Floor(n) = Floor(m)
    BY <1>1, SameFloor DEF Moved
  <1>8. FindPlayer(n, p) = {to}
    BY <1>1 DEF Moved, OneEach
  <1>9. \A x \in Player \ {p} : FindPlayer(n, x) = FindPlayer(m, x)
    BY <1>1 DEF Moved
  <1>10. atBar' = [atBar EXCEPT ![p] = {to}]
    <2>1. atBar = [x \in Player |-> FindPlayer(m, x)]
      BY DEF atBar
    <2>2. atBar' = [x \in Player |-> FindPlayer(n, x)]
      BY DEF atBar
    <2> QED BY <2>1, <2>2, <1>8, <1>9
  <1>11. from \in Floor(m)
    BY <1>1 DEF Moved
  <1> QED BY <1>2, <1>4, <1>5, <1>6, <1>7, <1>10, <1>11 DEF Game!Move, atBar, intactBar

LEMMA GameInit ==
    ASSUME Init
    PROVE  Game!Init
  <1>1. file \in Map /\ ~ torn /\ ~ overlapped /\ \A p \in Proc : pc[p] = "idle"
    BY FilesAreMaps DEF Init
  <1>2. Board = file
    BY <1>1, BoardIs DEF Alone
  <1>3. Floor(Board) \subseteq Nat \X Nat
    BY <1>1, <1>2, CellIs, FloorIs
  <1>4. [x \in Player |-> FindPlayer(Board, x)] \in [Player -> SUBSET Floor(Board)]
    BY <1>1, <1>2, FloorIs
  <1>5. OneEach(Board)
    BY <1>1, <1>2, FilesAssumption, AtMostOne DEF Init, OneEach
  <1>6. \A x, y \in Player : x # y => FindPlayer(Board, x) \cap FindPlayer(Board, y) = {}
    BY DEF FindPlayer
  <1>7. \A x \in Player : atBar[x] = FindPlayer(Board, x)
    BY DEF atBar
  <1>8. \A x, y \in Player : \A c \in atBar[x], e \in atBar[y] : x = y <=> c = e
    BY <1>5, <1>6, <1>7 DEF OneEach
  <1>9. (~ torn /\ ~ overlapped) = TRUE
    BY <1>1
  <1> QED BY <1>3, <1>4, <1>8, <1>9 DEF Game!Init, atBar

\* The board stays as it is when nobody begins or ends to save.
LEMMA SameBoard ==
    ASSUME Alone, Alone', \A q \in Proc : pc[q] = "write" <=> pc'[q] = "write",
           file' = file, \A q \in Proc : pc[q] = "write" => map'[q] = map[q]
    PROVE  Board' = Board
  <1>1. CASE \A q \in Proc : pc[q] # "write"
    <2>1. Board = file
      BY <1>1, BoardIs
    <2>2. (\A q \in Proc : pc[q] # "write")'
      BY <1>1
    <2>3. {q \in Proc : pc'[q] = "write"} = {}
      BY <2>2
    <2>4. Board' = file'
      BY <2>3 DEF Board
    <2> QED BY <2>1, <2>4
  <1>2. ASSUME NEW q \in Proc, pc[q] = "write" PROVE Board' = Board
    <2>1. Board = map[q]
      BY <1>2, BoardIs
    <2>2. {x \in Proc : pc'[x] = "write"} = {q}
      BY <1>2 DEF Alone
    <2>3. (CHOOSE x \in {q} : TRUE) = q
      OBVIOUS
    <2>4. Board' = map'[q]
      BY <2>2, <2>3 DEF Board
    <2> QED BY <1>2, <2>1, <2>4
  <1> QED BY <1>1, <1>2

LEMMA GameStep ==
    ASSUME Inv, Inv', [Next]_vars
    PROVE  [Game!Next]_Game!vars
  <1>t. Types /\ Types' /\ torn \in BOOLEAN /\ overlapped \in BOOLEAN /\ torn' \in BOOLEAN /\ overlapped' \in BOOLEAN
    BY DEF Inv, Types
  <1>1. CASE torn' \/ overlapped'
    BY <1>1, <1>t DEF Game!Next, Game!Lose
  <1>2. CASE ~ torn' /\ ~ overlapped'
    <2>1. ~ torn /\ ~ overlapped
      BY <1>2, <1>t DEF Next, vars, history, Invoke, Read, Loaded, Move, OpenForWriting, Flush, FlushFails,
                        FileFails, Crash
    <2>2. Alone /\ Alone' /\ \A p \in Proc : Progress(p) /\ Played(p)
      BY <1>2, <2>1 DEF Inv, InTurn
    <2>3. Board' = Board => [Game!Next]_Game!vars
      BY <1>2, <2>1 DEF Game!vars
    <2>4. CASE UNCHANGED vars
      BY <2>2, <2>3, <2>4, SameBoard DEF vars, local
    <2>5. ASSUME NEW p \in Proc, NEW how \in {"success", "failure", "killed"}, Exit(p, how),
                 pc[p] # "write", file' = file
          PROVE  [Game!Next]_Game!vars
      <3>1. /\ \A q \in Proc : pc[q] = "write" <=> pc'[q] = "write"
            /\ \A q \in Proc : pc[q] = "write" => map'[q] = map[q]
        BY <1>t, <2>5, ExitTypes
      <3> QED BY <2>2, <2>3, <2>5, <3>1, SameBoard
    <2>6. ASSUME NEW p \in Proc, \/ \E who \in Player, d \in Moves : Invoke(p, who, d)
                                 \/ Read(p) \/ (Loaded(p) /\ UNCHANGED map)
                                 \/ (Move(p) /\ pc' = [pc EXCEPT ![p] = "open"] /\ \A q \in Proc \ {p} : map'[q] = map[q])
          PROVE  [Game!Next]_Game!vars
      <3>1. file' = file /\ pc[p] # "write" /\ pc'[p] # "write" /\ \A q \in Proc \ {p} : pc'[q] = pc[q] /\ map'[q] = map[q]
        <4>1. CASE \E who \in Player, d \in Moves : Invoke(p, who, d)
          BY <1>t, <4>1 DEF Types, Invoke
        <4>2. CASE Read(p)
          BY <1>t, <4>2 DEF Types, Read
        <4>3. CASE Loaded(p) /\ UNCHANGED map
          BY <1>t, <4>3 DEF Types, Loaded, Exit
        <4>4. CASE Move(p) /\ pc' = [pc EXCEPT ![p] = "open"] /\ \A q \in Proc \ {p} : map'[q] = map[q]
          BY <1>t, <4>4 DEF Types, Move
        <4> QED BY <2>6, <4>1, <4>2, <4>3, <4>4
      <3>2. /\ \A q \in Proc : pc[q] = "write" <=> pc'[q] = "write"
            /\ \A q \in Proc : pc[q] = "write" => map'[q] = map[q]
        BY <3>1
      <3> QED BY <2>2, <2>3, <3>1, <3>2, SameBoard
    <2>7. ASSUME NEW p \in Proc, Loaded(p) PROVE [Game!Next]_Game!vars
      <3>1. pc[p] = "read" /\ file' = file
        BY <2>7 DEF Loaded
      <3>2. CASE Exit(p, "failure") \/ Exit(p, "success")
        BY <3>1, <3>2, <2>5
      <3>3. CASE UNCHANGED map
        BY <2>6, <2>7, <3>3
      <3> QED BY <2>7, <3>2, <3>3 DEF Loaded
    <2>8. ASSUME NEW p \in Proc, Move(p) PROVE [Game!Next]_Game!vars
      <3>1. pc[p] = "move" /\ file' = file
        BY <2>8 DEF Move
      <3>2. CASE Exit(p, "failure")
        BY <3>1, <3>2, <2>5
      <3>3. CASE /\ pc' = [pc EXCEPT ![p] = "open"]
                 /\ map' = [map EXCEPT ![p] = MovePlayer(map[p], args[p].player, args[p].move)]
        <4>1. \A q \in Proc \ {p} : map'[q] = map[q]
          BY <1>t, <3>3 DEF Types
        <4> QED BY <2>6, <2>8, <3>3, <4>1
      <3> QED BY <2>8, <3>2, <3>3 DEF Move
    <2>9. ASSUME NEW p \in Proc, OpenForWriting(p) PROVE [Game!Next]_Game!vars
      <3>1. pc[p] = "open" /\ map' = map /\ pc'[p] = "write"
        BY <1>t, <2>9 DEF Types, OpenForWriting
      <3>2. \A q \in Proc : pc[q] # "write"
        BY <2>2, <3>1 DEF Alone
      <3>3. Board = file /\ OneEach(file)
        BY <2>1, <2>2, <3>2, BoardIs DEF Inv, InTurn
      <3>4. Board' = map[p]
        <4>1. {q \in Proc : pc'[q] = "write"} = {p}
          BY <2>2, <3>1 DEF Alone
        <4>2. (CHOOSE q \in {p} : TRUE) = p
          OBVIOUS
        <4> QED BY <3>1, <4>1, <4>2 DEF Board
      <3>5. /\ file \in Map /\ args[p].player \in Player /\ map[p] # << >>
            /\ map[p] = MovePlayer(file, args[p].player, args[p].move)
        <4>1. LoadMap(map[p]) /\ map[p] \in Map
          BY <1>t, <2>2, <3>1 DEF Progress, Types
        <4>2. map[p] # << >>
          BY <4>1, LoadedRows, FilesAreMaps
        <4> QED BY <1>t, <2>2, <3>1, <4>2 DEF Types, Played
      <3>6. intactBar /\ intactBar'
        BY <1>2, <2>1 DEF intactBar
      <3>7. PICK who, d : who = args[p].player /\ d = args[p].move
        OBVIOUS
      <3>8. who \in Player /\ map[p] = MovePlayer(file, who, d)
        BY <3>5, <3>7
      <3>9. PICK n : n = map[p]
        OBVIOUS
      <3>10. n = MovePlayer(file, who, d) /\ n # << >> /\ Board' = n
        BY <3>4, <3>5, <3>8, <3>9
      <3>11. d \in Game!Directions /\ Game!Move(who, d)
        BY <3>3, <3>5, <3>6, <3>8, <3>10, MoveIsMove
      <3> QED BY <3>8, <3>11 DEF Game!Next
    <2>10. ASSUME NEW p \in Proc, Flush(p) PROVE [Game!Next]_Game!vars
      <3>1. pc[p] = "write" /\ Board = map[p] /\ pos[p] \in Nat
        BY <1>t, <2>2, <2>10, BoardIs DEF Flush, Types
      <3>2. PICK rows : rows = Rows(map[p], pos[p])
        OBVIOUS
      <3>3. CASE pos[p] + Len(rows) = Len(map[p])
        <4>1. Exit(p, "success")
          BY <2>10, <3>2, <3>3 DEF Flush
        <4>2. pc'[p] = "idle" /\ \A q \in Proc \ {p} : pc[q] = "idle" /\ pc'[q] = pc[q]
          BY <1>t, <2>2, <3>1, <4>1, ExitTypes DEF Alone
        <4>3. {q \in Proc : pc'[q] = "write"} = {}
          BY <4>2
        <4>4. Board' = file'
          BY <4>3 DEF Board
        <4>5. file' = map[p]
          BY <1>t, <2>2, <2>10, <3>1, <3>2, <3>3, Saved
        <4> QED BY <2>3, <3>1, <4>4, <4>5
      <3>4. CASE pos[p] + Len(rows) # Len(map[p])
        <4>1. pc' = pc /\ map' = map
          BY <2>10, <3>2, <3>4 DEF Flush
        <4>2. {q \in Proc : pc'[q] = "write"} = {q \in Proc : pc[q] = "write"}
          BY <4>1
        <4>3. {q \in Proc : pc[q] = "write"} # {}
          BY <3>1
        <4>4. Board' = Board
          BY <4>1, <4>2, <4>3 DEF Board
        <4> QED BY <2>3, <4>4
      <3> QED BY <3>3, <3>4
    <2>11. ASSUME NEW p \in Proc, FlushFails(p) PROVE FALSE
      BY <1>2, <2>11 DEF FlushFails
    <2>12. ASSUME NEW p \in Proc, FileFails(p) PROVE [Game!Next]_Game!vars
      <3>1. pc[p] # "write" /\ file' = file /\ Exit(p, "failure")
        BY <2>12 DEF FileFails
      <3> QED BY <3>1, <2>5
    <2>13. ASSUME NEW p \in Proc, Crash(p) PROVE [Game!Next]_Game!vars
      <3>1. pc[p] # "write" /\ file' = file /\ Exit(p, "killed")
        BY <1>2, <2>13 DEF Crash
      <3> QED BY <3>1, <2>5
    <2> QED BY <2>4, <2>6, <2>7, <2>8, <2>9, <2>10, <2>11, <2>12, <2>13 DEF Next
  <1> QED BY <1>1, <1>2, <1>t

\* Invocations in turn play the game: a move takes effect wholly, when saveMap
\* opens the file, or not at all, and what one leaves in the file the next one reads.
THEOREM ImplementsGameTheorem == Spec => ImplementsGame
  <1>1. Init => Game!Init
    BY GameInit
  <1>2. Inv /\ Inv' /\ [Next]_vars => [Game!Next]_Game!vars
    BY GameStep
  <1> QED BY <1>1, <1>2, Invariant, PTL DEF Spec, ImplementsGame, Game!Spec

=============================================================================
