----------------------------- MODULE GptProofs -----------------------------
(***************************************************************************)
(* Proofs about the thread pool of m6 for any number of workers, tokens,   *)
(* layers, heads and channels.  The first part is about the data flow of   *)
(* the forward pass: the tensors and the units of the layers do not        *)
(* overlap and lie in the memory that is allocated, and a layer reads only *)
(* what layers before it have written.                                     *)
(***************************************************************************)
EXTENDS Gpt, FiniteSetTheorems, WellFoundedInduction, TLAPS

----------------------------------------------------------------------------
(* Numbers.                                                                *)

LEMMA LeastNumber ==
    ASSUME NEW S \in SUBSET Nat, S # {}
    PROVE  \E x \in S : \A y \in S : x <= y
  <1>1. \E R : IsWellFoundedOn(R, Nat) /\ \A x, y \in Nat : y < x => <<y, x>> \in R
    <2>1. \A x, y \in Nat : y < x => <<y, x>> \in OpToRel(<, Nat)
      BY DEF OpToRel
    <2> QED BY <2>1, NatLessThanWellFounded
  <1>2. PICK R : IsWellFoundedOn(R, Nat) /\ \A x, y \in Nat : y < x => <<y, x>> \in R
    BY <1>1
  <1>3. PICK x \in S : \A y \in S : <<y, x>> \notin R
    BY <1>2, WFMin
  <1>4. \A y \in S : ~ (y < x)
    BY <1>2, <1>3
  <1>5. \A y \in S : x <= y
    BY <1>4
  <1> QED BY <1>3, <1>5

LEMMA DivMod ==
    ASSUME NEW a \in Nat, NEW b \in Nat \ {0}
    PROVE  /\ a \div b \in Nat /\ a % b \in 0 .. b - 1
           /\ a = b * (a \div b) + (a % b)
  OBVIOUS

LEMMA TimesMono ==
    ASSUME NEW a \in Nat, NEW b \in Nat, a <= b, NEW c \in Nat
    PROVE  a * c \in Nat /\ a * c <= b * c
  OBVIOUS

\* Of two multiples one is behind the other by at least the factor.
LEMMA Apart ==
    ASSUME NEW a \in Nat, NEW b \in Nat, a < b, NEW c \in Nat
    PROVE  a * c \in Nat /\ a * c + c <= b * c
  <1>1. (a + 1) * c <= b * c
    BY TimesMono
  <1>2. (a + 1) * c = a * c + c /\ a * c \in Nat /\ b * c \in Nat
    OBVIOUS
  <1> QED BY <1>1, <1>2

\* Number u of row q lies in the rectangle.
LEMMA Within ==
    ASSUME NEW a \in Nat, NEW b \in Nat, a < b, NEW c \in Nat, NEW x \in 0 .. c - 1
    PROVE  a * c + x \in 0 .. b * c - 1
  <1>1. a * c \in Nat /\ a * c + c <= b * c /\ b * c \in Nat
    BY Apart
  <1> QED BY <1>1

\* A number below b * c has a row below b.
LEMMA RowBelow ==
    ASSUME NEW b \in Nat, NEW c \in Nat \ {0}, NEW u \in 0 .. b * c - 1
    PROVE  /\ u \div c \in 0 .. b - 1 /\ u % c \in 0 .. c - 1
           /\ (u \div c) * c + (u % c) = u
  <1>1. u \in Nat /\ b * c \in Nat
    OBVIOUS
  <1>2. /\ u \div c \in Nat /\ u % c \in 0 .. c - 1
        /\ u = c * (u \div c) + (u % c)
    BY <1>1, DivMod
  <1> DEFINE q == u \div c
  <1> HIDE DEF q
  <1>3. q \in Nat /\ u = q * c + (u % c) /\ q * c \in Nat
    BY <1>2 DEF q
  <1>4. q < b
    <2> SUFFICES ASSUME b <= q PROVE FALSE
      BY <1>3
    <2>1. b * c <= q * c
      BY <1>3, TimesMono
    <2> QED BY <2>1, <1>1, <1>2, <1>3
  <1> QED BY <1>2, <1>3, <1>4 DEF q

----------------------------------------------------------------------------
(* Tensors, one behind the other.                                          *)

\* The recursion of Ends has a solution, and Ends is it.
LEMMA EndsEquation ==
    ASSUME NEW s \in Seq(Nat)
    PROVE  Ends(s) = [i \in 0 .. Len(s) |-> IF i = 0 THEN 0 ELSE Ends(s)[i - 1] + s[i]]
  <1> DEFINE IsEnds(f, n) == f = [i \in 0 .. n |-> IF i = 0 THEN 0 ELSE f[i - 1] + s[i]]
  <1>1. Len(s) \in Nat
    OBVIOUS
  <1>2. \E f : IsEnds(f, Len(s))
    <2> DEFINE Bad == {n \in 0 .. Len(s) : ~ \E f : IsEnds(f, n)}
    <2> SUFFICES ASSUME Bad # {} PROVE FALSE
      BY <1>1
    <2>1. PICK n \in Bad : \A m \in Bad : n <= m
      <3>1. Bad \in SUBSET Nat
        OBVIOUS
      <3> HIDE DEF Bad
      <3> QED BY <3>1, LeastNumber
    <2>2. n # 0
      <3> SUFFICES ASSUME n = 0 PROVE FALSE
        OBVIOUS
      <3> DEFINE g == [i \in 0 .. 0 |-> 0]
      <3>1. IsEnds(g, 0)
        OBVIOUS
      <3> QED BY <3>1, <2>1
    <2>3. n - 1 \in 0 .. Len(s) /\ n - 1 \notin Bad
      <3>1. n \in 0 .. Len(s)
        OBVIOUS
      <3> HIDE DEF Bad
      <3> QED BY <3>1, <2>1, <2>2, <1>1
    <2>4. PICK f : IsEnds(f, n - 1)
      BY <2>3
    <2> DEFINE g == [i \in 0 .. n |-> IF i = n THEN f[n - 1] + s[n] ELSE f[i]]
    <2>5. \A i \in 0 .. n - 1 : g[i] = f[i] /\ f[i] = IF i = 0 THEN 0 ELSE f[i - 1] + s[i]
      BY <2>4, <2>1
    <2>6. \A i \in 0 .. n : g[i] = IF i = 0 THEN 0 ELSE g[i - 1] + s[i]
      <3>2. n \in Nat
        BY <2>1
      <3>3. g[n] = g[n - 1] + s[n]
        BY <2>2, <3>2
      <3>4. \A i \in 1 .. n - 1 : g[i - 1] = f[i - 1]
        BY <2>5, <3>2
      <3> HIDE DEF g
      <3>5. \A i \in 0 .. n - 1 : g[i] = IF i = 0 THEN 0 ELSE g[i - 1] + s[i]
        BY <2>5, <3>4, <3>2
      <3> QED BY <3>3, <3>5, <3>2, <2>2
    <2>7. IsEnds(g, n)
      BY <2>6
    <2> QED BY <2>7, <2>1
  <1>3. Ends(s) = CHOOSE f : IsEnds(f, Len(s))
    BY DEF Ends
  <1>4. IsEnds(Ends(s), Len(s))
    <2> HIDE DEF IsEnds
    <2> QED BY <1>2, <1>3
  <1> QED BY <1>4

LEMMA EndsFacts ==
    ASSUME NEW s \in Seq(Nat)
    PROVE  /\ \A i \in 0 .. Len(s) : Ends(s)[i] \in Nat
           /\ \A i \in 1 .. Len(s) : Ends(s)[i] = Ends(s)[i - 1] + s[i]
           /\ \A i, j \in 0 .. Len(s) : i <= j => Ends(s)[i] <= Ends(s)[j]
           /\ Ends(s)[0] = 0
  <1> DEFINE e == Ends(s)
  <1>1. Len(s) \in Nat /\ \A i \in 1 .. Len(s) : s[i] \in Nat
    OBVIOUS
  <1>2. e = [i \in 0 .. Len(s) |-> IF i = 0 THEN 0 ELSE e[i - 1] + s[i]]
    BY EndsEquation
  <1> HIDE DEF e
  <1>3. e[0] = 0 /\ \A i \in 1 .. Len(s) : e[i] = e[i - 1] + s[i]
    BY <1>1, <1>2
  <1>4. \A i \in 0 .. Len(s) : e[i] \in Nat
    <2> DEFINE Bad == {i \in 0 .. Len(s) : e[i] \notin Nat}
    <2> SUFFICES ASSUME Bad # {} PROVE FALSE
      OBVIOUS
    <2>1. Bad \in SUBSET Nat
      OBVIOUS
    <2>2. PICK n \in Bad : \A m \in Bad : n <= m
      <3> HIDE DEF Bad
      <3> QED BY <2>1, LeastNumber
    <2>3. n \in 0 .. Len(s) /\ e[n] \notin Nat /\ n # 0
      BY <1>3
    <2>4. n - 1 \in 0 .. Len(s) /\ n \in 1 .. Len(s)
      BY <2>3, <1>1
    <2>5. e[n - 1] \in Nat
      BY <2>2, <2>4
    <2>6. e[n] = e[n - 1] + s[n] /\ s[n] \in Nat
      BY <2>4, <1>1, <1>3
    <2> QED BY <2>3, <2>5, <2>6
  <1>5. ASSUME NEW i \in 0 .. Len(s)
        PROVE  \A j \in 0 .. Len(s) : i <= j => e[i] <= e[j]
    <2> DEFINE Bad == {j \in 0 .. Len(s) : i <= j /\ ~ (e[i] <= e[j])}
    <2> SUFFICES ASSUME Bad # {} PROVE FALSE
      OBVIOUS
    <2>1. Bad \in SUBSET Nat
      OBVIOUS
    <2>2. PICK n \in Bad : \A m \in Bad : n <= m
      <3> HIDE DEF Bad
      <3> QED BY <2>1, LeastNumber
    <2>3. n \in 0 .. Len(s) /\ i <= n /\ ~ (e[i] <= e[n]) /\ n # i
      BY <1>4
    <2>4. n - 1 \in 0 .. Len(s) /\ n \in 1 .. Len(s) /\ i <= n - 1
      BY <2>3, <1>1
    <2>5. e[i] <= e[n - 1]
      <3>1. n - 1 \notin Bad
        <4> HIDE DEF Bad
        <4> QED BY <2>2, <2>4, <2>3
      <3> QED BY <3>1, <2>4
    <2>6. e[n] = e[n - 1] + s[n] /\ e[n - 1] \in Nat /\ e[i] \in Nat /\ s[n] \in Nat
      BY <2>4, <1>1, <1>3, <1>4
    <2> QED BY <2>3, <2>5, <2>6
  <1> QED BY <1>3, <1>4, <1>5 DEF e

----------------------------------------------------------------------------
(* The kinds of layers.                                                    *)

\* A layer reads within R, writes within W and all of F, reads parameters within
\* P, and its units write different addresses.
Fits(layer, R, W, F, P) ==
    /\ \A u \in 0 .. layer.total - 1 :
          /\ layer.unit[u].reads \subseteq R
          /\ layer.unit[u].writes \subseteq W
          /\ layer.unit[u].params \subseteq P
    /\ \A u, v \in 0 .. layer.total - 1 :
          u # v => layer.unit[u].writes \cap layer.unit[v].writes = {}
    /\ \A a \in F : \E u \in 0 .. layer.total - 1 : a \in layer.unit[u].writes

\* Rows of the same length, one behind the other.
LEMMA RowsWithin ==
    ASSUME NEW a \in Nat, NEW n \in Nat, NEW c \in Nat
    PROVE  \A u \in 0 .. n - 1 : Run(a + u * c, c) \subseteq Run(a, n * c)
  <1> SUFFICES ASSUME NEW u \in 0 .. n - 1, NEW x \in Run(a + u * c, c)
               PROVE  x \in Run(a, n * c)
    OBVIOUS
  <1>1. u \in Nat /\ u < n
    OBVIOUS
  <1>2. u * c \in Nat /\ u * c + c <= n * c /\ n * c \in Nat
    BY <1>1, Apart
  <1> QED BY <1>2 DEF Run

LEMMA RowsApart ==
    ASSUME NEW a \in Nat, NEW n \in Nat, NEW c \in Nat
    PROVE  \A u, v \in 0 .. n - 1 : u # v => Run(a + u * c, c) \cap Run(a + v * c, c) = {}
  <1>1. ASSUME NEW u \in 0 .. n - 1, NEW v \in 0 .. n - 1, u < v
        PROVE  Run(a + u * c, c) \cap Run(a + v * c, c) = {}
    <2>1. u \in Nat /\ v \in Nat
      OBVIOUS
    <2>2. u * c \in Nat /\ u * c + c <= v * c /\ v * c \in Nat
      BY <2>1, <1>1, Apart
    <2> QED BY <2>2 DEF Run
  <1> SUFFICES ASSUME NEW u \in 0 .. n - 1, NEW v \in 0 .. n - 1, u # v
               PROVE  Run(a + u * c, c) \cap Run(a + v * c, c) = {}
    OBVIOUS
  <1>2. u < v \/ v < u
    OBVIOUS
  <1> QED BY <1>1, <1>2

LEMMA RowsCover ==
    ASSUME NEW a \in Nat, NEW n \in Nat, NEW c \in Nat \ {0}
    PROVE  \A x \in Run(a, n * c) : \E u \in 0 .. n - 1 : x \in Run(a + u * c, c)
  <1> SUFFICES ASSUME NEW x \in Run(a, n * c)
               PROVE  \E u \in 0 .. n - 1 : x \in Run(a + u * c, c)
    OBVIOUS
  <1> DEFINE d == x - a
  <1>1. d \in 0 .. n * c - 1 /\ x = a + d
    BY DEF Run
  <1> HIDE DEF d
  <1>2. PICK u \in 0 .. n - 1, r \in 0 .. c - 1 : u * c + r = d
    <2>1. d \div c \in 0 .. n - 1 /\ d % c \in 0 .. c - 1 /\ (d \div c) * c + (d % c) = d
      BY <1>1, RowBelow
    <2> QED BY <2>1
  <1>3. u * c \in Nat
    OBVIOUS
  <1>4. x \in Run(a + u * c, c)
    BY <1>1, <1>2, <1>3 DEF Run
  <1> QED BY <1>4

LEMMA EncoderFits ==
    ASSUME NEW T \in Nat, NEW out \in Nat, Param.wpe \in Nat
    PROVE  Fits(Encoder(T, out), {}, Run(out, T * C), Run(out, T * C), Run(Param.wpe, T * C))
  <1>1. C \in Nat \ {0}
    BY ForwardAssumption
  <1> DEFINE y == Encoder(T, out)
  <1>2. /\ y.total = T
        /\ \A u \in 0 .. T - 1 :
              /\ y.unit[u].reads = {} /\ y.unit[u].writes = Run(out + u * C, C)
              /\ y.unit[u].params = Run(Param.wpe + u * C, C)
    BY DEF Encoder, Layer
  <1> HIDE DEF y
  <1>3. \A u \in 0 .. T - 1 : Run(out + u * C, C) \subseteq Run(out, T * C)
                              /\ Run(Param.wpe + u * C, C) \subseteq Run(Param.wpe, T * C)
    BY <1>1, RowsWithin
  <1>4. \A u, v \in 0 .. T - 1 : u # v => Run(out + u * C, C) \cap Run(out + v * C, C) = {}
    BY <1>1, RowsApart
  <1>5. \A x \in Run(out, T * C) : \E u \in 0 .. T - 1 : x \in Run(out + u * C, C)
    BY <1>1, RowsCover
  <1>6. Fits(y, {}, Run(out, T * C), Run(out, T * C), Run(Param.wpe, T * C))
    BY <1>2, <1>3, <1>4, <1>5 DEF Fits
  <1> QED BY <1>6 DEF y

LEMMA LayernormFits ==
    ASSUME NEW T \in Nat, NEW out \in Nat, NEW mean \in Nat, NEW rstd \in Nat, NEW inp \in Nat,
           NEW w \in Nat, NEW b \in Nat,
           Run(out, T * C) \cap Run(mean, T) = {}, Run(out, T * C) \cap Run(rstd, T) = {},
           Run(mean, T) \cap Run(rstd, T) = {}
    PROVE  Fits(Layernorm(T, out, mean, rstd, inp, w, b), Run(inp, T * C),
                Run(out, T * C) \cup Run(mean, T) \cup Run(rstd, T), Run(out, T * C),
                Run(w, C) \cup Run(b, C))
  <1>1. C \in Nat \ {0}
    BY ForwardAssumption
  <1> DEFINE y == Layernorm(T, out, mean, rstd, inp, w, b)
  <1> DEFINE O(u) == Run(out + u * C, C)
  <1> DEFINE All == Run(out, T * C)
  <1> DEFINE Wr(u) == O(u) \cup {mean + u, rstd + u}
  <1>2. /\ y.total = T
        /\ \A u \in 0 .. T - 1 :
              /\ y.unit[u].reads = Run(inp + u * C, C) /\ y.unit[u].writes = Wr(u)
              /\ y.unit[u].params = Run(w, C) \cup Run(b, C)
    BY DEF Layernorm, Layer
  <1> HIDE DEF y
  <1>3. \A u \in 0 .. T - 1 : O(u) \subseteq All /\ Run(inp + u * C, C) \subseteq Run(inp, T * C)
    BY <1>1, RowsWithin
  <1>4. \A u, v \in 0 .. T - 1 : u # v => O(u) \cap O(v) = {}
    BY <1>1, RowsApart
  <1>5. \A x \in All : \E u \in 0 .. T - 1 : x \in O(u)
    BY <1>1, RowsCover
  <1>6. \A u \in 0 .. T - 1 : mean + u \in Run(mean, T) /\ rstd + u \in Run(rstd, T)
    BY DEF Run
  <1>7. \A u, v \in 0 .. T - 1 : u # v => mean + u # mean + v /\ rstd + u # rstd + v
    OBVIOUS
  <1> HIDE DEF O, All
  <1>8. \A u \in 0 .. T - 1 : Wr(u) \subseteq All \cup Run(mean, T) \cup Run(rstd, T)
    BY <1>3, <1>6
  <1>9. ASSUME NEW u \in 0 .. T - 1, NEW v \in 0 .. T - 1, u # v
        PROVE  Wr(u) \cap Wr(v) = {}
    <2>1. O(u) \cap O(v) = {} /\ mean + u # mean + v /\ rstd + u # rstd + v
      BY <1>4, <1>7, <1>9
    <2>2. /\ O(u) \subseteq All /\ O(v) \subseteq All /\ mean + u \in Run(mean, T)
          /\ mean + v \in Run(mean, T) /\ rstd + u \in Run(rstd, T) /\ rstd + v \in Run(rstd, T)
      BY <1>3, <1>6
    <2>3. All \cap Run(mean, T) = {} /\ All \cap Run(rstd, T) = {}
      BY DEF All
    <2> QED BY <2>1, <2>2, <2>3
  <1>10. \A x \in All : \E u \in 0 .. T - 1 : x \in Wr(u)
    BY <1>5
  <1> HIDE DEF Wr
  <1>11. Fits(y, Run(inp, T * C), All \cup Run(mean, T) \cup Run(rstd, T), All,
              Run(w, C) \cup Run(b, C))
    BY <1>2, <1>3, <1>8, <1>9, <1>10 DEF Fits
  <1> QED BY <1>11 DEF y, All

LEMMA MatmulFits ==
    ASSUME NEW T \in Nat, NEW out \in Nat, NEW inp \in Nat, NEW w \in Nat,
           NEW bias \in SUBSET Nat, NEW IC \in Nat \ {0}, NEW OC \in Nat \ {0}, NEW P,
           Run(w, OC * IC) \subseteq P, \A b \in bias : Run(b, OC) \subseteq P
    PROVE  Fits(Matmul(T, out, inp, w, bias, IC, OC), Run(inp, T * IC),
                Run(out, T * OC), Run(out, T * OC), P)
  <1> DEFINE y == Matmul(T, out, inp, w, bias, IC, OC)
  <1> DEFINE All == T * OC
  <1>1. All \in Nat
    OBVIOUS
  <1>2. /\ y.total = All
        /\ \A u \in 0 .. All - 1 :
              /\ y.unit[u].reads = Run(inp + (u \div OC) * IC, IC)
              /\ y.unit[u].writes = {out + (u \div OC) * OC + (u % OC)}
              /\ y.unit[u].params = Run(w + (u % OC) * IC, IC) \cup {b + (u % OC) : b \in bias}
    BY DEF Matmul, Layer
  <1> HIDE DEF y
  <1>3. \A u \in 0 .. All - 1 : /\ u \div OC \in 0 .. T - 1 /\ u % OC \in 0 .. OC - 1
                                /\ (u \div OC) * OC + (u % OC) = u
    BY RowBelow
  <1> HIDE DEF All
  <1>4. \A u \in 0 .. All - 1 : out + (u \div OC) * OC + (u % OC) = out + u
    <2> SUFFICES ASSUME NEW u \in 0 .. All - 1 
                 PROVE  out + (u \div OC) * OC + (u % OC) = out + u
      OBVIOUS
    <2> DEFINE q == (u \div OC) * OC
    <2> DEFINE r == u % OC
    <2>1. u \div OC \in Nat
      BY <1>3
    <2>2. q \in Int /\ r \in Int /\ q + r = u
      BY <1>3, <2>1
    <2> HIDE DEF q, r
    <2>3. out + q + r = out + u
      BY <2>2
    <2> QED BY <2>3 DEF q, r
  <1>5. \A u \in 0 .. All - 1 : y.unit[u].writes = {out + u}
    BY <1>2, <1>4
  <1>6. \A u \in 0 .. All - 1 : y.unit[u].reads \subseteq Run(inp, T * IC)
    <2>1. \A q \in 0 .. T - 1 : Run(inp + q * IC, IC) \subseteq Run(inp, T * IC)
      BY RowsWithin
    <2> SUFFICES ASSUME NEW u \in 0 .. All - 1, NEW q \in 0 .. T - 1, q = u \div OC
                 PROVE  y.unit[u].reads \subseteq Run(inp, T * IC)
      BY <1>3
    <2>2. y.unit[u].reads = Run(inp + q * IC, IC)
      BY <1>2
    <2> QED BY <2>1, <2>2
  <1>7. \A u \in 0 .. All - 1 : y.unit[u].params \subseteq P
    <2>1. \A r \in 0 .. OC - 1 : Run(w + r * IC, IC) \subseteq Run(w, OC * IC)
      BY RowsWithin
    <2>2. \A r \in 0 .. OC - 1, b \in bias : b + r \in Run(b, OC)
      BY DEF Run
    <2> SUFFICES ASSUME NEW u \in 0 .. All - 1, NEW r \in 0 .. OC - 1, r = u % OC
                 PROVE  y.unit[u].params \subseteq P
      BY <1>3
    <2>3. y.unit[u].params = Run(w + r * IC, IC) \cup {b + r : b \in bias}
      BY <1>2
    <2>4. \A b \in bias : b + r \in P
      BY <2>2
    <2> QED BY <2>1, <2>3, <2>4
  <1>8. \A x \in Run(out, All) : \E u \in 0 .. All - 1 : x = out + u
    <2> SUFFICES ASSUME NEW x \in Run(out, All) PROVE x - out \in 0 .. All - 1 /\ x = out + (x - out)
      OBVIOUS
    <2> QED BY <1>1 DEF Run
  <1>9. \A u \in 0 .. All - 1 : out + u \in Run(out, All)
    BY <1>1 DEF Run
  <1>10. \A u, v \in 0 .. All - 1 : u # v => out + u # out + v
    BY <1>1
  <1>11. Fits(y, Run(inp, T * IC), Run(out, All), Run(out, All), P)
    BY <1>2, <1>5, <1>6, <1>7, <1>8, <1>9, <1>10 DEF Fits
  <1> QED BY <1>11 DEF y, All

LEMMA GeluFits ==
    ASSUME NEW out \in Nat, NEW inp \in Nat, NEW N \in Nat
    PROVE  Fits(Gelu(out, inp, N), Run(inp, N), Run(out, N), Run(out, N), {})
  <1> DEFINE y == Gelu(out, inp, N)
  <1>1. /\ y.total = N
        /\ \A u \in 0 .. N - 1 : /\ y.unit[u].reads = {inp + u} /\ y.unit[u].writes = {out + u}
                                 /\ y.unit[u].params = {}
    BY DEF Gelu, Layer
  <1> HIDE DEF y
  <1>2. \A u \in 0 .. N - 1 : inp + u \in Run(inp, N) /\ out + u \in Run(out, N)
    BY DEF Run
  <1>3. \A u, v \in 0 .. N - 1 : u # v => out + u # out + v
    OBVIOUS
  <1>4. \A x \in Run(out, N) : \E u \in 0 .. N - 1 : x = out + u
    <2> SUFFICES ASSUME NEW x \in Run(out, N) PROVE x - out \in 0 .. N - 1 /\ x = out + (x - out)
      OBVIOUS
    <2> QED BY DEF Run
  <1>5. \A u \in 0 .. N - 1 : /\ y.unit[u].reads \subseteq Run(inp, N)
                              /\ y.unit[u].writes \subseteq Run(out, N)
                              /\ y.unit[u].params \subseteq {}
    BY <1>1, <1>2
  <1>6. \A u, v \in 0 .. N - 1 : u # v => y.unit[u].writes \cap y.unit[v].writes = {}
    BY <1>1, <1>3
  <1>7. \A x \in Run(out, N) : \E u \in 0 .. N - 1 : x \in y.unit[u].writes
    BY <1>1, <1>4
  <1>8. Fits(y, Run(inp, N), Run(out, N), Run(out, N), {})
    BY <1>1, <1>5, <1>6, <1>7 DEF Fits
  <1> QED BY <1>8 DEF y

LEMMA ResidualFits ==
    ASSUME NEW out \in Nat, NEW inp1 \in Nat, NEW inp2 \in Nat, NEW N \in Nat
    PROVE  Fits(Residual(out, inp1, inp2, N), Run(inp1, N) \cup Run(inp2, N),
                Run(out, N), Run(out, N), {})
  <1> DEFINE y == Residual(out, inp1, inp2, N)
  <1>1. /\ y.total = N
        /\ \A u \in 0 .. N - 1 :
              /\ y.unit[u].reads = {inp1 + u, inp2 + u} /\ y.unit[u].writes = {out + u}
              /\ y.unit[u].params = {}
    BY DEF Residual, Layer
  <1> HIDE DEF y
  <1>2. \A u \in 0 .. N - 1 : /\ inp1 + u \in Run(inp1, N) /\ inp2 + u \in Run(inp2, N)
                              /\ out + u \in Run(out, N)
    BY DEF Run
  <1>3. \A u, v \in 0 .. N - 1 : u # v => out + u # out + v
    OBVIOUS
  <1>4. \A x \in Run(out, N) : \E u \in 0 .. N - 1 : x = out + u
    <2> SUFFICES ASSUME NEW x \in Run(out, N) PROVE x - out \in 0 .. N - 1 /\ x = out + (x - out)
      OBVIOUS
    <2> QED BY DEF Run
  <1>5. Fits(y, Run(inp1, N) \cup Run(inp2, N), Run(out, N), Run(out, N), {})
    BY <1>1, <1>2, <1>3, <1>4 DEF Fits
  <1> QED BY <1>5 DEF y

LEMMA SoftmaxFits ==
    ASSUME NEW T \in Nat, NEW probs \in Nat, NEW logits \in Nat
    PROVE  Fits(Softmax(T, probs, logits), Run(logits, T * V), Run(probs, T * V),
                Run(probs, T * V), {})
  <1>1. V \in Nat \ {0}
    BY ForwardAssumption
  <1> DEFINE y == Softmax(T, probs, logits)
  <1>2. /\ y.total = T
        /\ \A u \in 0 .. T - 1 :
              /\ y.unit[u].reads = Run(logits + u * V, V)
              /\ y.unit[u].writes = Run(probs + u * V, V)
              /\ y.unit[u].params = {}
    BY DEF Softmax, Layer
  <1> HIDE DEF y
  <1>3. \A u \in 0 .. T - 1 : Run(logits + u * V, V) \subseteq Run(logits, T * V)
                              /\ Run(probs + u * V, V) \subseteq Run(probs, T * V)
    BY <1>1, RowsWithin
  <1>4. \A u, v \in 0 .. T - 1 : u # v => Run(probs + u * V, V) \cap Run(probs + v * V, V) = {}
    BY <1>1, RowsApart
  <1>5. \A x \in Run(probs, T * V) : \E u \in 0 .. T - 1 : x \in Run(probs + u * V, V)
    BY <1>1, RowsCover
  <1>6. Fits(y, Run(logits, T * V), Run(probs, T * V), Run(probs, T * V), {})
    BY <1>2, <1>3, <1>4, <1>5 DEF Fits
  <1> QED BY <1>6 DEF y

\* Position and head of a unit of the attention layer are the digits of its number;
\* a row of scores belongs to one of them, and so does a piece of the output.
LEMMA AttentionFits ==
    ASSUME NEW T \in Nat \ {0}, NEW out \in Nat, NEW preatt \in Nat, NEW att \in Nat, NEW inp \in Nat,
           Run(preatt, NH * T * T) \cap Run(att, NH * T * T) = {},
           Run(preatt, NH * T * T) \cap Run(out, T * C) = {},
           Run(att, NH * T * T) \cap Run(out, T * C) = {}
    PROVE  Fits(Attention(T, out, preatt, att, inp), Run(inp, T * 3 * C),
                Run(preatt, NH * T * T) \cup Run(att, NH * T * T) \cup Run(out, T * C),
                Run(out, T * C), {})
  <1> DEFINE hs == C \div NH
  <1>1. C \in Nat \ {0} /\ NH \in Nat \ {0} /\ hs \in Nat \ {0} /\ C = NH * hs
    <2>1. C \in Nat \ {0} /\ NH \in Nat \ {0} /\ C % NH = 0
      BY ForwardAssumption
    <2>2. hs \in Nat /\ C = NH * hs + (C % NH)
      BY <2>1, DivMod
    <2>3. C = NH * hs
      BY <2>1, <2>2
    <2> QED BY <2>1, <2>2, <2>3
  <1> HIDE DEF hs
  <1> DEFINE y == Attention(T, out, preatt, att, inp)
  <1> DEFINE N == T * NH
  <1> DEFINE pos(u) == u \div NH
  <1> DEFINE head(u) == u % NH
  <1> DEFINE row(u) == head(u) * T * T + pos(u) * T
  <1> DEFINE Rd(u) == Run(inp + pos(u) * (C * 3) + head(u) * hs, hs)
                       \cup UNION {Run(inp + t2 * (C * 3) + head(u) * hs + k * C, hs) :
                                      t2 \in 0 .. pos(u), k \in {1, 2}}
  <1> DEFINE Wr(u) == Run(preatt + row(u), pos(u) + 1) \cup Run(att + row(u), T)
                       \cup Run(out + pos(u) * C + head(u) * hs, hs)
  <1>2. /\ y.total = N
        /\ \A u \in 0 .. N - 1 : /\ y.unit[u].reads = Rd(u) /\ y.unit[u].writes = Wr(u)
                                 /\ y.unit[u].params = {}
    BY DEF Attention, Layer, hs
  <1> HIDE DEF y
  <1>3. \A u \in 0 .. N - 1 : /\ pos(u) \in 0 .. T - 1 /\ head(u) \in 0 .. NH - 1
                              /\ pos(u) * NH + head(u) = u
    <2>1. \A b \in Nat, c \in Nat \ {0} : \A u \in 0 .. b * c - 1 :
             /\ u \div c \in 0 .. b - 1 /\ u % c \in 0 .. c - 1
             /\ (u \div c) * c + (u % c) = u
      BY RowBelow
    <2>2. T \in Nat /\ NH \in Nat \ {0}
      BY <1>1
    <2> QED BY <2>1, <2>2
  <1> HIDE DEF pos, head
  <1>4. N \in Nat /\ T * C = N * hs /\ T * 3 * C = (T * 3 * NH) * hs
    <2>1. T * (NH * hs) = (T * NH) * hs
      BY <1>1
    <2>2. (T * 3) * (NH * hs) = ((T * 3) * NH) * hs
      BY <1>1
    <2> QED BY <2>1, <2>2, <1>1
  <1>5. ASSUME NEW u \in 0 .. N - 1
        PROVE  /\ head(u) * T + pos(u) \in 0 .. NH * T - 1
               /\ row(u) = (head(u) * T + pos(u)) * T
               /\ pos(u) * C + head(u) * hs = u * hs
    <2> DEFINE p == pos(u)
    <2> DEFINE h == head(u)
    <2>1. p \in 0 .. T - 1 /\ h \in 0 .. NH - 1 /\ p * NH + h = u
      BY <1>3
    <2> HIDE DEF p, h
    <2>2. h * T + p \in 0 .. NH * T - 1
      <3>1. h \in Nat /\ NH \in Nat /\ h < NH /\ T \in Nat
        BY <2>1, <1>1
      <3> QED BY <3>1, <2>1, Within
    <2>3. h * T * T + p * T = (h * T + p) * T
      BY <2>1
    <2>4. p * (NH * hs) + h * hs = (p * NH + h) * hs
      BY <2>1, <1>1
    <2> QED BY <2>1, <2>2, <2>3, <2>4, <1>1 DEF p, h
  <1> DEFINE idx(u) == head(u) * T + pos(u)
  <1>6. \A u, v \in 0 .. N - 1 : u # v => idx(u) # idx(v)
    <2> SUFFICES ASSUME NEW u \in 0 .. N - 1, NEW v \in 0 .. N - 1, idx(u) = idx(v)
                 PROVE  u = v
      OBVIOUS
    <2> DEFINE p == pos(u)
    <2> DEFINE h == head(u)
    <2> DEFINE q == pos(v)
    <2> DEFINE g == head(v)
    <2>1. /\ p \in 0 .. T - 1 /\ h \in 0 .. NH - 1 /\ p * NH + h = u
          /\ q \in 0 .. T - 1 /\ g \in 0 .. NH - 1 /\ q * NH + g = v
          /\ h * T + p = g * T + q
      BY <1>3
    <2> HIDE DEF p, h, q, g
    <2>2. h \in Nat /\ g \in Nat /\ h * T \in Nat /\ g * T \in Nat
      BY <2>1, <1>1
    <2>3. ~ (h < g)
      <3> SUFFICES ASSUME h < g PROVE FALSE
        OBVIOUS
      <3>1. h * T + T <= g * T
        BY <2>2, Apart
      <3> QED BY <3>1, <2>1, <2>2
    <2>4. ~ (g < h)
      <3> SUFFICES ASSUME g < h PROVE FALSE
        OBVIOUS
      <3>1. g * T + T <= h * T
        BY <2>2, Apart
      <3> QED BY <3>1, <2>1, <2>2
    <2>5. h = g
      BY <2>2, <2>3, <2>4
    <2>6. p = q
      BY <2>1, <2>2, <2>5
    <2> QED BY <2>1, <2>5, <2>6
  <1> DEFINE S == Run(preatt, NH * T * T)
  <1> DEFINE A == Run(att, NH * T * T)
  <1> DEFINE O == Run(out, T * C)
  <1>7. /\ \A u \in 0 .. N - 1 : Run(preatt + row(u), pos(u) + 1) \subseteq S
        /\ \A u, v \in 0 .. N - 1 : u # v =>
              Run(preatt + row(u), pos(u) + 1) \cap Run(preatt + row(v), pos(v) + 1) = {}
    <2>1. NH * T \in Nat /\ T \in Nat
      BY <1>1
    <2>2. \A i \in 0 .. NH * T - 1 : Run(preatt + i * T, T) \subseteq S
      BY <2>1, RowsWithin
    <2>3. \A i, j \in 0 .. NH * T - 1 :
             i # j => Run(preatt + i * T, T) \cap Run(preatt + j * T, T) = {}
      BY <2>1, RowsApart
    <2>4. ASSUME NEW u \in 0 .. N - 1
          PROVE  /\ idx(u) \in 0 .. NH * T - 1
                 /\ Run(preatt + row(u), pos(u) + 1) \subseteq Run(preatt + idx(u) * T, T)
      <3> DEFINE r == idx(u) * T
      <3>1. row(u) = r /\ idx(u) \in 0 .. NH * T - 1
        BY <1>5
      <3>2. r \in Nat
        <4> HIDE DEF idx
        <4> QED BY <3>1, <2>1
      <3> HIDE DEF r
      <3>3. pos(u) \in 0 .. T - 1
        BY <1>3
      <3>4. Run(preatt + r, pos(u) + 1) \subseteq Run(preatt + r, T)
        BY <3>2, <3>3 DEF Run
      <3> QED BY <3>1, <3>4 DEF r
    <2> HIDE DEF idx, row, S
    <2> QED BY <2>2, <2>3, <2>4, <1>6
  <1>8. /\ \A u \in 0 .. N - 1 : Run(att + row(u), T) \subseteq A
        /\ \A u, v \in 0 .. N - 1 : u # v => Run(att + row(u), T) \cap Run(att + row(v), T) = {}
    <2>1. NH * T \in Nat /\ T \in Nat
      BY <1>1
    <2>2. \A i \in 0 .. NH * T - 1 : Run(att + i * T, T) \subseteq A
      BY <2>1, RowsWithin
    <2>3. \A i, j \in 0 .. NH * T - 1 :
             i # j => Run(att + i * T, T) \cap Run(att + j * T, T) = {}
      BY <2>1, RowsApart
    <2>4. \A u \in 0 .. N - 1 : row(u) = idx(u) * T /\ idx(u) \in 0 .. NH * T - 1
      BY <1>5
    <2> HIDE DEF idx, row, A
    <2> QED BY <2>2, <2>3, <2>4, <1>6
  <1>9. /\ \A u \in 0 .. N - 1 : Run(out + pos(u) * C + head(u) * hs, hs) \subseteq O
        /\ \A u, v \in 0 .. N - 1 : u # v =>
              Run(out + pos(u) * C + head(u) * hs, hs)
                \cap Run(out + pos(v) * C + head(v) * hs, hs) = {}
        /\ \A x \in O : \E u \in 0 .. N - 1 : x \in Run(out + pos(u) * C + head(u) * hs, hs)
    <2>1. \A u \in 0 .. N - 1 : Run(out + u * hs, hs) \subseteq Run(out, N * hs)
      BY <1>1, <1>4, RowsWithin
    <2>2. \A u, v \in 0 .. N - 1 : u # v => Run(out + u * hs, hs) \cap Run(out + v * hs, hs) = {}
      BY <1>1, <1>4, RowsApart
    <2>3. \A x \in Run(out, N * hs) : \E u \in 0 .. N - 1 : x \in Run(out + u * hs, hs)
      BY <1>1, <1>4, RowsCover
    <2>4. \A u \in 0 .. N - 1 : out + pos(u) * C + head(u) * hs = out + u * hs
      <3> SUFFICES ASSUME NEW u \in 0 .. N - 1
                   PROVE  out + pos(u) * C + head(u) * hs = out + u * hs
        OBVIOUS
      <3> DEFINE a == pos(u) * C
      <3> DEFINE b == head(u) * hs
      <3>1. a + b = u * hs
        BY <1>5
      <3>2. a \in Int /\ b \in Int
        BY <1>1, <1>3
      <3> HIDE DEF a, b
      <3>3. out + a + b = out + u * hs
        BY <3>1, <3>2
      <3> QED BY <3>3 DEF a, b
    <2>5. O = Run(out, N * hs)
      BY <1>4
    <2> HIDE DEF O, N
    <2> QED BY <2>1, <2>2, <2>3, <2>4, <2>5
  <1>10. \A u \in 0 .. N - 1 : Rd(u) \subseteq Run(inp, T * 3 * C)
    <2> SUFFICES ASSUME NEW u \in 0 .. N - 1
                 PROVE  Rd(u) \subseteq Run(inp, T * 3 * C)
      OBVIOUS
    <2> DEFINE n == T * 3 * NH
    <2> DEFINE h == head(u)
    <2>1. n \in Nat /\ Run(inp, T * 3 * C) = Run(inp, n * hs)
      BY <1>1, <1>4
    <2>2. \A i \in 0 .. n - 1 : Run(inp + i * hs, hs) \subseteq Run(inp, n * hs)
      BY <1>1, <2>1, RowsWithin
    <2>3. h \in 0 .. NH - 1 /\ pos(u) \in 0 .. T - 1
      BY <1>3
    <2> HIDE DEF h
    <2>4. ASSUME NEW t2 \in 0 .. pos(u), NEW k \in 0 .. 2
          PROVE  Run(inp + t2 * (C * 3) + h * hs + k * C, hs) \subseteq Run(inp, n * hs)
      <3> DEFINE i == t2 * (3 * NH) + (k * NH + h)
      <3>1. k * NH + h \in 0 .. 3 * NH - 1
        <4>1. k \in Nat /\ k < 3 /\ 3 \in Nat /\ NH \in Nat
          BY <1>1
        <4> QED BY <4>1, <2>3, Within
      <3>2. t2 \in Nat /\ t2 < T /\ T \in Nat /\ 3 * NH \in Nat
        BY <2>3, <1>1
      <3>3. i \in 0 .. T * (3 * NH) - 1
        BY <3>1, <3>2, Within
      <3>4. T * (3 * NH) = n
        BY <1>1
      <3>5. t2 * (C * 3) + h * hs + k * C = i * hs
        <4>1. t2 * ((NH * hs) * 3) = (t2 * (3 * NH)) * hs
          BY <3>2, <1>1
        <4>2. k * (NH * hs) = (k * NH) * hs
          BY <1>1
        <4>3. /\ t2 * (3 * NH) \in Int /\ k * NH \in Int /\ h \in Int
          BY <1>1, <2>3, <3>2
        <4>4. (t2 * (3 * NH) + (k * NH + h)) * hs
                = (t2 * (3 * NH)) * hs + ((k * NH) * hs + h * hs)
          <5> DEFINE a == t2 * (3 * NH)
          <5> DEFINE b == k * NH
          <5>1. a \in Int /\ b \in Int
            BY <4>3
          <5> HIDE DEF a, b
          <5>2. (a + (b + h)) * hs = a * hs + (b * hs + h * hs)
            BY <5>1, <4>3, <1>1
          <5> QED BY <5>2 DEF a, b
        <4>5. /\ (t2 * (3 * NH)) * hs \in Int /\ (k * NH) * hs \in Int /\ h * hs \in Int
          BY <4>3, <1>1
        <4> QED BY <4>1, <4>2, <4>4, <4>5, <1>1
      <3>6. inp + t2 * (C * 3) + h * hs + k * C = inp + i * hs
        <4> DEFINE a == t2 * (C * 3)
        <4> DEFINE b == h * hs
        <4> DEFINE c == k * C
        <4> DEFINE d == i * hs
        <4>1. a \in Int /\ b \in Int /\ c \in Int /\ a + b + c = d
          BY <3>5, <3>2, <2>3, <1>1
        <4> HIDE DEF a, b, c, d
        <4>2. inp + a + b + c = inp + d
          BY <4>1
        <4> QED BY <4>2 DEF a, b, c, d
      <3> HIDE DEF i
      <3> QED BY <2>2, <3>3, <3>4, <3>6
    <2>5. Run(inp + pos(u) * (C * 3) + h * hs, hs) \subseteq Run(inp, n * hs)
      <3> DEFINE a == pos(u) * (C * 3)
      <3> DEFINE b == h * hs
      <3>1. a \in Int /\ b \in Int
        BY <2>3, <1>1
      <3>2. pos(u) \in 0 .. pos(u)
        BY <2>3
      <3>3. Run(inp + a + b + 0 * C, hs) \subseteq Run(inp, n * hs)
        BY <3>2, <2>4
      <3> HIDE DEF a, b
      <3>4. inp + a + b + 0 * C = inp + a + b
        BY <3>1, <1>1
      <3> QED BY <3>3, <3>4 DEF a, b
    <2>6. \A t2 \in 0 .. pos(u), k \in {1, 2} :
             Run(inp + t2 * (C * 3) + h * hs + k * C, hs) \subseteq Run(inp, n * hs)
      BY <2>4
    <2>7. Rd(u) = Run(inp + pos(u) * (C * 3) + h * hs, hs)
                    \cup UNION {Run(inp + t2 * (C * 3) + h * hs + k * C, hs) :
                                   t2 \in 0 .. pos(u), k \in {1, 2}}
      BY DEF h
    <2> HIDE DEF n
    <2> QED BY <2>1, <2>5, <2>6, <2>7
  <1>11. \A u \in 0 .. N - 1 : Wr(u) \subseteq S \cup A \cup O
    <2> HIDE DEF S, A, O, row
    <2> QED BY <1>7, <1>8, <1>9
  <1>12. ASSUME NEW u \in 0 .. N - 1, NEW v \in 0 .. N - 1, u # v
         PROVE  Wr(u) \cap Wr(v) = {}
    <2> DEFINE s(x) == Run(preatt + row(x), pos(x) + 1)
    <2> DEFINE a(x) == Run(att + row(x), T)
    <2> DEFINE o(x) == Run(out + pos(x) * C + head(x) * hs, hs)
    <2>1. s(u) \cap s(v) = {} /\ a(u) \cap a(v) = {} /\ o(u) \cap o(v) = {}
      BY <1>7, <1>8, <1>9, <1>12
    <2>2. /\ s(u) \subseteq S /\ s(v) \subseteq S /\ a(u) \subseteq A /\ a(v) \subseteq A
          /\ o(u) \subseteq O /\ o(v) \subseteq O
      BY <1>7, <1>8, <1>9
    <2>3. S \cap A = {} /\ S \cap O = {} /\ A \cap O = {}
      OBVIOUS
    <2>4. Wr(u) = s(u) \cup a(u) \cup o(u) /\ Wr(v) = s(v) \cup a(v) \cup o(v)
      OBVIOUS
    <2> HIDE DEF s, a, o, S, A, O, Wr
    <2> QED BY <2>1, <2>2, <2>3, <2>4
  <1>13. \A x \in O : \E u \in 0 .. N - 1 : x \in Wr(u)
    <2> HIDE DEF O
    <2> QED BY <1>9
  <1> HIDE DEF Wr, Rd, S, A, O, N
  <1>14. Fits(y, Run(inp, T * 3 * C), S \cup A \cup O, O, {})
    BY <1>2, <1>10, <1>11, <1>12, <1>13 DEF Fits
  <1> QED BY <1>14 DEF y, S, A, O

----------------------------------------------------------------------------
(* Where the tensors lie.                                                  *)

Tensors == {ActNames[j] : j \in 1 .. 23}

\* The part of a tensor of activations that belongs to one block of layers, and
\* how many such parts it has.
SlotSize(T, x) ==
    CASE x \in {"encoded", "ln1", "atty", "attproj", "residual2", "ln2", "fcproj",
                "residual3", "lnf"} -> T * C
      [] x \in {"ln1_mean", "ln1_rstd", "ln2_mean", "ln2_rstd", "lnf_mean", "lnf_rstd",
                "losses"} -> T
      [] x \in {"preatt", "att"} -> NH * T * T
      [] x = "qkv" -> T * 3 * C
      [] x \in {"fch", "fch_gelu"} -> T * 4 * C
      [] x \in {"logits", "probs"} -> T * V

Single == {"encoded", "lnf", "lnf_mean", "lnf_rstd", "logits", "probs", "losses"}

Copies(x) == IF x \in Single THEN 1 ELSE L

SlotAt(T, x, l) == Acts[T][x] + l * SlotSize(T, x)
Slot(T, x, l) == Run(SlotAt(T, x, l), SlotSize(T, x))

LEMMA SlotSizes ==
    ASSUME NEW T \in Nat
    PROVE  \A x \in Tensors : SlotSize(T, x) \in Nat /\ Copies(x) \in Nat
  <1>1. C \in Nat /\ NH \in Nat /\ V \in Nat /\ L \in Nat
    BY ForwardAssumption
  <1>2. T * C \in Nat /\ NH * T * T \in Nat /\ T * 3 * C \in Nat /\ T * 4 * C \in Nat /\ T * V \in Nat
    BY <1>1
  <1> QED BY <1>1, <1>2 DEF Tensors, ActNames, SlotSize, Copies

LEMMA ActSizesAre ==
    ASSUME NEW T \in Nat
    PROVE  /\ ActSizes(T) \in Seq(Nat) /\ Len(ActSizes(T)) = 23
           /\ \A j \in 1 .. 23 :
                 ActSizes(T)[j] = Copies(ActNames[j]) * SlotSize(T, ActNames[j])
  <1>1. C \in Nat /\ NH \in Nat /\ V \in Nat /\ L \in Nat
    BY ForwardAssumption
  <1>2. /\ L * T * C = L * (T * C) /\ L * T = L * T /\ L * NH * T * T = L * (NH * T * T)
        /\ L * T * 3 * C = L * (T * 3 * C) /\ L * T * 4 * C = L * (T * 4 * C)
    BY <1>1
  <1>3. /\ T * C \in Nat /\ L * T * C \in Nat /\ L * T \in Nat /\ L * NH * T * T \in Nat
        /\ L * T * 3 * C \in Nat /\ L * T * 4 * C \in Nat /\ T * V \in Nat
    BY <1>1
  <1>4. ActSizes(T) \in Seq(Nat) /\ Len(ActSizes(T)) = 23
    BY <1>3 DEF ActSizes
  <1>5. \A j \in 1 .. 23 : ActSizes(T)[j] = Copies(ActNames[j]) * SlotSize(T, ActNames[j])
    BY <1>1, <1>2, <1>3 DEF ActSizes, ActNames, Copies, Single, SlotSize
  <1> QED BY <1>4, <1>5

LEMMA NamesDiffer ==
    ASSUME NEW i \in 1 .. 23, NEW j \in 1 .. 23, ActNames[i] = ActNames[j]
    PROVE  i = j
  BY DEF ActNames

LEMMA ActsAt ==
    ASSUME NEW T \in 1 .. Limit, NEW j \in 1 .. 23
    PROVE  Acts[T][ActNames[j]] = Ends(ActSizes(T))[j - 1]
  <1>1. DOMAIN ActNames = 1 .. 23
    BY DEF ActNames
  <1>2. Acts[T] = [x \in {ActNames[i] : i \in DOMAIN ActNames} |->
                      Ends(ActSizes(T))[(CHOOSE i \in DOMAIN ActNames : ActNames[i] = x) - 1]]
    BY DEF Acts, PointAt
  <1>3. (CHOOSE i \in DOMAIN ActNames : ActNames[i] = ActNames[j]) = j
    BY <1>1, NamesDiffer
  <1> QED BY <1>1, <1>2, <1>3

\* The end of every tensor is the beginning of the next one.
LEMMA TensorsInOrder ==
    ASSUME NEW T \in 1 .. Limit
    PROVE  /\ \A j \in 1 .. 23 :
                 /\ Acts[T][ActNames[j]] \in Nat
                 /\ Acts[T][ActNames[j]] + Copies(ActNames[j]) * SlotSize(T, ActNames[j]) <= ActsLen[T]
           /\ \A i, j \in 1 .. 23 : i < j =>
                 Acts[T][ActNames[i]] + Copies(ActNames[i]) * SlotSize(T, ActNames[i])
                   <= Acts[T][ActNames[j]]
           /\ ActsLen[T] \in Nat
  <1> DEFINE z == ActSizes(T)
  <1> DEFINE e == Ends(z)
  <1>1. T \in Nat /\ Limit \in Nat
    BY ForwardAssumption
  <1>2. /\ z \in Seq(Nat) /\ Len(z) = 23
        /\ \A j \in 1 .. 23 : z[j] = Copies(ActNames[j]) * SlotSize(T, ActNames[j])
    BY <1>1, ActSizesAre
  <1>3. ActsLen[T] = e[23]
    BY <1>2 DEF ActsLen
  <1> HIDE DEF z
  <1>4. /\ \A i \in 0 .. 23 : e[i] \in Nat
        /\ \A i \in 1 .. 23 : e[i] = e[i - 1] + z[i]
        /\ \A i, j \in 0 .. 23 : i <= j => e[i] <= e[j]
    BY <1>2, EndsFacts
  <1>5. \A j \in 1 .. 23 : Acts[T][ActNames[j]] = e[j - 1]
    BY ActsAt DEF z
  <1> HIDE DEF e
  <1>6. \A j \in 1 .. 23 :
           /\ Acts[T][ActNames[j]] \in Nat
           /\ Acts[T][ActNames[j]] + Copies(ActNames[j]) * SlotSize(T, ActNames[j]) = e[j]
    <2> SUFFICES ASSUME NEW j \in 1 .. 23
                 PROVE  /\ Acts[T][ActNames[j]] \in Nat
                        /\ Acts[T][ActNames[j]] + Copies(ActNames[j]) * SlotSize(T, ActNames[j]) = e[j]
      OBVIOUS
    <2>1. j - 1 \in 0 .. 23
      OBVIOUS
    <2> QED BY <2>1, <1>2, <1>4, <1>5
  <1>7. \A i, j \in 1 .. 23 : i < j => e[i] <= e[j - 1]
    BY <1>4
  <1>8. \A j \in 1 .. 23 : e[j] <= e[23]
    BY <1>4
  <1>9. e[23] \in Nat
    BY <1>4
  <1> QED BY <1>3, <1>5, <1>6, <1>7, <1>8, <1>9

\* A part of a tensor lies in the memory of the activations.
LEMMA SlotInside ==
    ASSUME NEW T \in 1 .. Limit, NEW x \in Tensors, NEW l \in 0 .. Copies(x) - 1
    PROVE  /\ SlotAt(T, x, l) \in Nat /\ Acts[T][x] <= SlotAt(T, x, l)
           /\ SlotAt(T, x, l) + SlotSize(T, x) <= Acts[T][x] + Copies(x) * SlotSize(T, x)
           /\ Slot(T, x, l) \subseteq 0 .. ActsLen[T] - 1
  <1> DEFINE c == SlotSize(T, x)
  <1> DEFINE n == Copies(x)
  <1> DEFINE a == Acts[T][x]
  <1>1. T \in Nat
    BY ForwardAssumption
  <1>2. c \in Nat /\ n \in Nat
    BY <1>1, SlotSizes
  <1>3. PICK j \in 1 .. 23 : x = ActNames[j]
    BY DEF Tensors
  <1>4. a \in Nat /\ a + n * c <= ActsLen[T] /\ ActsLen[T] \in Nat
    BY <1>3, TensorsInOrder
  <1>5. SlotAt(T, x, l) = a + l * c /\ Slot(T, x, l) = Run(a + l * c, c)
    BY DEF SlotAt, Slot
  <1>6. l \in Nat /\ l < n
    BY <1>2
  <1> HIDE DEF a, n, c
  <1>7. l * c \in Nat /\ l * c + c <= n * c /\ n * c \in Nat
    BY <1>2, <1>6, Apart
  <1>8. /\ a + l * c \in Nat /\ a <= a + l * c /\ a + l * c + c <= a + n * c
        /\ Run(a + l * c, c) \subseteq 0 .. ActsLen[T] - 1
    BY <1>2, <1>4, <1>7 DEF Run
  <1> QED BY <1>5, <1>8 DEF a, n, c

\* Different parts, of the same tensor or of different ones, do not overlap.
LEMMA SlotsApart ==
    ASSUME NEW T \in 1 .. Limit, NEW x \in Tensors, NEW y \in Tensors,
           NEW l \in 0 .. Copies(x) - 1, NEW m \in 0 .. Copies(y) - 1, x # y \/ l # m
    PROVE  Slot(T, x, l) \cap Slot(T, y, m) = {}
  <1>1. /\ SlotAt(T, x, l) \in Nat /\ SlotAt(T, y, m) \in Nat
        /\ Acts[T][x] <= SlotAt(T, x, l) /\ Acts[T][y] <= SlotAt(T, y, m)
        /\ SlotAt(T, x, l) + SlotSize(T, x) <= Acts[T][x] + Copies(x) * SlotSize(T, x)
        /\ SlotAt(T, y, m) + SlotSize(T, y) <= Acts[T][y] + Copies(y) * SlotSize(T, y)
    BY SlotInside
  <1>2. /\ SlotSize(T, x) \in Nat /\ Copies(x) \in Nat /\ SlotSize(T, y) \in Nat /\ Copies(y) \in Nat
        /\ T \in Nat
    <2>1. T \in Nat
      BY ForwardAssumption
    <2> QED BY <2>1, SlotSizes
  <1>3. PICK i \in 1 .. 23, j \in 1 .. 23 : x = ActNames[i] /\ y = ActNames[j]
    BY DEF Tensors
  <1>4. Acts[T][x] \in Nat /\ Acts[T][y] \in Nat
    BY <1>3, TensorsInOrder
  <1> DEFINE ex == Acts[T][x] + Copies(x) * SlotSize(T, x)
  <1> DEFINE ey == Acts[T][y] + Copies(y) * SlotSize(T, y)
  <1>5. CASE i < j
    <2>1. ex <= Acts[T][y] /\ ex \in Nat
      <3>1. ex <= Acts[T][y]
        BY <1>3, <1>5, TensorsInOrder
      <3> QED BY <3>1, <1>2, <1>4
    <2>2. SlotAt(T, x, l) + SlotSize(T, x) <= ex
      BY <1>1
    <2> HIDE DEF ex
    <2>3. SlotAt(T, x, l) + SlotSize(T, x) <= SlotAt(T, y, m)
      BY <2>1, <2>2, <1>1, <1>2, <1>4
    <2> QED BY <2>3, <1>1, <1>2 DEF Slot, Run
  <1>6. CASE j < i
    <2>1. ey <= Acts[T][x] /\ ey \in Nat
      <3>1. ey <= Acts[T][x]
        BY <1>3, <1>6, TensorsInOrder
      <3> QED BY <3>1, <1>2, <1>4
    <2>2. SlotAt(T, y, m) + SlotSize(T, y) <= ey
      BY <1>1
    <2> HIDE DEF ey
    <2>3. SlotAt(T, y, m) + SlotSize(T, y) <= SlotAt(T, x, l)
      BY <2>1, <2>2, <1>1, <1>2, <1>4
    <2> QED BY <2>3, <1>1, <1>2 DEF Slot, Run
  <1>7. CASE i = j
    <2>1. x = y /\ l # m /\ l \in 0 .. Copies(x) - 1 /\ m \in 0 .. Copies(x) - 1
      BY <1>3, <1>7
    <2>2. \A u, v \in 0 .. Copies(x) - 1 : u # v =>
             Run(Acts[T][x] + u * SlotSize(T, x), SlotSize(T, x))
               \cap Run(Acts[T][x] + v * SlotSize(T, x), SlotSize(T, x)) = {}
      BY <1>2, <1>4, RowsApart
    <2> QED BY <2>1, <2>2 DEF Slot, SlotAt
  <1> QED BY <1>5, <1>6, <1>7

----------------------------------------------------------------------------
(* Where the parameters lie.                                               *)

ParamTensors == {ParamNames[j] : j \in 1 .. 16}

ParamPart(x) ==
    CASE x = "wte" -> V * C
      [] x = "wpe" -> maxT * C
      [] x \in {"ln1w", "ln1b", "attprojb", "ln2w", "ln2b", "fcprojb", "lnfw", "lnfb"} -> C
      [] x = "qkvw" -> (3 * C) * C
      [] x = "qkvb" -> 3 * C
      [] x = "attprojw" -> C * C
      [] x = "fcw" -> (4 * C) * C
      [] x = "fcb" -> 4 * C
      [] x = "fcprojw" -> C * (4 * C)

ParamParts(x) == IF x \in {"wte", "wpe", "lnfw", "lnfb"} THEN 1 ELSE L

LEMMA ParamSizesAre ==
    /\ ParamSizes \in Seq(Nat) /\ Len(ParamSizes) = 16
    /\ \A j \in 1 .. 16 : ParamSizes[j] = ParamParts(ParamNames[j]) * ParamPart(ParamNames[j])
    /\ \A x \in ParamTensors : ParamPart(x) \in Nat /\ ParamParts(x) \in Nat
  <1>1. C \in Nat /\ NH \in Nat /\ V \in Nat /\ L \in Nat /\ maxT \in Nat
    BY ForwardAssumption
  <1>2. /\ L * (3 * C) * C = L * ((3 * C) * C) /\ L * C * C = L * (C * C)
        /\ L * (4 * C) * C = L * ((4 * C) * C) /\ L * C * (4 * C) = L * (C * (4 * C))
    BY <1>1
  <1>3. /\ V * C \in Nat /\ maxT * C \in Nat /\ (3 * C) * C \in Nat /\ 3 * C \in Nat /\ C * C \in Nat
        /\ (4 * C) * C \in Nat /\ 4 * C \in Nat /\ C * (4 * C) \in Nat
    BY <1>1
  <1>4. /\ L * C \in Nat /\ L * (3 * C) * C \in Nat /\ L * (3 * C) \in Nat /\ L * C * C \in Nat
        /\ L * (4 * C) * C \in Nat /\ L * (4 * C) \in Nat /\ L * C * (4 * C) \in Nat
    BY <1>1
  <1>5. ParamSizes \in Seq(Nat) /\ Len(ParamSizes) = 16
    BY <1>1, <1>3, <1>4 DEF ParamSizes
  <1>6. \A j \in 1 .. 16 : ParamSizes[j] = ParamParts(ParamNames[j]) * ParamPart(ParamNames[j])
    BY <1>1, <1>2, <1>3 DEF ParamSizes, ParamNames, ParamParts, ParamPart
  <1>7. \A x \in ParamTensors : ParamPart(x) \in Nat /\ ParamParts(x) \in Nat
    BY <1>1, <1>3 DEF ParamTensors, ParamNames, ParamParts, ParamPart
  <1> QED BY <1>5, <1>6, <1>7

LEMMA ParamAt ==
    ASSUME NEW j \in 1 .. 16
    PROVE  Param[ParamNames[j]] = Ends(ParamSizes)[j - 1]
  <1>1. DOMAIN ParamNames = 1 .. 16
    BY DEF ParamNames
  <1>2. Param = [x \in {ParamNames[i] : i \in DOMAIN ParamNames} |->
                    Ends(ParamSizes)[(CHOOSE i \in DOMAIN ParamNames : ParamNames[i] = x) - 1]]
    BY DEF Param, PointAt
  <1>3. \A i \in 1 .. 16 : ParamNames[i] = ParamNames[j] => i = j
    BY DEF ParamNames
  <1>4. (CHOOSE i \in DOMAIN ParamNames : ParamNames[i] = ParamNames[j]) = j
    BY <1>1, <1>3
  <1> QED BY <1>1, <1>2, <1>4

\* A part of a tensor of parameters lies in the memory of the parameters.
LEMMA ParamInside ==
    ASSUME NEW x \in ParamTensors, NEW l \in 0 .. ParamParts(x) - 1
    PROVE  /\ Param[x] \in Nat /\ Param[x] + l * ParamPart(x) \in Nat
           /\ Run(Param[x] + l * ParamPart(x), ParamPart(x)) \subseteq 0 .. ParamsLen - 1
  <1> DEFINE c == ParamPart(x)
  <1> DEFINE n == ParamParts(x)
  <1> DEFINE e == Ends(ParamSizes)
  <1>1. PICK j \in 1 .. 16 : x = ParamNames[j]
    BY DEF ParamTensors
  <1>2. /\ ParamSizes \in Seq(Nat) /\ Len(ParamSizes) = 16 /\ ParamSizes[j] = n * c
        /\ c \in Nat /\ n \in Nat
    BY <1>1, ParamSizesAre
  <1>3. /\ e[j - 1] \in Nat /\ e[j] = e[j - 1] + n * c /\ e[j] <= e[16] /\ e[16] \in Nat
    <2>1. /\ \A i \in 0 .. 16 : e[i] \in Nat
          /\ \A i \in 1 .. 16 : e[i] = e[i - 1] + ParamSizes[i]
          /\ \A i, k \in 0 .. 16 : i <= k => e[i] <= e[k]
      BY <1>2, EndsFacts
    <2> HIDE DEF e
    <2>2. j - 1 \in 0 .. 16 /\ j \in 0 .. 16 /\ 16 \in 0 .. 16 /\ j <= 16
      OBVIOUS
    <2> QED BY <2>1, <2>2, <1>2
  <1>4. ParamsLen = e[16] /\ Param[x] = e[j - 1]
    BY <1>1, <1>2, ParamAt DEF ParamsLen
  <1>5. l \in Nat /\ l < n
    BY <1>2
  <1> HIDE DEF c, n, e
  <1>6. l * c \in Nat /\ l * c + c <= n * c /\ n * c \in Nat
    BY <1>2, <1>5, Apart
  <1> DEFINE a == Param[x]
  <1>7. a \in Nat /\ ParamsLen \in Nat /\ a + n * c <= ParamsLen
    BY <1>3, <1>4
  <1> HIDE DEF a
  <1>8. Run(a + l * c, c) \subseteq 0 .. ParamsLen - 1 /\ a + l * c \in Nat
    BY <1>2, <1>6, <1>7 DEF Run
  <1> QED BY <1>7, <1>8 DEF a, c

----------------------------------------------------------------------------
(* What the calls of a block read and write: parts <<tensor, block>>.      *)

\* Where the input of block l comes from.
Stream(l) == IF l = 0 THEN <<"encoded", 0>> ELSE <<"residual3", l - 1>>

BlockReads(l) ==
    << {Stream(l)}, {<<"ln1", l>>}, {<<"qkv", l>>}, {<<"atty", l>>},
       {Stream(l), <<"attproj", l>>}, {<<"residual2", l>>}, {<<"ln2", l>>}, {<<"fch", l>>},
       {<<"fch_gelu", l>>}, {<<"residual2", l>>, <<"fcproj", l>>} >>

\* The part that a call fills completely, and all parts it writes to.
BlockOut == << "ln1", "qkv", "atty", "attproj", "residual2", "ln2", "fch", "fch_gelu",
               "fcproj", "residual3" >>

BlockWrites ==
    << {"ln1", "ln1_mean", "ln1_rstd"}, {"qkv"}, {"preatt", "att", "atty"}, {"attproj"},
       {"residual2"}, {"ln2", "ln2_mean", "ln2_rstd"}, {"fch"}, {"fch_gelu"}, {"fcproj"},
       {"residual3"} >>

Region(T, parts) == UNION {Slot(T, s[1], s[2]) : s \in parts}


LEMMA FitsMore ==
    ASSUME NEW y, NEW R, NEW W, NEW F, NEW P, NEW P2, Fits(y, R, W, F, P), P \subseteq P2
    PROVE  Fits(y, R, W, F, P2)
  BY DEF Fits

\* The offsets that gpt2_forward computes are those of the parts.
LEMMA Offsets ==
    ASSUME NEW T \in 1 .. Limit, NEW l \in 0 .. L - 1
    PROVE  /\ \A x \in {"ln1", "atty", "attproj", "residual2", "ln2", "fcproj", "residual3"} :
                 Slot(T, x, l) = Run(Acts[T][x] + l * T * C, T * C)
                 /\ Acts[T][x] + l * T * C \in Nat
           /\ \A x \in {"ln1_mean", "ln1_rstd", "ln2_mean", "ln2_rstd"} :
                 Slot(T, x, l) = Run(Acts[T][x] + l * T, T) /\ Acts[T][x] + l * T \in Nat
           /\ \A x \in {"preatt", "att"} :
                 Slot(T, x, l) = Run(Acts[T][x] + l * NH * T * T, NH * T * T)
                 /\ Acts[T][x] + l * NH * T * T \in Nat
           /\ Slot(T, "qkv", l) = Run(Acts[T]["qkv"] + l * T * 3 * C, T * 3 * C)
           /\ Acts[T]["qkv"] + l * T * 3 * C \in Nat
           /\ \A x \in {"fch", "fch_gelu"} :
                 Slot(T, x, l) = Run(Acts[T][x] + l * T * 4 * C, T * 4 * C)
                 /\ Acts[T][x] + l * T * 4 * C \in Nat
  <1>1. T \in Nat /\ l \in Nat /\ C \in Nat /\ NH \in Nat /\ L \in Nat
    BY ForwardAssumption
  <1>2. /\ l * T * C = l * (T * C) /\ l * NH * T * T = l * (NH * T * T)
        /\ l * T * 3 * C = l * (T * 3 * C) /\ l * T * 4 * C = l * (T * 4 * C)
    BY <1>1
  <1>3. \A x \in Tensors \ Single : SlotAt(T, x, l) \in Nat
    <2>1. \A x \in Tensors \ Single : l \in 0 .. Copies(x) - 1
      BY DEF Copies
    <2> QED BY <2>1, SlotInside
  <1>4. {"ln1", "atty", "attproj", "residual2", "ln2", "fcproj", "residual3", "ln1_mean",
         "ln1_rstd", "ln2_mean", "ln2_rstd", "preatt", "att", "qkv", "fch", "fch_gelu"}
          \subseteq Tensors \ Single
    <2>1. /\ ActNames[2] = "ln1" /\ ActNames[3] = "ln1_mean" /\ ActNames[4] = "ln1_rstd"
          /\ ActNames[5] = "qkv" /\ ActNames[6] = "atty" /\ ActNames[7] = "preatt"
          /\ ActNames[8] = "att" /\ ActNames[9] = "attproj" /\ ActNames[10] = "residual2"
          /\ ActNames[11] = "ln2" /\ ActNames[12] = "ln2_mean" /\ ActNames[13] = "ln2_rstd"
          /\ ActNames[14] = "fch" /\ ActNames[15] = "fch_gelu" /\ ActNames[16] = "fcproj"
          /\ ActNames[17] = "residual3"
      BY DEF ActNames
    <2>2. \A j \in 2 .. 17 : ActNames[j] \in Tensors
      BY DEF Tensors
    <2> QED BY <2>1, <2>2 DEF Single
  <1>5. \A x \in {"ln1", "atty", "attproj", "residual2", "ln2", "fcproj", "residual3"} :
           SlotSize(T, x) = T * C
    BY DEF SlotSize
  <1>6. \A x \in {"ln1_mean", "ln1_rstd", "ln2_mean", "ln2_rstd"} : SlotSize(T, x) = T
    BY DEF SlotSize
  <1>7. \A x \in {"preatt", "att"} : SlotSize(T, x) = NH * T * T
    BY DEF SlotSize
  <1>8. SlotSize(T, "qkv") = T * 3 * C /\ SlotSize(T, "fch") = T * 4 * C
        /\ SlotSize(T, "fch_gelu") = T * 4 * C
    BY DEF SlotSize
  <1> QED BY <1>2, <1>3, <1>4, <1>5, <1>6, <1>7, <1>8 DEF Slot, SlotAt

\* The parts of the tensors that there are only once.
LEMMA SingleOffsets ==
    ASSUME NEW T \in 1 .. Limit
    PROVE  /\ \A x \in {"encoded", "lnf"} :
                 Slot(T, x, 0) = Run(Acts[T][x], T * C) /\ Acts[T][x] \in Nat
           /\ \A x \in {"lnf_mean", "lnf_rstd"} :
                 Slot(T, x, 0) = Run(Acts[T][x], T) /\ Acts[T][x] \in Nat
           /\ \A x \in {"logits", "probs"} :
                 Slot(T, x, 0) = Run(Acts[T][x], T * V) /\ Acts[T][x] \in Nat
  <1>1. T \in Nat /\ C \in Nat /\ V \in Nat
    BY ForwardAssumption
  <1>2. {"encoded", "lnf", "lnf_mean", "lnf_rstd", "logits", "probs"} \subseteq Tensors
    <2>1. /\ ActNames[1] = "encoded" /\ ActNames[18] = "lnf" /\ ActNames[19] = "lnf_mean"
          /\ ActNames[20] = "lnf_rstd" /\ ActNames[21] = "logits" /\ ActNames[22] = "probs"
      BY DEF ActNames
    <2>2. \A j \in 1 .. 23 : ActNames[j] \in Tensors
      BY DEF Tensors
    <2> QED BY <2>1, <2>2
  <1>3. \A x \in Tensors : Acts[T][x] \in Nat
    BY TensorsInOrder DEF Tensors
  <1>4. \A x \in Tensors : SlotAt(T, x, 0) = Acts[T][x]
    <2> SUFFICES ASSUME NEW x \in Tensors PROVE SlotAt(T, x, 0) = Acts[T][x]
      OBVIOUS
    <2>1. SlotSize(T, x) \in Nat
      BY <1>1, SlotSizes
    <2> QED BY <2>1, <1>3 DEF SlotAt
  <1>5. /\ SlotSize(T, "encoded") = T * C /\ SlotSize(T, "lnf") = T * C
        /\ SlotSize(T, "lnf_mean") = T /\ SlotSize(T, "lnf_rstd") = T
        /\ SlotSize(T, "logits") = T * V /\ SlotSize(T, "probs") = T * V
    BY DEF SlotSize
  <1> QED BY <1>2, <1>3, <1>4, <1>5 DEF Slot

LEMMA RegionIs ==
    ASSUME NEW T
    PROVE  /\ \A x, l : Region(T, {<<x, l>>}) = Slot(T, x, l)
           /\ \A x, l, y, m : Region(T, {<<x, l>>, <<y, m>>}) = Slot(T, x, l) \cup Slot(T, y, m)
           /\ \A x, y, z, l : Region(T, {<<a, l>> : a \in {x, y, z}})
                                = Slot(T, x, l) \cup Slot(T, y, l) \cup Slot(T, z, l)
           /\ \A x, l : Region(T, {<<a, l>> : a \in {x}}) = Slot(T, x, l)
  <1>1. \A x, l : Region(T, {<<x, l>>}) = Slot(T, x, l)
    BY DEF Region
  <1>2. ASSUME NEW x, NEW l, NEW y, NEW m
        PROVE  Region(T, {<<x, l>>, <<y, m>>}) = Slot(T, x, l) \cup Slot(T, y, m)
    <2> DEFINE parts == {<<x, l>>, <<y, m>>}
    <2>1. \A d : d \in Region(T, parts) <=> \E s \in parts : d \in Slot(T, s[1], s[2])
      BY DEF Region
    <2>2. \A d : (\E s \in parts : d \in Slot(T, s[1], s[2]))
                   <=> d \in Slot(T, x, l) \/ d \in Slot(T, y, m)
      OBVIOUS
    <2> HIDE DEF parts
    <2>3. Region(T, parts) = Slot(T, x, l) \cup Slot(T, y, m)
      BY <2>1, <2>2
    <2> QED BY <2>3 DEF parts
  <1>3. ASSUME NEW x, NEW y, NEW z, NEW l
        PROVE  Region(T, {<<a, l>> : a \in {x, y, z}})
                 = Slot(T, x, l) \cup Slot(T, y, l) \cup Slot(T, z, l)
    <2> DEFINE parts == {<<a, l>> : a \in {x, y, z}}
    <2>1. \A d : d \in Region(T, parts) <=> \E s \in parts : d \in Slot(T, s[1], s[2])
      BY DEF Region
    <2>2. \A d : (\E s \in parts : d \in Slot(T, s[1], s[2]))
                   <=> d \in Slot(T, x, l) \/ d \in Slot(T, y, l) \/ d \in Slot(T, z, l)
      <3>1. parts = {<<x, l>>, <<y, l>>, <<z, l>>}
        OBVIOUS
      <3> HIDE DEF parts
      <3> QED BY <3>1
    <2> HIDE DEF parts
    <2>3. Region(T, parts) = Slot(T, x, l) \cup Slot(T, y, l) \cup Slot(T, z, l)
      BY <2>1, <2>2
    <2> QED BY <2>3 DEF parts
  <1>4. \A x, l : Region(T, {<<a, l>> : a \in {x}}) = Slot(T, x, l)
    <2>1. \A x, l : {<<a, l>> : a \in {x}} = {<<x, l>>}
      OBVIOUS
    <2> QED BY <2>1, <1>1
  <1> QED BY <1>1, <1>2, <1>3, <1>4

\* Where block l takes its input from.
LEMMA StreamIs ==
    ASSUME NEW T \in 1 .. Limit, NEW l \in 0 .. L - 1
    PROVE  LET at == IF l = 0 THEN Acts[T].encoded ELSE Acts[T].residual3 + (l - 1) * T * C
           IN  at \in Nat /\ Region(T, {Stream(l)}) = Run(at, T * C)
  <1>1. CASE l = 0
    <2>1. Slot(T, "encoded", 0) = Run(Acts[T].encoded, T * C) /\ Acts[T].encoded \in Nat
      BY SingleOffsets
    <2>2. Region(T, {Stream(l)}) = Slot(T, "encoded", 0)
      BY <1>1, RegionIs DEF Stream
    <2> QED BY <1>1, <2>1, <2>2
  <1>2. CASE l # 0
    <2>1. l - 1 \in 0 .. L - 1
      BY <1>2, ForwardAssumption
    <2>2. /\ Acts[T].residual3 + (l - 1) * T * C \in Nat
          /\ Slot(T, "residual3", l - 1) = Run(Acts[T].residual3 + (l - 1) * T * C, T * C)
      BY <2>1, Offsets
    <2>3. Region(T, {Stream(l)}) = Slot(T, "residual3", l - 1)
      BY <1>2, RegionIs DEF Stream
    <2> QED BY <1>2, <2>2, <2>3
  <1> QED BY <1>1, <1>2

\* The parameters of block l.
LEMMA ParamOffsets ==
    ASSUME NEW l \in 0 .. L - 1
    PROVE  /\ \A x \in {"ln1w", "ln1b", "attprojb", "ln2w", "ln2b", "fcprojb"} :
                 Param[x] + l * C \in Nat /\ Run(Param[x] + l * C, C) \subseteq 0 .. ParamsLen - 1
           /\ Param["qkvw"] + l * 3 * C * C \in Nat
           /\ Run(Param["qkvw"] + l * 3 * C * C, (3 * C) * C) \subseteq 0 .. ParamsLen - 1
           /\ Param["qkvb"] + l * 3 * C \in Nat
           /\ Run(Param["qkvb"] + l * 3 * C, 3 * C) \subseteq 0 .. ParamsLen - 1
           /\ Param["attprojw"] + l * C * C \in Nat
           /\ Run(Param["attprojw"] + l * C * C, C * C) \subseteq 0 .. ParamsLen - 1
           /\ Param["fcw"] + l * 4 * C * C \in Nat
           /\ Run(Param["fcw"] + l * 4 * C * C, (4 * C) * C) \subseteq 0 .. ParamsLen - 1
           /\ Param["fcb"] + l * 4 * C \in Nat
           /\ Run(Param["fcb"] + l * 4 * C, 4 * C) \subseteq 0 .. ParamsLen - 1
           /\ Param["fcprojw"] + l * C * 4 * C \in Nat
           /\ Run(Param["fcprojw"] + l * C * 4 * C, C * (4 * C)) \subseteq 0 .. ParamsLen - 1
  <1>1. l \in Nat /\ C \in Nat /\ L \in Nat
    BY ForwardAssumption
  <1>2. /\ l * 3 * C * C = l * ((3 * C) * C) /\ l * 3 * C = l * (3 * C) /\ l * C * C = l * (C * C)
        /\ l * 4 * C * C = l * ((4 * C) * C) /\ l * 4 * C = l * (4 * C)
        /\ l * C * 4 * C = l * (C * (4 * C))
    BY <1>1
  <1> DEFINE InBlock == {"ln1w", "ln1b", "attprojb", "ln2w", "ln2b", "fcprojb", "qkvw", "qkvb",
                         "attprojw", "fcw", "fcb", "fcprojw"}
  <1>3. InBlock \subseteq ParamTensors
    <2>1. /\ ParamNames[3] = "ln1w" /\ ParamNames[4] = "ln1b" /\ ParamNames[5] = "qkvw"
          /\ ParamNames[6] = "qkvb" /\ ParamNames[7] = "attprojw" /\ ParamNames[8] = "attprojb"
          /\ ParamNames[9] = "ln2w" /\ ParamNames[10] = "ln2b" /\ ParamNames[11] = "fcw"
          /\ ParamNames[12] = "fcb" /\ ParamNames[13] = "fcprojw" /\ ParamNames[14] = "fcprojb"
      BY DEF ParamNames
    <2>2. \A j \in 1 .. 16 : ParamNames[j] \in ParamTensors
      BY DEF ParamTensors
    <2> QED BY <2>1, <2>2
  <1>4. \A x \in InBlock : /\ Param[x] + l * ParamPart(x) \in Nat
                           /\ Run(Param[x] + l * ParamPart(x), ParamPart(x)) \subseteq 0 .. ParamsLen - 1
    <2>1. \A x \in InBlock : l \in 0 .. ParamParts(x) - 1
      BY DEF ParamParts
    <2> HIDE DEF InBlock
    <2> QED BY <2>1, <1>3, ParamInside
  <1>5. /\ \A x \in {"ln1w", "ln1b", "attprojb", "ln2w", "ln2b", "fcprojb"} : ParamPart(x) = C
        /\ ParamPart("qkvw") = (3 * C) * C /\ ParamPart("qkvb") = 3 * C
        /\ ParamPart("attprojw") = C * C /\ ParamPart("fcw") = (4 * C) * C
        /\ ParamPart("fcb") = 4 * C /\ ParamPart("fcprojw") = C * (4 * C)
    BY DEF ParamPart
  <1> QED BY <1>2, <1>4, <1>5

\* Every call of a block fits the parts of its tensors.
LEMMA BlockFits ==
    ASSUME NEW T \in 1 .. Limit, NEW l \in 0 .. L - 1, NEW j \in 1 .. 10
    PROVE  Fits(Block(T, l)[j], Region(T, BlockReads(l)[j]),
                Region(T, {<<x, l>> : x \in BlockWrites[j]}), Slot(T, BlockOut[j], l),
                0 .. ParamsLen - 1)
  <1> DEFINE a == Acts[T]
  <1> DEFINE p == Param
  <1> DEFINE P == 0 .. ParamsLen - 1
  <1> DEFINE in == IF l = 0 THEN a.encoded ELSE a.residual3 + (l - 1) * T * C
  <1> DEFINE n == l * T * C
  <1> DEFINE G(k) == Fits(Block(T, l)[k], Region(T, BlockReads(l)[k]),
                         Region(T, {<<x, l>> : x \in BlockWrites[k]}), Slot(T, BlockOut[k], l), P)
  <1>1. /\ T \in Nat \ {0} /\ C \in Nat \ {0} /\ 3 * C \in Nat \ {0} /\ 4 * C \in Nat \ {0}
        /\ T * (3 * C) = T * 3 * C /\ T * (4 * C) = T * 4 * C
        /\ T * C \in Nat /\ T * 4 * C \in Nat
    BY ForwardAssumption
  <1>2. in \in Nat /\ Region(T, {Stream(l)}) = Run(in, T * C)
    BY StreamIs
  <1>3. /\ \A x \in {"ln1", "atty", "attproj", "residual2", "ln2", "fcproj", "residual3"} :
              Slot(T, x, l) = Run(a[x] + n, T * C) /\ a[x] + n \in Nat
        /\ \A x \in {"ln1_mean", "ln1_rstd", "ln2_mean", "ln2_rstd"} :
              Slot(T, x, l) = Run(a[x] + l * T, T) /\ a[x] + l * T \in Nat
        /\ \A x \in {"preatt", "att"} :
              Slot(T, x, l) = Run(a[x] + l * NH * T * T, NH * T * T)
              /\ a[x] + l * NH * T * T \in Nat
        /\ Slot(T, "qkv", l) = Run(a.qkv + l * T * 3 * C, T * 3 * C)
        /\ a.qkv + l * T * 3 * C \in Nat
        /\ \A x \in {"fch", "fch_gelu"} :
              Slot(T, x, l) = Run(a[x] + l * T * 4 * C, T * 4 * C)
              /\ a[x] + l * T * 4 * C \in Nat
    BY Offsets
  <1>4. \A x, y \in {"ln1", "atty", "ln2", "ln1_mean", "ln1_rstd", "ln2_mean", "ln2_rstd",
                     "preatt", "att"} : x # y => Slot(T, x, l) \cap Slot(T, y, l) = {}
    <2> DEFINE X == {"ln1", "atty", "ln2", "ln1_mean", "ln1_rstd", "ln2_mean", "ln2_rstd",
                     "preatt", "att"}
    <2>1. X \subseteq Tensors
      <3>1. /\ ActNames[2] = "ln1" /\ ActNames[3] = "ln1_mean" /\ ActNames[4] = "ln1_rstd"
            /\ ActNames[6] = "atty" /\ ActNames[7] = "preatt" /\ ActNames[8] = "att"
            /\ ActNames[11] = "ln2" /\ ActNames[12] = "ln2_mean" /\ ActNames[13] = "ln2_rstd"
        BY DEF ActNames
      <3>2. \A k \in 1 .. 23 : ActNames[k] \in Tensors
        BY DEF Tensors
      <3> QED BY <3>1, <3>2
    <2>2. \A x \in X : l \in 0 .. Copies(x) - 1
      BY DEF Copies, Single
    <2> HIDE DEF X
    <2>3. \A x, y \in X : x # y => Slot(T, x, l) \cap Slot(T, y, l) = {}
      BY <2>1, <2>2, SlotsApart
    <2> QED BY <2>3 DEF X
  <1>5. /\ \A x, k : Region(T, {<<x, k>>}) = Slot(T, x, k)
        /\ \A x : Region(T, {<<z, l>> : z \in {x}}) = Slot(T, x, l)
        /\ \A x, y, z : Region(T, {<<b, l>> : b \in {x, y, z}})
                           = Slot(T, x, l) \cup Slot(T, y, l) \cup Slot(T, z, l)
        /\ \A x, y : Region(T, {<<x, l>>, <<y, l>>}) = Slot(T, x, l) \cup Slot(T, y, l)
        /\ \A x : Region(T, {Stream(l), <<x, l>>}) = Run(in, T * C) \cup Slot(T, x, l)
    <2>1. ASSUME NEW x PROVE Region(T, {Stream(l), <<x, l>>}) = Run(in, T * C) \cup Slot(T, x, l)
      <3>1. \A s, u : Region(T, {s, u}) = Region(T, {s}) \cup Region(T, {u})
        BY DEF Region
      <3>2. Region(T, {<<x, l>>}) = Slot(T, x, l)
        BY RegionIs
      <3>3. Region(T, {Stream(l), <<x, l>>}) = Region(T, {Stream(l)}) \cup Region(T, {<<x, l>>})
        BY <3>1
      <3> HIDE DEF in
      <3> QED BY <3>2, <3>3, <1>2
    <2>2. \A x, y : Region(T, {<<x, l>>, <<y, l>>}) = Slot(T, x, l) \cup Slot(T, y, l)
      BY RegionIs
    <2>3. \A x, k : Region(T, {<<x, k>>}) = Slot(T, x, k)
      BY RegionIs
    <2>4. \A x : Region(T, {<<z, l>> : z \in {x}}) = Slot(T, x, l)
      BY RegionIs
    <2>5. \A x, y, z : Region(T, {<<b, l>> : b \in {x, y, z}})
                          = Slot(T, x, l) \cup Slot(T, y, l) \cup Slot(T, z, l)
      BY RegionIs
    <2> HIDE DEF in
    <2> QED BY <2>1, <2>2, <2>3, <2>4, <2>5
  <1>6. /\ Block(T, l)[1] = Layernorm(T, a.ln1 + n, a.ln1_mean + l * T, a.ln1_rstd + l * T, in,
                                      p.ln1w + l * C, p.ln1b + l * C)
        /\ Block(T, l)[2] = Matmul(T, a.qkv + l * T * 3 * C, a.ln1 + n, p.qkvw + l * 3 * C * C,
                                   {p.qkvb + l * 3 * C}, C, 3 * C)
        /\ Block(T, l)[3] = Attention(T, a.atty + n, a.preatt + l * NH * T * T,
                                      a.att + l * NH * T * T, a.qkv + l * T * 3 * C)
        /\ Block(T, l)[4] = Matmul(T, a.attproj + n, a.atty + n, p.attprojw + l * C * C,
                                   {p.attprojb + l * C}, C, C)
        /\ Block(T, l)[5] = Residual(a.residual2 + n, in, a.attproj + n, T * C)
        /\ Block(T, l)[6] = Layernorm(T, a.ln2 + n, a.ln2_mean + l * T, a.ln2_rstd + l * T,
                                      a.residual2 + n, p.ln2w + l * C, p.ln2b + l * C)
        /\ Block(T, l)[7] = Matmul(T, a.fch + l * T * 4 * C, a.ln2 + n, p.fcw + l * 4 * C * C,
                                   {p.fcb + l * 4 * C}, C, 4 * C)
        /\ Block(T, l)[8] = Gelu(a.fch_gelu + l * T * 4 * C, a.fch + l * T * 4 * C, T * 4 * C)
        /\ Block(T, l)[9] = Matmul(T, a.fcproj + n, a.fch_gelu + l * T * 4 * C,
                                   p.fcprojw + l * C * 4 * C, {p.fcprojb + l * C}, 4 * C, C)
        /\ Block(T, l)[10] = Residual(a.residual3 + n, a.residual2 + n, a.fcproj + n, T * C)
    BY DEF Block
  <1>7. /\ \A x \in {"ln1w", "ln1b", "attprojb", "ln2w", "ln2b", "fcprojb"} :
              p[x] + l * C \in Nat /\ Run(p[x] + l * C, C) \subseteq P
        /\ p.qkvw + l * 3 * C * C \in Nat /\ Run(p.qkvw + l * 3 * C * C, (3 * C) * C) \subseteq P
        /\ p.qkvb + l * 3 * C \in Nat /\ Run(p.qkvb + l * 3 * C, 3 * C) \subseteq P
        /\ p.attprojw + l * C * C \in Nat /\ Run(p.attprojw + l * C * C, C * C) \subseteq P
        /\ p.fcw + l * 4 * C * C \in Nat /\ Run(p.fcw + l * 4 * C * C, (4 * C) * C) \subseteq P
        /\ p.fcb + l * 4 * C \in Nat /\ Run(p.fcb + l * 4 * C, 4 * C) \subseteq P
        /\ p.fcprojw + l * C * 4 * C \in Nat
        /\ Run(p.fcprojw + l * C * 4 * C, C * (4 * C)) \subseteq P
    BY ParamOffsets
  <1> HIDE DEF a, p, P, in, n
  <1>8. G(1)
    <2> DEFINE o == a.ln1 + n
    <2> DEFINE m == a.ln1_mean + l * T
    <2> DEFINE r == a.ln1_rstd + l * T
    <2> DEFINE i == in
    <2> DEFINE w == p.ln1w + l * C
    <2> DEFINE b == p.ln1b + l * C
    <2>1. /\ o \in Nat /\ m \in Nat /\ r \in Nat /\ i \in Nat /\ w \in Nat /\ b \in Nat
          /\ Slot(T, "ln1", l) = Run(o, T * C) /\ Slot(T, "ln1_mean", l) = Run(m, T)
          /\ Slot(T, "ln1_rstd", l) = Run(r, T) /\ Run(w, C) \cup Run(b, C) \subseteq P
      BY <1>2, <1>3, <1>7
    <2>2. /\ Run(o, T * C) \cap Run(m, T) = {} /\ Run(o, T * C) \cap Run(r, T) = {}
          /\ Run(m, T) \cap Run(r, T) = {}
      BY <2>1, <1>4
    <2>3. Block(T, l)[1] = Layernorm(T, o, m, r, i, w, b)
      BY <1>6
    <2>4. Region(T, BlockReads(l)[1]) = Run(i, T * C)
      BY <1>2, <1>3, <1>5 DEF BlockReads
    <2> HIDE DEF o, m, r, i, w, b
    <2>5. Fits(Layernorm(T, o, m, r, i, w, b), Run(i, T * C),
               Run(o, T * C) \cup Run(m, T) \cup Run(r, T), Run(o, T * C), Run(w, C) \cup Run(b, C))
      BY <2>1, <2>2, <1>1, LayernormFits
    <2>6. /\ Region(T, {<<x, l>> : x \in BlockWrites[1]}) = Run(o, T * C) \cup Run(m, T) \cup Run(r, T)
          /\ BlockOut[1] = "ln1"
      BY <2>1, <1>5 DEF BlockWrites, BlockOut
    <2>7. Fits(Layernorm(T, o, m, r, i, w, b), Run(i, T * C),
               Run(o, T * C) \cup Run(m, T) \cup Run(r, T), Run(o, T * C), P)
      BY <2>1, <2>5, FitsMore
    <2> QED BY <2>1, <2>3, <2>4, <2>6, <2>7
  <1>9. G(2)
    <2> DEFINE o == a.qkv + l * T * 3 * C
    <2> DEFINE i == a.ln1 + n
    <2> DEFINE w == p.qkvw + l * 3 * C * C
    <2> DEFINE b == p.qkvb + l * 3 * C
    <2>1. /\ o \in Nat /\ i \in Nat /\ w \in Nat /\ b \in Nat
          /\ Slot(T, "qkv", l) = Run(o, T * 3 * C) /\ Slot(T, "ln1", l) = Run(i, T * C)
          /\ Run(w, (3 * C) * C) \subseteq P /\ Run(b, (3 * C)) \subseteq P
      BY <1>3, <1>7, <1>1
    <2>2. Block(T, l)[2] = Matmul(T, o, i, w, {b}, C, 3 * C)
      BY <1>6
    <2> HIDE DEF o, i, w, b
    <2>3. Fits(Matmul(T, o, i, w, {b}, C, 3 * C), Run(i, T * C),
               Run(o, T * (3 * C)), Run(o, T * (3 * C)), P)
      <3>1. {b} \in SUBSET Nat /\ \A c \in {b} : Run(c, 3 * C) \subseteq P
        BY <2>1
      <3> QED BY <3>1, <2>1, <1>1, MatmulFits
    <2>4. /\ Region(T, BlockReads(l)[2]) = Run(i, T * C)
          /\ Region(T, {<<x, l>> : x \in BlockWrites[2]}) = Run(o, T * 3 * C)
          /\ BlockOut[2] = "qkv"
      BY <2>1, <1>5 DEF BlockReads, BlockWrites, BlockOut
    <2> QED BY <2>1, <2>2, <2>3, <2>4, <1>1
  <1>10. G(3)
    <2> DEFINE o == a.atty + n
    <2> DEFINE i == a.qkv + l * T * 3 * C
    <2> DEFINE q == a.preatt + l * NH * T * T
    <2> DEFINE s == a.att + l * NH * T * T
    <2>1. /\ o \in Nat /\ i \in Nat /\ q \in Nat /\ s \in Nat
          /\ Slot(T, "atty", l) = Run(o, T * C) /\ Slot(T, "qkv", l) = Run(i, T * 3 * C)
          /\ Slot(T, "preatt", l) = Run(q, NH * T * T) /\ Slot(T, "att", l) = Run(s, NH * T * T)
      BY <1>3
    <2>2. /\ Run(q, NH * T * T) \cap Run(s, NH * T * T) = {}
          /\ Run(q, NH * T * T) \cap Run(o, T * C) = {}
          /\ Run(s, NH * T * T) \cap Run(o, T * C) = {}
      BY <2>1, <1>4
    <2>3. Block(T, l)[3] = Attention(T, o, q, s, i)
      BY <1>6
    <2> HIDE DEF o, i, q, s
    <2>4. Fits(Attention(T, o, q, s, i), Run(i, T * 3 * C),
               Run(q, NH * T * T) \cup Run(s, NH * T * T) \cup Run(o, T * C), Run(o, T * C), {})
      BY <2>1, <2>2, <1>1, AttentionFits
    <2>5. /\ Region(T, BlockReads(l)[3]) = Run(i, T * 3 * C)
          /\ Region(T, {<<x, l>> : x \in BlockWrites[3]})
                = Run(q, NH * T * T) \cup Run(s, NH * T * T) \cup Run(o, T * C)
          /\ BlockOut[3] = "atty"
      BY <2>1, <1>5 DEF BlockReads, BlockWrites, BlockOut
    <2>6. Fits(Attention(T, o, q, s, i), Run(i, T * 3 * C),
               Run(q, NH * T * T) \cup Run(s, NH * T * T) \cup Run(o, T * C), Run(o, T * C), P)
      BY <2>4, FitsMore
    <2> QED BY <2>1, <2>3, <2>5, <2>6
  <1>11. G(4)
    <2> DEFINE o == a.attproj + n
    <2> DEFINE i == a.atty + n
    <2> DEFINE w == p.attprojw + l * C * C
    <2> DEFINE b == p.attprojb + l * C
    <2>1. /\ o \in Nat /\ i \in Nat /\ w \in Nat /\ b \in Nat
          /\ Slot(T, "attproj", l) = Run(o, T * C) /\ Slot(T, "atty", l) = Run(i, T * C)
          /\ Run(w, C * C) \subseteq P /\ Run(b, C) \subseteq P
      BY <1>3, <1>7, <1>1
    <2>2. Block(T, l)[4] = Matmul(T, o, i, w, {b}, C, C)
      BY <1>6
    <2> HIDE DEF o, i, w, b
    <2>3. Fits(Matmul(T, o, i, w, {b}, C, C), Run(i, T * C),
               Run(o, T * C), Run(o, T * C), P)
      <3>1. {b} \in SUBSET Nat /\ \A c \in {b} : Run(c, C) \subseteq P
        BY <2>1
      <3> QED BY <3>1, <2>1, <1>1, MatmulFits
    <2>4. /\ Region(T, BlockReads(l)[4]) = Run(i, T * C)
          /\ Region(T, {<<x, l>> : x \in BlockWrites[4]}) = Run(o, T * C)
          /\ BlockOut[4] = "attproj"
      BY <2>1, <1>5 DEF BlockReads, BlockWrites, BlockOut
    <2> QED BY <2>1, <2>2, <2>3, <2>4, <1>1
  <1>12. G(5)
    <2> DEFINE o == a.residual2 + n
    <2> DEFINE i1 == in
    <2> DEFINE i2 == a.attproj + n
    <2>1. /\ o \in Nat /\ i1 \in Nat /\ i2 \in Nat
          /\ Slot(T, "residual2", l) = Run(o, T * C) /\ Slot(T, "attproj", l) = Run(i2, T * C)
      BY <1>2, <1>3
    <2>2. Block(T, l)[5] = Residual(o, i1, i2, T * C)
      BY <1>6
    <2>3. Region(T, BlockReads(l)[5]) = Run(i1, T * C) \cup Run(i2, T * C)
      BY <2>1, <1>3, <1>5 DEF BlockReads
    <2> HIDE DEF o, i1, i2
    <2>4. Fits(Residual(o, i1, i2, T * C), Run(i1, T * C) \cup Run(i2, T * C),
               Run(o, T * C), Run(o, T * C), {})
      BY <2>1, <1>1, ResidualFits
    <2>5. /\ Region(T, {<<x, l>> : x \in BlockWrites[5]}) = Run(o, T * C)
          /\ BlockOut[5] = "residual2"
      BY <2>1, <1>5 DEF BlockWrites, BlockOut
    <2>6. Fits(Residual(o, i1, i2, T * C), Run(i1, T * C) \cup Run(i2, T * C),
               Run(o, T * C), Run(o, T * C), P)
      BY <2>4, FitsMore
    <2> QED BY <2>1, <2>2, <2>3, <2>5, <2>6
  <1>13. G(6)
    <2> DEFINE o == a.ln2 + n
    <2> DEFINE m == a.ln2_mean + l * T
    <2> DEFINE r == a.ln2_rstd + l * T
    <2> DEFINE i == a.residual2 + n
    <2> DEFINE w == p.ln2w + l * C
    <2> DEFINE b == p.ln2b + l * C
    <2>1. /\ o \in Nat /\ m \in Nat /\ r \in Nat /\ i \in Nat /\ w \in Nat /\ b \in Nat
          /\ Slot(T, "ln2", l) = Run(o, T * C) /\ Slot(T, "ln2_mean", l) = Run(m, T)
          /\ Slot(T, "ln2_rstd", l) = Run(r, T) /\ Run(w, C) \cup Run(b, C) \subseteq P
      BY <1>2, <1>3, <1>7
    <2>2. /\ Run(o, T * C) \cap Run(m, T) = {} /\ Run(o, T * C) \cap Run(r, T) = {}
          /\ Run(m, T) \cap Run(r, T) = {}
      BY <2>1, <1>4
    <2>3. Block(T, l)[6] = Layernorm(T, o, m, r, i, w, b)
      BY <1>6
    <2>4. Region(T, BlockReads(l)[6]) = Run(i, T * C)
      BY <1>2, <1>3, <1>5 DEF BlockReads
    <2> HIDE DEF o, m, r, i, w, b
    <2>5. Fits(Layernorm(T, o, m, r, i, w, b), Run(i, T * C),
               Run(o, T * C) \cup Run(m, T) \cup Run(r, T), Run(o, T * C), Run(w, C) \cup Run(b, C))
      BY <2>1, <2>2, <1>1, LayernormFits
    <2>6. /\ Region(T, {<<x, l>> : x \in BlockWrites[6]}) = Run(o, T * C) \cup Run(m, T) \cup Run(r, T)
          /\ BlockOut[6] = "ln2"
      BY <2>1, <1>5 DEF BlockWrites, BlockOut
    <2>7. Fits(Layernorm(T, o, m, r, i, w, b), Run(i, T * C),
               Run(o, T * C) \cup Run(m, T) \cup Run(r, T), Run(o, T * C), P)
      BY <2>1, <2>5, FitsMore
    <2> QED BY <2>1, <2>3, <2>4, <2>6, <2>7
  <1>14. G(7)
    <2> DEFINE o == a.fch + l * T * 4 * C
    <2> DEFINE i == a.ln2 + n
    <2> DEFINE w == p.fcw + l * 4 * C * C
    <2> DEFINE b == p.fcb + l * 4 * C
    <2>1. /\ o \in Nat /\ i \in Nat /\ w \in Nat /\ b \in Nat
          /\ Slot(T, "fch", l) = Run(o, T * 4 * C) /\ Slot(T, "ln2", l) = Run(i, T * C)
          /\ Run(w, (4 * C) * C) \subseteq P /\ Run(b, (4 * C)) \subseteq P
      BY <1>3, <1>7, <1>1
    <2>2. Block(T, l)[7] = Matmul(T, o, i, w, {b}, C, 4 * C)
      BY <1>6
    <2> HIDE DEF o, i, w, b
    <2>3. Fits(Matmul(T, o, i, w, {b}, C, 4 * C), Run(i, T * C),
               Run(o, T * (4 * C)), Run(o, T * (4 * C)), P)
      <3>1. {b} \in SUBSET Nat /\ \A c \in {b} : Run(c, 4 * C) \subseteq P
        BY <2>1
      <3> QED BY <3>1, <2>1, <1>1, MatmulFits
    <2>4. /\ Region(T, BlockReads(l)[7]) = Run(i, T * C)
          /\ Region(T, {<<x, l>> : x \in BlockWrites[7]}) = Run(o, T * 4 * C)
          /\ BlockOut[7] = "fch"
      BY <2>1, <1>5 DEF BlockReads, BlockWrites, BlockOut
    <2> QED BY <2>1, <2>2, <2>3, <2>4, <1>1
  <1>15. G(8)
    <2> DEFINE o == a.fch_gelu + l * T * 4 * C
    <2> DEFINE i == a.fch + l * T * 4 * C
    <2>1. /\ o \in Nat /\ i \in Nat
          /\ Slot(T, "fch_gelu", l) = Run(o, T * 4 * C) /\ Slot(T, "fch", l) = Run(i, T * 4 * C)
      BY <1>3
    <2>2. Block(T, l)[8] = Gelu(o, i, T * 4 * C)
      BY <1>6
    <2> HIDE DEF o, i
    <2>3. Fits(Gelu(o, i, T * 4 * C), Run(i, T * 4 * C), Run(o, T * 4 * C), Run(o, T * 4 * C), {})
      BY <2>1, <1>1, GeluFits
    <2>4. /\ Region(T, BlockReads(l)[8]) = Run(i, T * 4 * C)
          /\ Region(T, {<<x, l>> : x \in BlockWrites[8]}) = Run(o, T * 4 * C)
          /\ BlockOut[8] = "fch_gelu"
      BY <2>1, <1>5 DEF BlockReads, BlockWrites, BlockOut
    <2>5. Fits(Gelu(o, i, T * 4 * C), Run(i, T * 4 * C), Run(o, T * 4 * C), Run(o, T * 4 * C), P)
      BY <2>3, FitsMore
    <2> QED BY <2>1, <2>2, <2>4, <2>5
  <1>16. G(9)
    <2> DEFINE o == a.fcproj + n
    <2> DEFINE i == a.fch_gelu + l * T * 4 * C
    <2> DEFINE w == p.fcprojw + l * C * 4 * C
    <2> DEFINE b == p.fcprojb + l * C
    <2>1. /\ o \in Nat /\ i \in Nat /\ w \in Nat /\ b \in Nat
          /\ Slot(T, "fcproj", l) = Run(o, T * C) /\ Slot(T, "fch_gelu", l) = Run(i, T * 4 * C)
          /\ Run(w, C * (4 * C)) \subseteq P /\ Run(b, C) \subseteq P
      BY <1>3, <1>7, <1>1
    <2>2. Block(T, l)[9] = Matmul(T, o, i, w, {b}, 4 * C, C)
      BY <1>6
    <2> HIDE DEF o, i, w, b
    <2>3. Fits(Matmul(T, o, i, w, {b}, 4 * C, C), Run(i, T * (4 * C)),
               Run(o, T * C), Run(o, T * C), P)
      <3>1. {b} \in SUBSET Nat /\ \A c \in {b} : Run(c, C) \subseteq P
        BY <2>1
      <3> QED BY <3>1, <2>1, <1>1, MatmulFits
    <2>4. /\ Region(T, BlockReads(l)[9]) = Run(i, T * 4 * C)
          /\ Region(T, {<<x, l>> : x \in BlockWrites[9]}) = Run(o, T * C)
          /\ BlockOut[9] = "fcproj"
      BY <2>1, <1>5 DEF BlockReads, BlockWrites, BlockOut
    <2> QED BY <2>1, <2>2, <2>3, <2>4, <1>1
  <1>17. G(10)
    <2> DEFINE o == a.residual3 + n
    <2> DEFINE i1 == a.residual2 + n
    <2> DEFINE i2 == a.fcproj + n
    <2>1. /\ o \in Nat /\ i1 \in Nat /\ i2 \in Nat
          /\ Slot(T, "residual3", l) = Run(o, T * C) /\ Slot(T, "fcproj", l) = Run(i2, T * C)
      BY <1>2, <1>3
    <2>2. Block(T, l)[10] = Residual(o, i1, i2, T * C)
      BY <1>6
    <2>3. Region(T, BlockReads(l)[10]) = Run(i1, T * C) \cup Run(i2, T * C)
      BY <2>1, <1>3, <1>5 DEF BlockReads
    <2> HIDE DEF o, i1, i2
    <2>4. Fits(Residual(o, i1, i2, T * C), Run(i1, T * C) \cup Run(i2, T * C),
               Run(o, T * C), Run(o, T * C), {})
      BY <2>1, <1>1, ResidualFits
    <2>5. /\ Region(T, {<<x, l>> : x \in BlockWrites[10]}) = Run(o, T * C)
          /\ BlockOut[10] = "residual3"
      BY <2>1, <1>5 DEF BlockWrites, BlockOut
    <2>6. Fits(Residual(o, i1, i2, T * C), Run(i1, T * C) \cup Run(i2, T * C),
               Run(o, T * C), Run(o, T * C), P)
      BY <2>4, FitsMore
    <2> QED BY <2>1, <2>2, <2>3, <2>5, <2>6
  <1> HIDE DEF G
  <1>18. G(j)
    BY <1>8, <1>9, <1>10, <1>11, <1>12, <1>13, <1>14, <1>15, <1>16, <1>17
  <1> QED BY <1>18 DEF G, P

----------------------------------------------------------------------------
(* What the calls of a whole pass read and write.                          *)

OpReads(k) ==
    CASE k = 1 -> {}
      [] k \in 2 .. 10 * L + 1 -> BlockReads((k - 2) \div 10)[((k - 2) % 10) + 1]
      [] k = 10 * L + 2 -> {<<"residual3", L - 1>>}
      [] k = 10 * L + 3 -> {<<"lnf", 0>>}
      [] k = 10 * L + 4 -> {<<"logits", 0>>}

OpOut(k) ==
    CASE k = 1 -> <<"encoded", 0>>
      [] k \in 2 .. 10 * L + 1 -> <<BlockOut[((k - 2) % 10) + 1], (k - 2) \div 10>>
      [] k = 10 * L + 2 -> <<"lnf", 0>>
      [] k = 10 * L + 3 -> <<"logits", 0>>
      [] k = 10 * L + 4 -> <<"probs", 0>>

OpWrites(k) ==
    CASE k = 1 -> {<<"encoded", 0>>}
      [] k \in 2 .. 10 * L + 1 ->
            {<<x, (k - 2) \div 10>> : x \in BlockWrites[((k - 2) % 10) + 1]}
      [] k = 10 * L + 2 -> {<<x, 0>> : x \in {"lnf", "lnf_mean", "lnf_rstd"}}
      [] k = 10 * L + 3 -> {<<"logits", 0>>}
      [] k = 10 * L + 4 -> {<<"probs", 0>>}

\* The position embedding has maxT rows; all else is within the parameters anyway.
OpParams(T, k) == IF k = 1 THEN Run(Param.wpe, T * C) ELSE 0 .. ParamsLen - 1

\* A call of the blocks has a block and a place in it.
LEMMA BlockCall ==
    ASSUME NEW k \in 2 .. 10 * L + 1
    PROVE  LET l == (k - 2) \div 10
               j == ((k - 2) % 10) + 1
           IN  l \in 0 .. L - 1 /\ j \in 1 .. 10 /\ k = 10 * l + j + 1
  BY ForwardAssumption

LEMMA CallOfBlock ==
    ASSUME NEW l \in 0 .. L - 1, NEW j \in 1 .. 10
    PROVE  /\ 10 * l + j + 1 \in 2 .. 10 * L + 1
           /\ (10 * l + j + 1 - 2) \div 10 = l
           /\ ((10 * l + j + 1 - 2) % 10) + 1 = j
  BY ForwardAssumption

LEMMA CallsAre ==
    ASSUME NEW k \in 1 .. NumOps
    PROVE  \/ k = 1
           \/ k \in 2 .. 10 * L + 1
           \/ k = 10 * L + 2
           \/ k = 10 * L + 3
           \/ k = 10 * L + 4
  BY ForwardAssumption DEF NumOps

\* The parameters of the calls around the blocks.
LEMMA OuterParams ==
    /\ \A x \in {"wte", "wpe", "lnfw", "lnfb"} : Param[x] \in Nat
    /\ Run(Param.wte, V * C) \subseteq 0 .. ParamsLen - 1
    /\ Run(Param.wpe, maxT * C) \subseteq 0 .. ParamsLen - 1
    /\ Run(Param.lnfw, C) \subseteq 0 .. ParamsLen - 1
    /\ Run(Param.lnfb, C) \subseteq 0 .. ParamsLen - 1
  <1> DEFINE X == {"wte", "wpe", "lnfw", "lnfb"}
  <1>1. X \subseteq ParamTensors
    <2>1. /\ ParamNames[1] = "wte" /\ ParamNames[2] = "wpe" /\ ParamNames[15] = "lnfw"
          /\ ParamNames[16] = "lnfb"
      BY DEF ParamNames
    <2>2. \A j \in 1 .. 16 : ParamNames[j] \in ParamTensors
      BY DEF ParamTensors
    <2> QED BY <2>1, <2>2
  <1>2. \A x \in X : 0 \in 0 .. ParamParts(x) - 1
    BY DEF ParamParts
  <1>3. \A x \in X : /\ Param[x] \in Nat
                     /\ Run(Param[x] + 0 * ParamPart(x), ParamPart(x)) \subseteq 0 .. ParamsLen - 1
                     /\ ParamPart(x) \in Nat
    <2> HIDE DEF X
    <2> QED BY <1>1, <1>2, ParamInside, ParamSizesAre
  <1>4. \A x \in X : Run(Param[x], ParamPart(x)) \subseteq 0 .. ParamsLen - 1
    <2> SUFFICES ASSUME NEW x \in X
                 PROVE  Run(Param[x], ParamPart(x)) \subseteq 0 .. ParamsLen - 1
      OBVIOUS
    <2> HIDE DEF X
    <2>1. Param[x] + 0 * ParamPart(x) = Param[x]
      BY <1>3
    <2> QED BY <2>1, <1>3
  <1>5. /\ ParamPart("wte") = V * C /\ ParamPart("wpe") = maxT * C
        /\ ParamPart("lnfw") = C /\ ParamPart("lnfb") = C
    BY DEF ParamPart
  <1> QED BY <1>3, <1>4, <1>5

\* Every call of a pass fits its parts.
LEMMA OpFits ==
    ASSUME NEW T \in 1 .. Limit, NEW k \in 1 .. NumOps
    PROVE  Fits(Op(T, k), Region(T, OpReads(k)), Region(T, OpWrites(k)),
                Slot(T, OpOut(k)[1], OpOut(k)[2]), OpParams(T, k))
  <1> DEFINE a == Acts[T]
  <1> DEFINE P == 0 .. ParamsLen - 1
  <1> DEFINE in == a.residual3 + (L - 1) * T * C
  <1>1. /\ T \in Nat \ {0} /\ C \in Nat \ {0} /\ V \in Nat \ {0} /\ L \in Nat \ {0}
        /\ L - 1 \in 0 .. L - 1
    BY ForwardAssumption
  <1>2. /\ \A x \in {"wte", "wpe", "lnfw", "lnfb"} : Param[x] \in Nat
        /\ Run(Param.wte, V * C) \subseteq P
        /\ Run(Param.lnfw, C) \subseteq P /\ Run(Param.lnfb, C) \subseteq P
    BY OuterParams
  <1>3. /\ \A x \in {"encoded", "lnf"} : Slot(T, x, 0) = Run(a[x], T * C) /\ a[x] \in Nat
        /\ \A x \in {"lnf_mean", "lnf_rstd"} : Slot(T, x, 0) = Run(a[x], T) /\ a[x] \in Nat
        /\ \A x \in {"logits", "probs"} : Slot(T, x, 0) = Run(a[x], T * V) /\ a[x] \in Nat
    BY SingleOffsets
  <1>4. Slot(T, "residual3", L - 1) = Run(in, T * C) /\ in \in Nat
    BY <1>1, Offsets
  <1>5. /\ \A x, l : Region(T, {<<x, l>>}) = Slot(T, x, l)
        /\ Region(T, {<<x, 0>> : x \in {"lnf", "lnf_mean", "lnf_rstd"}})
             = Slot(T, "lnf", 0) \cup Slot(T, "lnf_mean", 0) \cup Slot(T, "lnf_rstd", 0)
    <2>1. \A x, l : Region(T, {<<x, l>>}) = Slot(T, x, l)
      BY RegionIs
    <2>2. \A x, y, z, l : Region(T, {<<b, l>> : b \in {x, y, z}})
                            = Slot(T, x, l) \cup Slot(T, y, l) \cup Slot(T, z, l)
      BY RegionIs
    <2> QED BY <2>1, <2>2
  <1>6. Region(T, {}) = {}
    BY DEF Region
  <1>7. CASE k = 1
    <2>1. Op(T, k) = Encoder(T, a.encoded)
      BY <1>7, <1>1 DEF Op
    <2>2. OpReads(k) = {} /\ OpWrites(k) = {<<"encoded", 0>>} /\ OpOut(k) = <<"encoded", 0>>
          /\ OpParams(T, k) = Run(Param.wpe, T * C)
      BY <1>7, <1>1 DEF OpReads, OpWrites, OpOut, OpParams
    <2>3. Fits(Encoder(T, a.encoded), {}, Run(a.encoded, T * C), Run(a.encoded, T * C),
               Run(Param.wpe, T * C))
      BY <1>1, <1>2, <1>3, EncoderFits
    <2> HIDE DEF a, P, in
    <2>4. /\ Region(T, OpReads(k)) = {} /\ Region(T, OpWrites(k)) = Slot(T, "encoded", 0)
          /\ Slot(T, OpOut(k)[1], OpOut(k)[2]) = Slot(T, "encoded", 0)
      BY <2>2, <1>5, <1>6
    <2>5. Slot(T, "encoded", 0) = Run(a.encoded, T * C)
      BY <1>3
    <2> QED BY <2>1, <2>2, <2>3, <2>4, <2>5, Zenon
  <1>8. CASE k \in 2 .. 10 * L + 1
    <2> DEFINE l == (k - 2) \div 10
    <2> DEFINE j == ((k - 2) % 10) + 1
    <2>1. l \in 0 .. L - 1 /\ j \in 1 .. 10 /\ k # 1
      BY <1>8, BlockCall
    <2>2. Op(T, k) = Block(T, l)[j]
      BY <1>8, <1>1, <2>1 DEF Op
    <2>3. /\ OpReads(k) = BlockReads(l)[j] /\ OpWrites(k) = {<<x, l>> : x \in BlockWrites[j]}
          /\ OpOut(k) = <<BlockOut[j], l>> /\ OpParams(T, k) = P
      BY <1>8, <1>1, <2>1 DEF OpReads, OpWrites, OpOut, OpParams
    <2> HIDE DEF l, j, a, in
    <2>4. Fits(Block(T, l)[j], Region(T, BlockReads(l)[j]),
               Region(T, {<<x, l>> : x \in BlockWrites[j]}), Slot(T, BlockOut[j], l), P)
      BY <2>1, BlockFits
    <2> HIDE DEF P
    <2>5. OpOut(k)[1] = BlockOut[j] /\ OpOut(k)[2] = l
      BY <2>3
    <2> QED BY <2>2, <2>3, <2>4, <2>5
  <1>9. CASE k = 10 * L + 2
    <2> DEFINE o == a.lnf
    <2> DEFINE m == a.lnf_mean
    <2> DEFINE r == a.lnf_rstd
    <2> DEFINE w == Param.lnfw
    <2> DEFINE b == Param.lnfb
    <2>1. Op(T, k) = Layernorm(T, o, m, r, in, w, b)
      BY <1>9, <1>1 DEF Op
    <2>2. /\ OpReads(k) = {<<"residual3", L - 1>>} /\ OpOut(k) = <<"lnf", 0>>
          /\ OpWrites(k) = {<<x, 0>> : x \in {"lnf", "lnf_mean", "lnf_rstd"}}
          /\ OpParams(T, k) = P
      BY <1>9, <1>1 DEF OpReads, OpWrites, OpOut, OpParams
    <2>3. /\ o \in Nat /\ m \in Nat /\ r \in Nat /\ w \in Nat /\ b \in Nat
          /\ Slot(T, "lnf", 0) = Run(o, T * C) /\ Slot(T, "lnf_mean", 0) = Run(m, T)
          /\ Slot(T, "lnf_rstd", 0) = Run(r, T) /\ Run(w, C) \cup Run(b, C) \subseteq P
      BY <1>2, <1>3
    <2>4. /\ Slot(T, "lnf", 0) \cap Slot(T, "lnf_mean", 0) = {}
          /\ Slot(T, "lnf", 0) \cap Slot(T, "lnf_rstd", 0) = {}
          /\ Slot(T, "lnf_mean", 0) \cap Slot(T, "lnf_rstd", 0) = {}
      <3>1. "lnf" \in Tensors /\ "lnf_mean" \in Tensors /\ "lnf_rstd" \in Tensors
        <4>1. ActNames[18] = "lnf" /\ ActNames[19] = "lnf_mean" /\ ActNames[20] = "lnf_rstd"
          BY DEF ActNames
        <4>2. \A i \in 1 .. 23 : ActNames[i] \in Tensors
          BY DEF Tensors
        <4> QED BY <4>1, <4>2
      <3>2. \A x \in {"lnf", "lnf_mean", "lnf_rstd"} : 0 \in 0 .. Copies(x) - 1
        BY DEF Copies, Single
      <3> QED BY <3>1, <3>2, SlotsApart
    <2> HIDE DEF o, m, r, w, b, in, a
    <2>5. Fits(Layernorm(T, o, m, r, in, w, b), Run(in, T * C),
               Run(o, T * C) \cup Run(m, T) \cup Run(r, T), Run(o, T * C), Run(w, C) \cup Run(b, C))
      BY <2>3, <2>4, <1>1, <1>4, LayernormFits
    <2>6. Fits(Layernorm(T, o, m, r, in, w, b), Run(in, T * C),
               Run(o, T * C) \cup Run(m, T) \cup Run(r, T), Run(o, T * C), P)
      BY <2>3, <2>5, FitsMore
    <2>7. /\ Region(T, OpReads(k)) = Run(in, T * C)
          /\ Region(T, OpWrites(k)) = Run(o, T * C) \cup Run(m, T) \cup Run(r, T)
          /\ OpOut(k)[1] = "lnf" /\ OpOut(k)[2] = 0
      BY <2>2, <2>3, <1>4, <1>5
    <2> HIDE DEF P
    <2> QED BY <2>1, <2>2, <2>3, <2>6, <2>7
  <1>10. CASE k = 10 * L + 3
    <2> DEFINE o == a.logits
    <2> DEFINE i == a.lnf
    <2> DEFINE w == Param.wte
    <2>1. Op(T, k) = Matmul(T, o, i, w, {}, C, V)
      BY <1>10, <1>1 DEF Op
    <2>2. /\ OpReads(k) = {<<"lnf", 0>>} /\ OpOut(k) = <<"logits", 0>>
          /\ OpWrites(k) = {<<"logits", 0>>} /\ OpParams(T, k) = P
      BY <1>10, <1>1 DEF OpReads, OpWrites, OpOut, OpParams
    <2>3. /\ o \in Nat /\ i \in Nat /\ w \in Nat /\ Run(w, V * C) \subseteq P
          /\ Slot(T, "lnf", 0) = Run(i, T * C) /\ Slot(T, "logits", 0) = Run(o, T * V)
      BY <1>2, <1>3
    <2> HIDE DEF o, i, w, in, a
    <2>4. Fits(Matmul(T, o, i, w, {}, C, V), Run(i, T * C), Run(o, T * V), Run(o, T * V), P)
      <3>1. {} \in SUBSET Nat /\ \A b \in {} : Run(b, V) \subseteq P
        OBVIOUS
      <3> HIDE DEF P
      <3> QED BY <3>1, <2>3, <1>1, MatmulFits
    <2> HIDE DEF P
    <2> QED BY <2>1, <2>2, <2>3, <2>4, <1>5
  <1>11. CASE k = 10 * L + 4
    <2> DEFINE o == a.probs
    <2> DEFINE i == a.logits
    <2>1. Op(T, k) = Softmax(T, o, i)
      BY <1>11, <1>1 DEF Op
    <2>2. /\ OpReads(k) = {<<"logits", 0>>} /\ OpOut(k) = <<"probs", 0>>
          /\ OpWrites(k) = {<<"probs", 0>>} /\ OpParams(T, k) = P
      BY <1>11, <1>1 DEF OpReads, OpWrites, OpOut, OpParams
    <2>3. /\ o \in Nat /\ i \in Nat
          /\ Slot(T, "logits", 0) = Run(i, T * V) /\ Slot(T, "probs", 0) = Run(o, T * V)
      BY <1>3
    <2> HIDE DEF o, i, in, a
    <2>4. Fits(Softmax(T, o, i), Run(i, T * V), Run(o, T * V), Run(o, T * V), {})
      BY <2>3, <1>1, SoftmaxFits
    <2>5. Fits(Softmax(T, o, i), Run(i, T * V), Run(o, T * V), Run(o, T * V), P)
      BY <2>4, FitsMore
    <2> HIDE DEF P
    <2> QED BY <2>1, <2>2, <2>3, <2>5, <1>5
  <1> QED BY <1>7, <1>8, <1>9, <1>10, <1>11, CallsAre

\* Every part that is written is one of the activations.
LEMMA PartsExist ==
    ASSUME NEW k \in 1 .. NumOps, NEW s \in OpWrites(k)
    PROVE  s = <<s[1], s[2]>> /\ s[1] \in Tensors /\ s[2] \in 0 .. Copies(s[1]) - 1
  <1>1. L \in Nat \ {0}
    BY ForwardAssumption
  <1>2. \A x \in {ActNames[i] : i \in 1 .. 23} : x \in Tensors
    BY DEF Tensors
  <1>3. CASE k \in 2 .. 10 * L + 1
    <2> DEFINE l == (k - 2) \div 10
    <2> DEFINE j == ((k - 2) % 10) + 1
    <2>1. l \in 0 .. L - 1 /\ j \in 1 .. 10 /\ k # 1
      BY <1>3, BlockCall
    <2>2. OpWrites(k) = {<<x, l>> : x \in BlockWrites[j]}
      BY <1>3, <1>1, <2>1 DEF OpWrites
    <2> HIDE DEF l, j
    <2>3. PICK x \in BlockWrites[j] : s = <<x, l>>
      BY <2>2
    <2>4. x \in {ActNames[i] : i \in 2 .. 17}
      <3>1. /\ ActNames[2] = "ln1" /\ ActNames[3] = "ln1_mean" /\ ActNames[4] = "ln1_rstd"
            /\ ActNames[5] = "qkv" /\ ActNames[6] = "atty" /\ ActNames[7] = "preatt"
            /\ ActNames[8] = "att" /\ ActNames[9] = "attproj" /\ ActNames[10] = "residual2"
            /\ ActNames[11] = "ln2" /\ ActNames[12] = "ln2_mean" /\ ActNames[13] = "ln2_rstd"
            /\ ActNames[14] = "fch" /\ ActNames[15] = "fch_gelu" /\ ActNames[16] = "fcproj"
            /\ ActNames[17] = "residual3"
        BY DEF ActNames
      <3>2. x \in {"ln1", "ln1_mean", "ln1_rstd", "qkv", "preatt", "att", "atty", "attproj",
                   "residual2", "ln2", "ln2_mean", "ln2_rstd", "fch", "fch_gelu", "fcproj",
                   "residual3"}
        BY <2>1 DEF BlockWrites
      <3> QED BY <3>1, <3>2
    <2>5. x \in Tensors
      BY <2>4, <1>2
    <2>6. x \notin Single
      BY <2>1 DEF BlockWrites, Single
    <2> QED BY <2>1, <2>3, <2>5, <2>6 DEF Copies
  <1>4. CASE k \notin 2 .. 10 * L + 1
    <2>1. PICK x \in {"encoded", "lnf", "lnf_mean", "lnf_rstd", "logits", "probs"} : s = <<x, 0>>
      BY <1>1, <1>4, CallsAre DEF OpWrites
    <2>2. x \in Tensors
      <3>1. /\ ActNames[1] = "encoded" /\ ActNames[18] = "lnf" /\ ActNames[19] = "lnf_mean"
            /\ ActNames[20] = "lnf_rstd" /\ ActNames[21] = "logits" /\ ActNames[22] = "probs"
        BY DEF ActNames
      <3> QED BY <3>1, <1>2
    <2>3. Copies(x) = 1
      BY DEF Copies, Single
    <2> QED BY <2>1, <2>2, <2>3
  <1> QED BY <1>3, <1>4

\* No part is written by two calls.
LEMMA OneWriter ==
    ASSUME NEW k \in 1 .. NumOps, NEW m \in 1 .. NumOps, NEW s \in OpWrites(k), s \in OpWrites(m)
    PROVE  k = m
  <1>1. L \in Nat \ {0}
    BY ForwardAssumption
  <1> DEFINE Outer == {"encoded", "lnf", "lnf_mean", "lnf_rstd", "logits", "probs"}
  <1>2. ASSUME NEW i \in 2 .. 10 * L + 1
        PROVE  LET l == (i - 2) \div 10
                   j == ((i - 2) % 10) + 1
               IN  \A p \in OpWrites(i) : /\ p[2] = l /\ p[1] \in BlockWrites[j] /\ p[1] \notin Outer
                                          /\ j \in 1 .. 10 /\ i = 10 * l + j + 1
    <2> DEFINE l == (i - 2) \div 10
    <2> DEFINE j == ((i - 2) % 10) + 1
    <2>1. l \in 0 .. L - 1 /\ j \in 1 .. 10 /\ i # 1 /\ i = 10 * l + j + 1
      BY BlockCall
    <2>2. OpWrites(i) = {<<x, l>> : x \in BlockWrites[j]}
      BY <1>1, <2>1 DEF OpWrites
    <2> HIDE DEF l, j
    <2>3. \A x \in BlockWrites[j] : x \notin Outer
      BY <2>1 DEF BlockWrites
    <2>4. \A p \in OpWrites(i) : p[2] = l /\ p[1] \in BlockWrites[j] /\ p[1] \notin Outer
      BY <2>2, <2>3
    <2>5. \A p \in OpWrites(i) : /\ p[2] = l /\ p[1] \in BlockWrites[j] /\ p[1] \notin Outer
                                 /\ j \in 1 .. 10 /\ i = 10 * l + j + 1
      BY <2>1, <2>4
    <2> QED BY <2>5 DEF l, j
  <1>3. ASSUME NEW i \in 1 .. NumOps, i \notin 2 .. 10 * L + 1
        PROVE  \A p \in OpWrites(i) :
                  /\ p[1] \in Outer
                  /\ i = 1 => p[1] = "encoded"
                  /\ i = 10 * L + 2 => p[1] \in {"lnf", "lnf_mean", "lnf_rstd"}
                  /\ i = 10 * L + 3 => p[1] = "logits"
                  /\ i = 10 * L + 4 => p[1] = "probs"
    BY <1>1, <1>3, CallsAre DEF OpWrites
  <1>4. CASE k \in 2 .. 10 * L + 1 /\ m \in 2 .. 10 * L + 1
    <2> DEFINE l == (k - 2) \div 10
    <2> DEFINE j == ((k - 2) % 10) + 1
    <2> DEFINE n == (m - 2) \div 10
    <2> DEFINE i == ((m - 2) % 10) + 1
    <2>1. /\ s[2] = l /\ s[1] \in BlockWrites[j] /\ j \in 1 .. 10 /\ k = 10 * l + j + 1
          /\ s[2] = n /\ s[1] \in BlockWrites[i] /\ i \in 1 .. 10 /\ m = 10 * n + i + 1
      BY <1>2, <1>4
    <2> HIDE DEF l, j, n, i
    <2>2. \A x : \A u, v \in 1 .. 10 : x \in BlockWrites[u] /\ x \in BlockWrites[v] => u = v
      BY DEF BlockWrites
    <2> QED BY <2>1, <2>2
  <1>5. CASE k \notin 2 .. 10 * L + 1 /\ m \notin 2 .. 10 * L + 1
    BY <1>3, <1>5, CallsAre
  <1>6. CASE k \in 2 .. 10 * L + 1 /\ m \notin 2 .. 10 * L + 1
    <2>1. s[1] \notin Outer
      BY <1>2, <1>6
    <2>2. s[1] \in Outer
      BY <1>3, <1>6
    <2> QED BY <2>1, <2>2
  <1>7. CASE k \notin 2 .. 10 * L + 1 /\ m \in 2 .. 10 * L + 1
    <2>1. s[1] \notin Outer
      BY <1>2, <1>7
    <2>2. s[1] \in Outer
      BY <1>3, <1>7
    <2> QED BY <2>1, <2>2
  <1> QED BY <1>4, <1>5, <1>6, <1>7

\* A part that a call reads is the one that an earlier call fills.
LEMMA FilledBefore ==
    ASSUME NEW k \in 1 .. NumOps, NEW s \in OpReads(k)
    PROVE  \E j \in 1 .. k - 1 : OpOut(j) = s
  <1>1. L \in Nat \ {0}
    BY ForwardAssumption
  <1>2. \A l \in 0 .. L - 1, j \in 1 .. 10 :
           10 * l + j + 1 \in 2 .. 10 * L + 1 /\ OpOut(10 * l + j + 1) = <<BlockOut[j], l>>
    <2> SUFFICES ASSUME NEW l \in 0 .. L - 1, NEW j \in 1 .. 10, NEW i, i = 10 * l + j + 1
                 PROVE  i \in 2 .. 10 * L + 1 /\ OpOut(i) = <<BlockOut[j], l>>
      OBVIOUS
    <2>1. i \in 2 .. 10 * L + 1 /\ (i - 2) \div 10 = l /\ ((i - 2) % 10) + 1 = j
      BY CallOfBlock
    <2> QED BY <2>1, <1>1 DEF OpOut
  <1>3. OpOut(1) = <<"encoded", 0>>
    BY <1>1 DEF OpOut
  <1>4. CASE k \in 2 .. 10 * L + 1
    <2> DEFINE l == (k - 2) \div 10
    <2> DEFINE j == ((k - 2) % 10) + 1
    <2>1. l \in 0 .. L - 1 /\ j \in 1 .. 10 /\ k # 1 /\ k = 10 * l + j + 1
      BY <1>4, BlockCall
    <2>2. OpReads(k) = BlockReads(l)[j]
      BY <1>4, <1>1, <2>1 DEF OpReads
    <2> HIDE DEF l, j
    <2>3. CASE s = Stream(l)
      <3>1. CASE l = 0
        BY <3>1, <2>1, <2>3, <1>3 DEF Stream
      <3>2. CASE l # 0
        <4>1. l - 1 \in 0 .. L - 1 /\ 10 * (l - 1) + 10 + 1 \in 1 .. k - 1
          <5>1. l \in Nat /\ l >= 1 /\ j \in Nat /\ j >= 1 /\ l <= L - 1
            BY <3>2, <2>1, <1>1
          <5> QED BY <5>1, <2>1, <1>1
        <4>2. OpOut(10 * (l - 1) + 10 + 1) = <<BlockOut[10], l - 1>>
          BY <4>1, <1>2
        <4>3. s = <<BlockOut[10], l - 1>>
          BY <3>2, <2>3 DEF Stream, BlockOut
        <4> QED BY <4>1, <4>2, <4>3
      <3> QED BY <3>1, <3>2
    <2>4. CASE s # Stream(l)
      <3>1. \E i \in 1 .. j - 1 : s = <<BlockOut[i], l>>
        <4>1. s \in BlockReads(l)[j]
          BY <2>2
        <4>2. /\ BlockOut[1] = "ln1" /\ BlockOut[2] = "qkv" /\ BlockOut[3] = "atty"
              /\ BlockOut[4] = "attproj" /\ BlockOut[5] = "residual2" /\ BlockOut[6] = "ln2"
              /\ BlockOut[7] = "fch" /\ BlockOut[8] = "fch_gelu" /\ BlockOut[9] = "fcproj"
          BY DEF BlockOut
        <4>3. /\ j = 1 => FALSE
              /\ j = 2 => s = <<"ln1", l>>
              /\ j = 3 => s = <<"qkv", l>>
              /\ j = 4 => s = <<"atty", l>>
              /\ j = 5 => s = <<"attproj", l>>
              /\ j = 6 => s = <<"residual2", l>>
              /\ j = 7 => s = <<"ln2", l>>
              /\ j = 8 => s = <<"fch", l>>
              /\ j = 9 => s = <<"fch_gelu", l>>
              /\ j = 10 => s \in {<<"residual2", l>>, <<"fcproj", l>>}
          BY <4>1, <2>4 DEF BlockReads
        <4> QED BY <4>2, <4>3, <2>1
      <3>2. PICK i \in 1 .. j - 1 : s = <<BlockOut[i], l>>
        BY <3>1
      <3>3. i \in 1 .. 10 /\ 10 * l + i + 1 \in 1 .. k - 1
        BY <2>1
      <3> QED BY <3>2, <3>3, <2>1, <1>2
    <2> QED BY <2>3, <2>4
  <1>5. CASE k = 10 * L + 2
    <2>1. s = <<"residual3", L - 1>>
      BY <1>1, <1>5 DEF OpReads
    <2>2. 10 * (L - 1) + 10 + 1 \in 1 .. k - 1 /\ L - 1 \in 0 .. L - 1 /\ BlockOut[10] = "residual3"
      BY <1>1, <1>5 DEF BlockOut
    <2>3. OpOut(10 * (L - 1) + 10 + 1) = <<"residual3", L - 1>>
      BY <2>2, <1>2
    <2> QED BY <2>1, <2>2, <2>3
  <1>6. CASE k = 10 * L + 3
    <2>1. s = <<"lnf", 0>> /\ OpOut(10 * L + 2) = <<"lnf", 0>> /\ 10 * L + 2 \in 1 .. k - 1
      BY <1>1, <1>6 DEF OpReads, OpOut
    <2> QED BY <2>1
  <1>7. CASE k = 10 * L + 4
    <2>1. s = <<"logits", 0>> /\ OpOut(10 * L + 3) = <<"logits", 0>> /\ 10 * L + 3 \in 1 .. k - 1
      BY <1>1, <1>7 DEF OpReads, OpOut
    <2> QED BY <2>1
  <1>8. CASE k = 1
    BY <1>1, <1>8 DEF OpReads
  <1> QED BY <1>4, <1>5, <1>6, <1>7, <1>8, CallsAre

----------------------------------------------------------------------------
(* The data flow of a pass.                                                *)

\* What the units of call k write, and what the calls before it write.
AllWrites(T, k) ==
    UNION {Program[T][k].unit[u].writes : u \in 0 .. Program[T][k].total - 1}
Earlier(T, k) == UNION {AllWrites(T, j) : j \in 1 .. k - 1}

LEMMA CallWrites ==
    ASSUME NEW T \in 1 .. Limit - 1, NEW k \in 1 .. NumOps
    PROVE  /\ Program[T][k] = Op(T, k)
           /\ Slot(T, OpOut(k)[1], OpOut(k)[2]) \subseteq AllWrites(T, k)
           /\ AllWrites(T, k) \subseteq Region(T, OpWrites(k))
  <1>1. Program[T][k] = Op(T, k)
    BY DEF Program
  <1>2. T \in 1 .. Limit
    BY ForwardAssumption
  <1>3. Fits(Op(T, k), Region(T, OpReads(k)), Region(T, OpWrites(k)),
             Slot(T, OpOut(k)[1], OpOut(k)[2]), OpParams(T, k))
    BY <1>2, OpFits
  <1>4. Slot(T, OpOut(k)[1], OpOut(k)[2]) \subseteq AllWrites(T, k)
    BY <1>1, <1>3 DEF Fits, AllWrites
  <1>5. AllWrites(T, k) \subseteq Region(T, OpWrites(k))
    BY <1>1, <1>3 DEF Fits, AllWrites
  <1> QED BY <1>1, <1>4, <1>5

LEMMA RegionsApart ==
    ASSUME NEW T \in 1 .. Limit, NEW k \in 1 .. NumOps, NEW m \in 1 .. NumOps, k # m
    PROVE  Region(T, OpWrites(k)) \cap Region(T, OpWrites(m)) = {}
  <1> SUFFICES ASSUME NEW d, d \in Region(T, OpWrites(k)), d \in Region(T, OpWrites(m))
               PROVE  FALSE
    OBVIOUS
  <1>1. PICK s \in OpWrites(k) : d \in Slot(T, s[1], s[2])
    BY DEF Region
  <1>2. PICK p \in OpWrites(m) : d \in Slot(T, p[1], p[2])
    BY DEF Region
  <1>3. /\ s = <<s[1], s[2]>> /\ s[1] \in Tensors /\ s[2] \in 0 .. Copies(s[1]) - 1
        /\ p = <<p[1], p[2]>> /\ p[1] \in Tensors /\ p[2] \in 0 .. Copies(p[1]) - 1
    BY PartsExist
  <1>4. s # p
    BY OneWriter
  <1>5. s[1] # p[1] \/ s[2] # p[2]
    BY <1>3, <1>4
  <1>6. Slot(T, s[1], s[2]) \cap Slot(T, p[1], p[2]) = {}
    BY <1>3, <1>5, SlotsApart
  <1> QED BY <1>1, <1>2, <1>6

\* The data flow of a forward pass (gpt2_forward), whatever its sizes: a layer reads
\* only what earlier layers wrote, it writes nothing an earlier layer wrote, its
\* units write different activations, all of it within the memory for
\* activations and parameters, and the last row of probs is written at the end.
THEOREM DataFlow ==
    ASSUME NEW T \in 1 .. Limit - 1
    PROVE  /\ \A k \in 1 .. NumOps : \A u \in 0 .. Program[T][k].total - 1 :
                 /\ Program[T][k].unit[u].reads \subseteq Earlier(T, k)
                 /\ Program[T][k].unit[u].writes \cap Earlier(T, k) = {}
                 /\ Program[T][k].unit[u].writes \subseteq 0 .. ActsLen[T] - 1
                 /\ T <= maxT => Program[T][k].unit[u].params \subseteq 0 .. ParamsLen - 1
                 /\ \A v \in 0 .. Program[T][k].total - 1 : u # v =>
                       Program[T][k].unit[u].writes \cap Program[T][k].unit[v].writes = {}
           /\ Run(Acts[T].probs + (T - 1) * V, V) \subseteq AllWrites(T, NumOps)
  <1>1. /\ T \in 1 .. Limit /\ T \in Nat \ {0} /\ NumOps \in Nat \ {0} /\ V \in Nat \ {0}
        /\ C \in Nat \ {0} /\ maxT \in Nat
    BY ForwardAssumption DEF NumOps
  <1>2. ASSUME NEW k \in 1 .. NumOps, NEW u \in 0 .. Program[T][k].total - 1
        PROVE  /\ Program[T][k].unit[u].reads \subseteq Earlier(T, k)
               /\ Program[T][k].unit[u].writes \cap Earlier(T, k) = {}
               /\ Program[T][k].unit[u].writes \subseteq 0 .. ActsLen[T] - 1
               /\ T <= maxT => Program[T][k].unit[u].params \subseteq 0 .. ParamsLen - 1
               /\ \A v \in 0 .. Program[T][k].total - 1 : u # v =>
                     Program[T][k].unit[u].writes \cap Program[T][k].unit[v].writes = {}
    <2> DEFINE y == Program[T][k]
    <2>1. Fits(y, Region(T, OpReads(k)), Region(T, OpWrites(k)),
               Slot(T, OpOut(k)[1], OpOut(k)[2]), OpParams(T, k))
      BY <1>1, CallWrites, OpFits
    <2> HIDE DEF y
    <2>2. u \in 0 .. y.total - 1
      BY DEF y
    <2>3. /\ y.unit[u].reads \subseteq Region(T, OpReads(k))
          /\ y.unit[u].writes \subseteq Region(T, OpWrites(k))
          /\ y.unit[u].params \subseteq OpParams(T, k)
          /\ \A v \in 0 .. y.total - 1 : u # v => y.unit[u].writes \cap y.unit[v].writes = {}
      BY <2>1, <2>2 DEF Fits
    <2>4. Region(T, OpReads(k)) \subseteq Earlier(T, k)
      <3> SUFFICES ASSUME NEW d \in Region(T, OpReads(k)) PROVE d \in Earlier(T, k)
        OBVIOUS
      <3>1. PICK s \in OpReads(k) : d \in Slot(T, s[1], s[2])
        BY DEF Region
      <3>2. PICK j \in 1 .. k - 1 : OpOut(j) = s
        BY FilledBefore
      <3>3. j \in 1 .. NumOps
        BY <1>1
      <3>4. d \in AllWrites(T, j)
        BY <3>1, <3>2, <3>3, CallWrites
      <3> QED BY <3>4 DEF Earlier
    <2>5. Region(T, OpWrites(k)) \cap Earlier(T, k) = {}
      <3> SUFFICES ASSUME NEW d \in Region(T, OpWrites(k)), d \in Earlier(T, k) PROVE FALSE
        OBVIOUS
      <3>1. PICK j \in 1 .. k - 1 : d \in AllWrites(T, j)
        BY DEF Earlier
      <3>2. j \in 1 .. NumOps /\ j # k
        BY <1>1
      <3>3. d \in Region(T, OpWrites(j))
        BY <3>1, <3>2, CallWrites
      <3> QED BY <3>2, <3>3, <1>1, RegionsApart
    <2>6. Region(T, OpWrites(k)) \subseteq 0 .. ActsLen[T] - 1
      <3> SUFFICES ASSUME NEW d \in Region(T, OpWrites(k)) PROVE d \in 0 .. ActsLen[T] - 1
        OBVIOUS
      <3>1. PICK s \in OpWrites(k) : d \in Slot(T, s[1], s[2])
        BY DEF Region
      <3>2. s[1] \in Tensors /\ s[2] \in 0 .. Copies(s[1]) - 1
        BY PartsExist
      <3>3. Slot(T, s[1], s[2]) \subseteq 0 .. ActsLen[T] - 1
        BY <3>2, <1>1, SlotInside
      <3> QED BY <3>1, <3>3
    <2>7. ASSUME T <= maxT PROVE OpParams(T, k) \subseteq 0 .. ParamsLen - 1
      <3>1. CASE k = 1
        <4>1. Param.wpe \in Nat /\ Run(Param.wpe, maxT * C) \subseteq 0 .. ParamsLen - 1
          BY OuterParams
        <4>2. T * C <= maxT * C /\ T * C \in Nat /\ maxT * C \in Nat
          BY <2>7, <1>1, TimesMono
        <4>3. Run(Param.wpe, T * C) \subseteq Run(Param.wpe, maxT * C)
          BY <4>1, <4>2 DEF Run
        <4> QED BY <3>1, <4>1, <4>3 DEF OpParams
      <3> QED BY <3>1 DEF OpParams
    <2> QED BY <2>3, <2>4, <2>5, <2>6, <2>7 DEF y
  <1>3. Run(Acts[T].probs + (T - 1) * V, V) \subseteq AllWrites(T, NumOps)
    <2>1. OpOut(NumOps) = <<"probs", 0>> /\ NumOps \in 1 .. NumOps
      BY ForwardAssumption DEF OpOut, NumOps
    <2>2. Slot(T, "probs", 0) = Run(Acts[T].probs, T * V) /\ Acts[T].probs \in Nat
      BY <1>1, SingleOffsets
    <2>3. Run(Acts[T].probs + (T - 1) * V, V) \subseteq Run(Acts[T].probs, T * V)
      <3>1. \A u \in 0 .. T - 1 : Run(Acts[T].probs + u * V, V) \subseteq Run(Acts[T].probs, T * V)
        BY <1>1, <2>2, RowsWithin
      <3>2. T - 1 \in 0 .. T - 1
        BY <1>1
      <3> QED BY <3>1, <3>2
    <2>4. Slot(T, OpOut(NumOps)[1], OpOut(NumOps)[2]) \subseteq AllWrites(T, NumOps)
      BY <2>1, CallWrites
    <2> QED BY <2>1, <2>2, <2>3, <2>4
  <1> QED BY <1>2, <1>3

\* The abbreviations for tuples of variables are always expanded.
USE DEF main, pool

----------------------------------------------------------------------------
(* The inductive invariant.                                                *)

\* parallel_for has set its globals and threads may be at work; after a failed
\* assertion or a crash of main they are for an instant more.
Parallel == {"spawn", "run", "join"}
Inside == Parallel \cup {"abort", "crash"}

Total == Layers[op].total
Number == NumSlices(Total)

\* Where main is, and which tokens are there.
MainOK ==
    /\ pc = "start" => t = 0
    /\ pc = "forward" => t \in 1 .. Limit
    /\ pc \in Inside \cup {"call", "sample"} => t \in 1 .. Limit - 1
    /\ pc = "call" => op \in 1 .. NumOps + 1
    /\ pc \in Inside => op \in 1 .. NumOps
    /\ pc # "start" => \A i \in 0 .. t - 1 : tokens[i] \in 0 .. V - 1

\* The globals belong to the layer main is in and the threads at work to the
\* globals; those that are not joined yet are marked T_LIVE.
PoolOK ==
    /\ work \in [DOMAIN work -> [layer : Nat, begin : Nat, end : Nat]]
    /\ 0 \in DOMAIN work <=> pc = "run"
    /\ DOMAIN work \cap missing = {}
    /\ pc \notin Inside => DOMAIN work = {} /\ live = {}
    /\ pc \in Inside =>
          /\ current.layer = op /\ current.base \in 0 .. n_
          /\ current.slices = [k \in 0 .. Number - 1 |-> Slice(Total, Number, k)]
          /\ n_ - current.base + 1 <= Number
          /\ live \subseteq current.base + 1 .. n_
          /\ DOMAIN work \subseteq {0} \cup live
          /\ pc \in {"run", "join"} => n_ - current.base + 1 = Number
          /\ \A i \in DOMAIN work : (i # 0 /\ work[i] = Fresh) \/ work[i].layer = op

\* Slice k is somebody's: main's when it is the last one.
Owner(k) == IF k = Number - 1 THEN 0 ELSE current.base + k + 1
SliceRange(k) == current.slices[k].begin .. current.slices[k].end - 1

\* What is left of a slice lies in it and is not done, and what is neither left
\* nor done was the slice of a thread that was never made.
SlicesOK ==
    pc \in Inside =>
        /\ units \subseteq 0 .. Total - 1
        /\ \A k \in 0 .. Number - 1 :
              /\ Rest(k) \subseteq SliceRange(k)
              /\ Rest(k) \cap units = {}
              /\ pc \in Parallel /\ Owner(k) \notin missing
                    => SliceRange(k) \subseteq units \cup Rest(k)

Inv == TypeOK /\ MainOK /\ PoolOK /\ SlicesOK

----------------------------------------------------------------------------
(* Slices.                                                                 *)

\* Min is the least number of a set.
LEMMA MinIsLeast ==
    ASSUME NEW T \in SUBSET Nat, T # {}
    PROVE  Min(T) \in T /\ \A y \in T : Min(T) <= y
  <1>1. \E x \in T : \A y \in T : x <= y
    BY LeastNumber
  <1> QED BY <1>1 DEF Min

LEMMA TimesPos ==
    ASSUME NEW a \in Nat \ {0}, NEW b \in Nat \ {0}
    PROVE  a * b \in Nat \ {0}
  OBVIOUS

\* The slices of parallel_for cover the range and do not overlap, also when the
\* span does not divide it and slices at the end are empty.
LEMMA Slicing ==
    ASSUME NEW total \in Nat \ {0}, NEW n \in 1 .. total
    PROVE  /\ \A k \in 0 .. n - 1 : Slice(total, n, k) \in [begin : Nat, end : 0 .. total]
           /\ \A u \in 0 .. total - 1 : \E k \in 0 .. n - 1 :
                 u \in Slice(total, n, k).begin .. Slice(total, n, k).end - 1
           /\ \A k, m \in 0 .. n - 1 : k # m =>
                 (Slice(total, n, k).begin .. Slice(total, n, k).end - 1)
                   \cap (Slice(total, n, m).begin .. Slice(total, n, m).end - 1) = {}
  <1> DEFINE span == Span(total, n)
  <1>1. /\ span \in Nat \ {0} /\ total <= n * span
    <2>1. /\ span \in Nat /\ (total + n - 1) % n \in 0 .. n - 1
          /\ total + n - 1 = n * span + ((total + n - 1) % n)
      <3>1. total + n - 1 \in Nat /\ n \in Nat \ {0}
        OBVIOUS
      <3> QED BY <3>1, DivMod DEF Span
    <2>2. n * span \in Nat /\ total <= n * span
      BY <2>1
    <2>3. span # 0
      BY <2>2, <2>1
    <2> QED BY <2>1, <2>2, <2>3
  <1> HIDE DEF span
  <1>2. \A k \in 0 .. n - 1 :
           /\ Slice(total, n, k).begin = k * span
           /\ Slice(total, n, k).end = IF (k + 1) * span > total THEN total ELSE (k + 1) * span
    BY DEF Slice, SliceEnd, span
  <1>3. \A k \in 0 .. n - 1 : Slice(total, n, k) \in [begin : Nat, end : 0 .. total]
    <2> SUFFICES ASSUME NEW k \in 0 .. n - 1
                 PROVE  Slice(total, n, k) \in [begin : Nat, end : 0 .. total]
      OBVIOUS
    <2>1. k * span \in Nat /\ (k + 1) * span \in Nat
      BY <1>1
    <2>2. SliceEnd(total, n, k) \in 0 .. total
      BY <2>1 DEF SliceEnd, span
    <2> QED BY <2>1, <2>2 DEF Slice, span
  <1>4. ASSUME NEW u \in 0 .. total - 1
        PROVE  \E k \in 0 .. n - 1 :
                  u \in Slice(total, n, k).begin .. Slice(total, n, k).end - 1
    <2> DEFINE k == u \div span
    <2>1. k \in Nat /\ u % span \in 0 .. span - 1 /\ u = span * k + (u % span)
      <3>1. u \in Nat
        OBVIOUS
      <3> QED BY <3>1, <1>1, DivMod
    <2> HIDE DEF k
    <2>2. k < n
      <3>1. SUFFICES ASSUME n <= k PROVE FALSE
        BY <2>1
      <3>2. n * span <= k * span
        BY <3>1, <2>1, <1>1, TimesMono
      <3> QED BY <3>2, <2>1, <1>1
    <2>3. k \in 0 .. n - 1
      BY <2>1, <2>2
    <2>4. k * span <= u /\ u < (k + 1) * span /\ k * span \in Nat /\ (k + 1) * span \in Nat
      BY <2>1, <1>1
    <2>5. u \in Slice(total, n, k).begin .. Slice(total, n, k).end - 1
      BY <2>3, <2>4, <1>2
    <2> QED BY <2>3, <2>5
  <1>5. ASSUME NEW k \in 0 .. n - 1, NEW m \in 0 .. n - 1, k < m
        PROVE  (Slice(total, n, k).begin .. Slice(total, n, k).end - 1)
                 \cap (Slice(total, n, m).begin .. Slice(total, n, m).end - 1) = {}
    <2>1. (k + 1) * span <= m * span /\ (k + 1) * span \in Nat /\ m * span \in Nat
      BY <1>5, <1>1, TimesMono
    <2>2. Slice(total, n, k).end <= Slice(total, n, m).begin
      BY <2>1, <1>2
    <2>3. Slice(total, n, k).end \in Nat /\ Slice(total, n, m).begin \in Nat
          /\ Slice(total, n, k).begin \in Nat /\ Slice(total, n, m).end \in Nat
      BY <1>3
    <2> QED BY <2>2, <2>3
  <1>6. \A k, m \in 0 .. n - 1 : k # m =>
           (Slice(total, n, k).begin .. Slice(total, n, k).end - 1)
             \cap (Slice(total, n, m).begin .. Slice(total, n, m).end - 1) = {}
    <2> SUFFICES ASSUME NEW k \in 0 .. n - 1, NEW m \in 0 .. n - 1, k # m
                 PROVE (Slice(total, n, k).begin .. Slice(total, n, k).end - 1)
                         \cap (Slice(total, n, m).begin .. Slice(total, n, m).end - 1) = {}
      OBVIOUS
    <2>1. k < m \/ m < k
      OBVIOUS
    <2> QED BY <2>1, <1>5
  <1> QED BY <1>3, <1>4, <1>6

\* There is at least one slice, and none has to be empty.
LEMMA SomeSlices ==
    ASSUME NEW total \in Nat \ {0}, worker_count \in 1 .. MAX_WORKERS
    PROVE  /\ NumSlices(total) \in 1 .. total
           /\ NumSlices(total) <= worker_count /\ NumSlices(total) <= MAX_WORKERS
  <1> DEFINE S == {IF worker_count < 1 THEN 1 ELSE worker_count, MAX_WORKERS, total}
  <1>1. S \in SUBSET Nat /\ S # {} /\ \A x \in S : x >= 1
    BY GptAssumption
  <1>2. Min(S) \in S /\ \A y \in S : Min(S) <= y
    <2> HIDE DEF S
    <2> QED BY <1>1, MinIsLeast
  <1>3. NumSlices(total) = Min(S)
    BY DEF NumSlices
  <1>4. worker_count \in S /\ MAX_WORKERS \in S /\ total \in S
    BY GptAssumption
  <1> HIDE DEF S
  <1>5. Min(S) \in Nat /\ Min(S) >= 1
    BY <1>1, <1>2
  <1> QED BY <1>2, <1>3, <1>4, <1>5, GptAssumption

----------------------------------------------------------------------------
(* The layers.                                                             *)

\* The layers of a pass are ten calls for every block between one before and
\* three after them.
LEMMA OpIndex ==
    ASSUME NEW k \in 2 .. 10 * L + 1
    PROVE  (k - 2) \div 10 \in 0 .. L - 1 /\ ((k - 2) % 10) + 1 \in 1 .. 10
  BY ForwardAssumption

\* How many units the kinds of layers have.
LEMMA EncoderTotal == ASSUME NEW T, NEW a PROVE Encoder(T, a).total = T
  BY DEF Encoder, Layer

LEMMA LayernormTotal ==
    ASSUME NEW T, NEW a, NEW b, NEW c, NEW d, NEW e, NEW f
    PROVE  Layernorm(T, a, b, c, d, e, f).total = T
  BY DEF Layernorm, Layer

LEMMA MatmulTotal ==
    ASSUME NEW T, NEW a, NEW b, NEW c, NEW d, NEW e, NEW f
    PROVE  Matmul(T, a, b, c, d, e, f).total = T * f
  BY DEF Matmul, Layer

LEMMA AttentionTotal ==
    ASSUME NEW T, NEW a, NEW b, NEW c, NEW d PROVE Attention(T, a, b, c, d).total = T * NH
  BY DEF Attention, Layer

LEMMA GeluTotal == ASSUME NEW a, NEW b, NEW n PROVE Gelu(a, b, n).total = n
  BY DEF Gelu, Layer

LEMMA ResidualTotal ==
    ASSUME NEW a, NEW b, NEW c, NEW n PROVE Residual(a, b, c, n).total = n
  BY DEF Residual, Layer

LEMMA SoftmaxTotal == ASSUME NEW T, NEW a, NEW b PROVE Softmax(T, a, b).total = T
  BY DEF Softmax, Layer

\* No layer is empty.
LEMMA LayerTotals ==
    ASSUME NEW T \in 1 .. Limit - 1, NEW k \in 1 .. NumOps
    PROVE  Program[T][k].total \in Nat \ {0}
  <1>1. /\ T \in Nat \ {0} /\ C \in Nat \ {0} /\ NH \in Nat \ {0} /\ V \in Nat \ {0}
        /\ L \in Nat \ {0} /\ Limit \in Nat \ {0}
    BY ForwardAssumption
  <1>2. /\ T * C \in Nat \ {0} /\ T * NH \in Nat \ {0} /\ T * V \in Nat \ {0}
        /\ T * (3 * C) \in Nat \ {0} /\ T * (4 * C) \in Nat \ {0} /\ T * 4 * C \in Nat \ {0}
    BY <1>1
  <1>3. Program[T][k] = Op(T, k)
    BY DEF Program
  <1>4. CASE k = 1
    BY <1>1, <1>3, EncoderTotal, <1>4 DEF Op
  <1>5. CASE k \in 2 .. 10 * L + 1
    <2> DEFINE l == (k - 2) \div 10
    <2> DEFINE j == ((k - 2) % 10) + 1
    <2>1. l \in 0 .. L - 1 /\ j \in 1 .. 10
      BY <1>5, OpIndex
    <2>2. Op(T, k) = Block(T, l)[j]
      BY <1>5, <1>1 DEF Op
    <2> HIDE DEF l, j
    <2>3. CASE j = 1
      BY <2>2, <2>3, <1>1, <1>3, LayernormTotal DEF Block
    <2>4. CASE j = 2
      BY <2>2, <2>4, <1>2, <1>3, MatmulTotal DEF Block
    <2>5. CASE j = 3
      BY <2>2, <2>5, <1>2, <1>3, AttentionTotal DEF Block
    <2>6. CASE j = 4
      BY <2>2, <2>6, <1>2, <1>3, MatmulTotal DEF Block
    <2>7. CASE j = 5
      BY <2>2, <2>7, <1>2, <1>3, ResidualTotal DEF Block
    <2>8. CASE j = 6
      BY <2>2, <2>8, <1>1, <1>3, LayernormTotal DEF Block
    <2>9. CASE j = 7
      BY <2>2, <2>9, <1>2, <1>3, MatmulTotal DEF Block
    <2>10. CASE j = 8
      BY <2>2, <2>10, <1>2, <1>3, GeluTotal DEF Block
    <2>11. CASE j = 9
      BY <2>2, <2>11, <1>2, <1>3, MatmulTotal DEF Block
    <2>12. CASE j = 10
      BY <2>2, <2>12, <1>2, <1>3, ResidualTotal DEF Block
    <2> QED BY <2>1, <2>3, <2>4, <2>5, <2>6, <2>7, <2>8, <2>9, <2>10, <2>11, <2>12
  <1>6. CASE k = 10 * L + 2
    BY <1>1, <1>3, LayernormTotal, <1>6 DEF Op
  <1>7. CASE k = 10 * L + 3
    BY <1>1, <1>2, <1>3, MatmulTotal, <1>7 DEF Op
  <1>8. CASE k = 10 * L + 4
    BY <1>1, <1>3, SoftmaxTotal, <1>8 DEF Op
  <1> QED BY <1>4, <1>5, <1>6, <1>7, <1>8, <1>1 DEF NumOps

----------------------------------------------------------------------------
(* What is left of a slice.                                                *)

\* Inside a call of parallel_for there is work for every slice, and a worker
\* for every slice.
LEMMA NumberFacts ==
    ASSUME TypeOK, MainOK, PoolOK, pc \in Inside
    PROVE  /\ Total \in Nat \ {0} /\ Number \in 1 .. Total
           /\ Number <= worker_count /\ Number <= MAX_WORKERS
           /\ DOMAIN current.slices = 0 .. Number - 1
           /\ Cardinality(DOMAIN current.slices) = Number
  <1>1. Total \in Nat \ {0}
    BY LayerTotals DEF Total, Layers, MainOK
  <1>2. worker_count \in 1 .. MAX_WORKERS
    BY DEF TypeOK
  <1>3. Number \in 1 .. Total /\ Number <= worker_count /\ Number <= MAX_WORKERS
    BY <1>1, <1>2, SomeSlices DEF Number
  <1>4. DOMAIN current.slices = 0 .. Number - 1
    BY DEF PoolOK
  <1>5. Cardinality(0 .. Number - 1) = Number
    <2>1. 0 \in Int /\ Number - 1 \in Int /\ Number \in Int
      BY <1>1, <1>3
    <2>2. Cardinality(0 .. Number - 1)
            = IF 0 > Number - 1 THEN 0 ELSE (Number - 1) - 0 + 1
      BY <2>1, FS_Interval
    <2> QED BY <2>2, <1>3
  <1> QED BY <1>1, <1>3, <1>4, <1>5

\* The slices themselves: they are what Slicing says.
LEMMA SliceFacts ==
    ASSUME TypeOK, MainOK, PoolOK, pc \in Inside
    PROVE  /\ \A k \in 0 .. Number - 1 :
                 current.slices[k] \in [begin : Nat, end : 0 .. Total]
           /\ \A u \in 0 .. Total - 1 : \E k \in 0 .. Number - 1 : u \in SliceRange(k)
           /\ \A k, m \in 0 .. Number - 1 : k # m => SliceRange(k) \cap SliceRange(m) = {}
  <1>1. Total \in Nat \ {0} /\ Number \in 1 .. Total
    BY NumberFacts
  <1>2. \A k \in 0 .. Number - 1 : current.slices[k] = Slice(Total, Number, k)
    BY DEF PoolOK
  <1>3. /\ \A k \in 0 .. Number - 1 : Slice(Total, Number, k) \in [begin : Nat, end : 0 .. Total]
        /\ \A u \in 0 .. Total - 1 : \E k \in 0 .. Number - 1 :
              u \in Slice(Total, Number, k).begin .. Slice(Total, Number, k).end - 1
        /\ \A k, m \in 0 .. Number - 1 : k # m =>
              (Slice(Total, Number, k).begin .. Slice(Total, Number, k).end - 1)
                \cap (Slice(Total, Number, m).begin .. Slice(Total, Number, m).end - 1) = {}
    BY <1>1, Slicing
  <1>4. \A k \in 0 .. Number - 1 :
           SliceRange(k) = Slice(Total, Number, k).begin .. Slice(Total, Number, k).end - 1
    BY <1>2 DEF SliceRange
  <1>5. \A k \in 0 .. Number - 1 : current.slices[k] \in [begin : Nat, end : 0 .. Total]
    BY <1>2, <1>3, Zenon
  <1>6. ASSUME NEW u \in 0 .. Total - 1
        PROVE  \E k \in 0 .. Number - 1 : u \in SliceRange(k)
    <2>1. PICK k \in 0 .. Number - 1 :
             u \in Slice(Total, Number, k).begin .. Slice(Total, Number, k).end - 1
      BY <1>3
    <2> QED BY <2>1, <1>4
  <1>7. ASSUME NEW k \in 0 .. Number - 1, NEW m \in 0 .. Number - 1, k # m
        PROVE  SliceRange(k) \cap SliceRange(m) = {}
    <2>1. (Slice(Total, Number, k).begin .. Slice(Total, Number, k).end - 1)
            \cap (Slice(Total, Number, m).begin .. Slice(Total, Number, m).end - 1) = {}
      BY <1>3, <1>7
    <2>2. /\ SliceRange(k) = Slice(Total, Number, k).begin .. Slice(Total, Number, k).end - 1
          /\ SliceRange(m) = Slice(Total, Number, m).begin .. Slice(Total, Number, m).end - 1
      BY <1>4
    <2> QED BY <2>1, <2>2
  <1> QED BY <1>5, <1>6, <1>7

\* Whether the owner of slice k was started.
Begun(k) == IF k = Number - 1 THEN pc # "spawn" ELSE Owner(k) <= n_

LEMMA RestNow ==
    ASSUME TypeOK, MainOK, PoolOK, pc \in Inside, NEW k \in 0 .. Number - 1
    PROVE  Rest(k) = IF Begun(k) /\ Owner(k) \notin DOMAIN work THEN {}
                     ELSE IF Begun(k) /\ work[Owner(k)] # Fresh
                          THEN work[Owner(k)].begin .. work[Owner(k)].end - 1
                          ELSE SliceRange(k)
  <1>1. Cardinality(DOMAIN current.slices) = Number
    BY NumberFacts
  <1> QED BY <1>1 DEF Rest, Begun, Owner, SliceRange

\* A step within a call: the slices are the same.
SameCall == UNCHANGED <<t, op, worker_count, current>>

LEMMA SameSlices ==
    ASSUME SameCall
    PROVE  /\ Total' = Total /\ Number' = Number /\ Layers' = Layers
           /\ \A k : Owner(k)' = Owner(k) /\ SliceRange(k)' = SliceRange(k)
           /\ \A total : NumSlices(total)' = NumSlices(total)
  BY DEF SameCall, Total, Number, Layers, Owner, SliceRange, NumSlices

LEMMA RestNext ==
    ASSUME TypeOK, MainOK, PoolOK, pc \in Inside, SameCall, NEW k \in 0 .. Number - 1
    PROVE  Rest(k)' = IF Begun(k)' /\ Owner(k) \notin DOMAIN work' THEN {}
                      ELSE IF Begun(k)' /\ work'[Owner(k)] # Fresh
                           THEN work'[Owner(k)].begin .. work'[Owner(k)].end - 1
                           ELSE SliceRange(k)
  <1>1. Cardinality(DOMAIN current'.slices) = Number
    BY NumberFacts DEF SameCall
  <1>2. /\ Number' = Number /\ Owner(k)' = Owner(k) /\ SliceRange(k)' = SliceRange(k)
    BY SameSlices
  <1> QED BY <1>1, <1>2 DEF Rest, Begun, Owner, SliceRange

LEMMA OwnerFacts ==
    ASSUME TypeOK, MainOK, PoolOK, pc \in Inside
    PROVE  /\ \A k \in 0 .. Number - 1 :
                 Owner(k) \in Nat /\ (Owner(k) = 0 <=> k = Number - 1)
           /\ \A k, m \in 0 .. Number - 1 : Owner(k) = Owner(m) => k = m
           /\ \A i \in current.base + 1 .. n_ :
                 i - current.base - 1 \in 0 .. Number - 2 /\ Owner(i - current.base - 1) = i
  <1>1. Total \in Nat \ {0} /\ Number \in 1 .. Total
    BY NumberFacts
  <1>2. current.base \in 0 .. n_ /\ n_ \in Nat /\ n_ - current.base + 1 <= Number
    BY GptAssumption DEF TypeOK, PoolOK
  <1> QED BY <1>1, <1>2 DEF Owner

\* Whoever is at work has a slice of the call.
LEMMA HasSlice ==
    ASSUME TypeOK, MainOK, PoolOK, pc \in Inside, NEW i \in DOMAIN work
    PROVE  \E own \in 0 .. Number - 1 : Owner(own) = i /\ Begun(own)
  <1>1. /\ n_ \in Nat /\ current.base \in 0 .. n_
        /\ live \subseteq current.base + 1 .. n_ /\ DOMAIN work \subseteq {0} \cup live
    <2>1. n_ \in Nat
      BY GptAssumption DEF TypeOK
    <2> QED BY <2>1 DEF PoolOK
  <1>2. Total \in Nat \ {0} /\ Number \in 1 .. Total
    BY NumberFacts
  <1>3. CASE i = 0
    <2>1. pc # "spawn"
      BY <1>3 DEF PoolOK
    <2> QED BY <1>2, <1>3, <2>1 DEF Owner, Begun
  <1>4. CASE i # 0
    <2>1. i \in current.base + 1 .. n_
      BY <1>1, <1>4
    <2>2. i - current.base - 1 \in 0 .. Number - 2 /\ Owner(i - current.base - 1) = i
      BY <2>1, OwnerFacts
    <2>3. i - current.base - 1 \in 0 .. Number - 1 /\ i - current.base - 1 # Number - 1
      BY <2>2, <1>2
    <2>4. Begun(i - current.base - 1)
      BY <2>1, <2>2, <2>3 DEF Begun
    <2> QED BY <2>2, <2>3, <2>4
  <1> QED BY <1>3, <1>4

\* The slices stay in order when nobody's part grows and nothing is computed.
LEMMA SlicesStep ==
    ASSUME SlicesOK, pc \in Inside, SameCall, units' = units, missing \subseteq missing',
           pc' \in Parallel => pc \in Parallel,
           \A k \in 0 .. Number - 1 :
              /\ Rest(k)' \subseteq Rest(k)
              /\ pc' \in Parallel /\ Owner(k) \notin missing' => Rest(k)' = Rest(k)
    PROVE  SlicesOK'
  <1>1. /\ Total' = Total /\ Number' = Number
        /\ \A k : Owner(k)' = Owner(k) /\ SliceRange(k)' = SliceRange(k)
    BY SameSlices
  <1>2. units \subseteq 0 .. Total - 1
    BY DEF SlicesOK
  <1>3. ASSUME NEW k \in 0 .. Number - 1
        PROVE  /\ Rest(k)' \subseteq SliceRange(k)
               /\ Rest(k)' \cap units = {}
               /\ pc' \in Parallel /\ Owner(k) \notin missing'
                     => SliceRange(k) \subseteq units \cup Rest(k)'
    BY DEF SlicesOK
  <1> QED BY <1>1, <1>2, <1>3 DEF SlicesOK

----------------------------------------------------------------------------
(* The invariant is inductive.                                             *)

LEMMA InitInv == Init => Inv
  <1> SUFFICES ASSUME Init PROVE Inv
    OBVIOUS
  <1>1. TypeOK
    BY GptAssumption, ForwardAssumption DEF Init, TypeOK, NumOps
  <1>2. DOMAIN work = {}
    BY DEF Init
  <1>3. MainOK /\ PoolOK /\ SlicesOK
    BY <1>2 DEF Init, MainOK, PoolOK, SlicesOK, Inside, Parallel
  <1> QED BY <1>1, <1>3 DEF Inv

\* Steps of main between the calls of parallel_for.
LEMMA OutsideInv ==
    ASSUME Inv, pc \notin Inside, pc' \notin Inside, UNCHANGED <<pool, work, worker_count>>,
           TypeOK', MainOK'
    PROVE  Inv'
  <1>1. DOMAIN work = {} /\ live = {}
    BY DEF Inv, PoolOK
  <1>2. pc # "run" /\ pc' # "run"
    BY DEF Inside, Parallel
  <1>3. PoolOK'
    BY <1>1, <1>2 DEF Inv, PoolOK
  <1>4. SlicesOK'
    BY DEF SlicesOK, Inside
  <1> QED BY <1>3, <1>4 DEF Inv

LEMMA ParseArgsInv ==
    ASSUME Inv, NEW args \in BoundedSeq(RawTokens, Limit), ParseArgs(args)
    PROVE  Inv'
  <1> USE ForwardAssumption, GptAssumption
  <1>0. args \in Seq(RawTokens)
    <2>1. PICK m \in 0 .. Limit : args \in [1 .. m -> RawTokens]
      BY DEF BoundedSeq, SeqOf
    <2> QED BY <2>1
  <1>1. CASE Len(args) \in 1 .. Limit - 1 /\ \A i \in DOMAIN args : ParseToken(args[i])
    <2>1. /\ pc' = "forward" /\ t' = Len(args) /\ t' \in 1 .. Limit - 1
          /\ tokens' = [i \in 0 .. Limit - 1 |->
                             IF i + 1 \in DOMAIN args THEN args[i + 1] ELSE EOT]
      BY <1>1 DEF ParseArgs
    <2>2. tokens' \in [0 .. Limit - 1 -> (0 .. V - 1) \cup {EOT}]
      BY <2>1, <1>1 DEF ParseToken
    <2>3. TypeOK'
      BY <2>1, <2>2 DEF Inv, TypeOK, ParseArgs
    <2>4. \A i \in 0 .. t' - 1 : tokens'[i] \in 0 .. V - 1
      <3> SUFFICES ASSUME NEW i \in 0 .. t' - 1 PROVE tokens'[i] \in 0 .. V - 1
        OBVIOUS
      <3>1. i \in 0 .. Limit - 1 /\ i + 1 \in 1 .. Len(args)
        BY <2>1
      <3>2. i + 1 \in DOMAIN args
        BY <3>1, <1>0
      <3>3. tokens'[i] = args[i + 1]
        BY <3>1, <3>2, <2>1
      <3> QED BY <3>2, <3>3, <1>1 DEF ParseToken
    <2>5. MainOK'
      <3>1. t' \in 1 .. Limit
        BY <2>1
      <3> QED BY <3>1, <2>1, <2>4 DEF MainOK, Inside, Parallel
    <2> QED BY <2>1, <2>3, <2>5, OutsideInv DEF ParseArgs, Inside, Parallel
  <1>2. CASE ~ (Len(args) \in 1 .. Limit - 1 /\ \A i \in DOMAIN args : ParseToken(args[i]))
    <2>1. pc' = "exit" /\ tokens' = tokens /\ t' = t /\ t = 0
      BY <1>2 DEF ParseArgs, Inv, MainOK
    <2>3. TypeOK'
      BY <2>1 DEF Inv, TypeOK, ParseArgs
    <2>4. MainOK'
      BY <2>1 DEF MainOK, Inside, Parallel
    <2> QED BY <2>1, <2>3, <2>4, OutsideInv DEF ParseArgs, Inside, Parallel
  <1> QED BY <1>1, <1>2

LEMMA ForwardInv ==
    ASSUME Inv, Forward
    PROVE  Inv'
  <1> USE ForwardAssumption, GptAssumption
  <1>1. /\ t \in 1 .. Limit /\ op' = 1 /\ NumOps \in Nat /\ NumOps >= 14
        /\ pc' \in {"call", "exit"} /\ (pc' = "call" => t < Limit)
    BY DEF Inv, MainOK, Forward, NumOps
  <1>2. TypeOK'
    BY <1>1 DEF Inv, TypeOK, Forward
  <1>3. \A i \in 0 .. t - 1 : tokens[i] \in 0 .. V - 1
    BY DEF Inv, MainOK, Forward
  <1>4. MainOK'
    BY <1>1, <1>3 DEF MainOK, Forward, Inside, Parallel
  <1> QED BY <1>1, <1>2, <1>4, OutsideInv DEF Forward, Inside, Parallel

LEMMA SampleMultInv ==
    ASSUME Inv, NEW token \in Sampled, SampleMult(token)
    PROVE  Inv'
  <1> USE ForwardAssumption, GptAssumption
  <1>1. /\ t \in 1 .. Limit - 1 /\ t' = t + 1 /\ pc' = "forward"
        /\ tokens' = [tokens EXCEPT ![t] = token] /\ token \in 0 .. V - 1
        /\ tokens \in [0 .. Limit - 1 -> (0 .. V - 1) \cup {EOT}]
    BY DEF Inv, MainOK, TypeOK, SampleMult, Sampled
  <1>2. TypeOK'
    BY <1>1 DEF Inv, TypeOK, SampleMult
  <1>3. \A i \in 0 .. t - 1 : tokens[i] \in 0 .. V - 1
    BY DEF Inv, MainOK, SampleMult
  <1>4. MainOK'
    BY <1>1, <1>3 DEF MainOK, Inside, Parallel
  <1> QED BY <1>1, <1>2, <1>4, OutsideInv DEF SampleMult, Inside, Parallel

\* parallel_for sets up its globals, or the pass is at its end.
LEMMA CallInv ==
    ASSUME Inv, Call
    PROVE  Inv'
  <1> USE ForwardAssumption, GptAssumption
  <1>1. /\ t \in 1 .. Limit - 1 /\ op \in 1 .. NumOps + 1 /\ NumOps \in Nat
        /\ pc = "call" /\ DOMAIN work = {} /\ live = {}
        /\ \A i \in 0 .. t - 1 : tokens[i] \in 0 .. V - 1
    BY DEF Inv, MainOK, PoolOK, Call, NumOps, Inside, Parallel
  <1>2. CASE op > NumOps
    <2>1. pc' = "sample" /\ UNCHANGED current
      BY <1>2 DEF Call
    <2>2. TypeOK'
      BY <2>1 DEF Inv, TypeOK, Call
    <2>3. MainOK'
      BY <2>1, <1>1 DEF MainOK, Call, Inside, Parallel
    <2> QED BY <2>1, <2>2, <2>3, OutsideInv DEF Call, Inside, Parallel
  <1>3. CASE ~ (op > NumOps)
    <2>1. /\ pc' = "spawn" /\ op \in 1 .. NumOps
          /\ current' = [layer |-> op, base |-> n_,
                         slices |-> [i \in 0 .. Number - 1 |-> Slice(Total, Number, i)]]
      BY <1>1, <1>3 DEF Call, Total, Number
    <2>2. TypeOK'
      BY <2>1 DEF Inv, TypeOK, Call
    <2>3. MainOK'
      BY <2>1, <1>1 DEF MainOK, Call, Inside, Parallel
    <2>4. Total' = Total /\ Number' = Number
      BY DEF Call, Total, Number, NumSlices, Layers
    <2>5. Total \in Nat \ {0} /\ Number \in 1 .. Total
      <3>1. Total \in Nat \ {0}
        BY <1>1, <2>1, LayerTotals DEF Total, Layers
      <3>2. worker_count \in 1 .. MAX_WORKERS
        BY DEF Inv, TypeOK
      <3> QED BY <3>1, <3>2, SomeSlices DEF Number
    <2>6. n_ \in Nat
      BY DEF Inv, TypeOK
    <2>7. /\ current'.layer = op /\ current'.base = n_
          /\ current'.slices = [i \in 0 .. Number - 1 |-> Slice(Total, Number, i)]
      BY <2>1
    <2>8. PoolOK'
      <3>1. /\ pc' = "spawn" /\ UNCHANGED << op, n_, live, missing, work >>
            /\ DOMAIN work = {} /\ live = {} /\ pc # "run"
            /\ work \in [DOMAIN work -> [layer : Nat, begin : Nat, end : Nat]]
        BY <1>1, <2>1 DEF Inv, PoolOK, Call, Inside, Parallel
      <3>2. n_ \in 0 .. n_ /\ n_ - n_ + 1 <= Number BY <2>5, <2>6
      <3> QED BY <2>4, <2>7, <3>1, <3>2 DEF PoolOK, Inside, Parallel
    <2>9. ASSUME NEW k \in 0 .. Number - 1
          PROVE  Rest(k)' = SliceRange(k)'
      <3>1. Cardinality(DOMAIN current'.slices) = Number
        <4>1. DOMAIN current'.slices = 0 .. Number - 1
          BY <2>7
        <4>2. 0 \in Int /\ Number - 1 \in Int
          BY <2>5
        <4>3. Cardinality(0 .. Number - 1)
                = IF 0 > Number - 1 THEN 0 ELSE (Number - 1) - 0 + 1
          BY <4>2, FS_Interval
        <4> QED BY <4>1, <4>3, <2>5
      <3>2. ~ (current'.base + k + 1 <= n_')
        BY <2>6, <2>7, <2>5 DEF Call
      <3> QED BY <3>1, <3>2, <2>1 DEF Rest, SliceRange
    <2>10. units' = {}
      BY DEF Call
    <2>11. SlicesOK'
      BY <2>4, <2>9, <2>10 DEF SlicesOK
    <2> QED BY <2>2, <2>3, <2>8, <2>11 DEF Inv
  <1> QED BY <1>2, <1>3

\* A step within a call, by main or by a thread.
LEMMA SameMain ==
    ASSUME MainOK, pc \in Inside, pc' \in Inside, SameCall, tokens' = tokens
    PROVE  MainOK'
  BY DEF MainOK, SameCall, Inside, Parallel

LEMMA SpawnInv ==
    ASSUME Inv, Spawn
    PROVE  Inv'
  <1> USE ForwardAssumption, GptAssumption
  <1>1. pc = "spawn" /\ pc \in Inside /\ pc \in Parallel /\ TypeOK /\ MainOK /\ PoolOK
    BY DEF Spawn, Inv, Inside, Parallel
  <1>2. SameCall /\ tokens' = tokens /\ units' = units
    BY DEF Spawn, SameCall
  <1>3. /\ Total \in Nat \ {0} /\ Number \in 1 .. Total
        /\ Cardinality(DOMAIN current.slices) = Number
    BY <1>1, NumberFacts
  <1>4. /\ n_ - current.base + 1 < Number
    BY <1>3 DEF Spawn, SpawnsLeft
  <1>5. /\ n_ \in 0 .. MAX_THREADS /\ live \subseteq 1 .. n_ /\ missing \subseteq 1 .. n_
        /\ DOMAIN work \subseteq 0 .. n_ /\ current.base \in 0 .. n_
        /\ live \subseteq current.base + 1 .. n_
    BY <1>1 DEF TypeOK, PoolOK
  <1>6. Total' = Total /\ Number' = Number
    BY <1>2, SameSlices
  <1>7. CASE ~ HasRoom
    <2>1. pc' = "abort" /\ UNCHANGED <<n_, live, missing, work>>
      BY <1>7 DEF Spawn
    <2>2. TypeOK'
      BY <1>1, <1>2, <2>1 DEF TypeOK, SameCall
    <2>3. pc' \in Inside /\ pc' \notin Parallel
      BY <2>1 DEF Inside, Parallel
    <2>4. MainOK'
      BY <1>1, <1>2, <2>3, SameMain
    <2>5. PoolOK'
      BY <1>1, <1>2, <1>6, <2>1, <2>3 DEF PoolOK, SameCall
    <2>6. ASSUME NEW k \in 0 .. Number - 1
          PROVE  Rest(k)' \subseteq Rest(k)
      <3>1. Rest(k) = IF Begun(k) /\ Owner(k) \notin DOMAIN work THEN {}
                     ELSE IF Begun(k) /\ work[Owner(k)] # Fresh
                          THEN work[Owner(k)].begin .. work[Owner(k)].end - 1
                          ELSE SliceRange(k)
        BY <1>1, RestNow
      <3>2. Rest(k)' = IF Begun(k)' /\ Owner(k) \notin DOMAIN work' THEN {}
                      ELSE IF Begun(k)' /\ work'[Owner(k)] # Fresh
                           THEN work'[Owner(k)].begin .. work'[Owner(k)].end - 1
                           ELSE SliceRange(k)
        BY <1>1, <1>2, RestNext
      <3>3. Owner(k)' = Owner(k)
        BY <1>2, SameSlices
      <3>4. CASE k = Number - 1
        <4>1. Begun(k)' /\ Owner(k) = 0 /\ 0 \notin DOMAIN work'
          BY <3>4, <1>1, <1>6, <2>1 DEF Begun, Owner, PoolOK
        <4> QED BY <3>2, <4>1
      <3>5. CASE k # Number - 1
        <4>1. Begun(k)' = Begun(k)
          BY <3>3, <3>5, <1>6, <2>1 DEF Begun
        <4> QED BY <3>1, <3>2, <4>1, <2>1
      <3> QED BY <3>4, <3>5
    <2>7. SlicesOK'
      BY <1>1, <1>2, <2>1, <2>3, <2>6, SlicesStep DEF Inv
    <2> QED BY <2>2, <2>4, <2>5, <2>7 DEF Inv
  <1>8. CASE HasRoom
    <2> DEFINE new == n_ + 1
    <2>1. /\ n_' = new /\ live' = live \cup {new} /\ pc' = "spawn" /\ n_ < MAX_THREADS
          /\ \/ /\ work' = [i \in DOMAIN work \cup {new} |-> IF i = new THEN Fresh ELSE work[i]]
                /\ missing' = missing
             \/ work' = work /\ missing' = missing \cup {new}
      BY <1>1, <1>8 DEF Spawn, HasRoom
    <2>2. pc' \in Inside /\ pc' \in Parallel
      BY <2>1 DEF Inside, Parallel
    <2>3. new \notin DOMAIN work /\ new \notin missing /\ new # 0
      BY <1>5
    <2>4. TypeOK'
      <3>1. n_' \in 0 .. MAX_THREADS /\ live' \subseteq 1 .. n_' /\ missing' \subseteq 1 .. n_'
        BY <1>5, <2>1
      <3>2. DOMAIN work' \subseteq 0 .. n_'
        BY <1>5, <2>1
      <3> QED BY <3>1, <3>2, <1>1, <1>2, <2>1 DEF TypeOK, SameCall
    <2>5. MainOK'
      BY <1>1, <1>2, <2>2, SameMain
    <2>6. PoolOK'
      <3>1. work' \in [DOMAIN work' -> [layer : Nat, begin : Nat, end : Nat]]
        BY <1>1, <2>1 DEF PoolOK, Fresh
      <3>2. 0 \notin DOMAIN work /\ 0 \notin DOMAIN work'
        BY <1>1, <2>1, <2>3 DEF PoolOK
      <3>3. DOMAIN work' \cap missing' = {}
        BY <1>1, <2>1, <2>3 DEF PoolOK
      <3>4. /\ current.layer = op
            /\ current.slices = [k \in 0 .. Number - 1 |-> Slice(Total, Number, k)]
            /\ DOMAIN work \subseteq {0} \cup live
            /\ \A i \in DOMAIN work : (i # 0 /\ work[i] = Fresh) \/ work[i].layer = op
        BY <1>1 DEF PoolOK
      <3>5. DOMAIN work' \subseteq {0} \cup live'
        BY <3>4, <2>1
      <3>6. \A i \in DOMAIN work' : (i # 0 /\ work'[i] = Fresh) \/ work'[i].layer = op
        BY <3>4, <2>1, <2>3
      <3>7. /\ live' \subseteq current.base + 1 .. n_' /\ current.base \in 0 .. n_'
            /\ n_' - current.base + 1 <= Number
        BY <1>3, <1>4, <1>5, <2>1
      <3> QED BY <3>1, <3>2, <3>3, <3>4, <3>5, <3>6, <3>7, <1>2, <1>6, <2>1, <2>2
              DEF PoolOK, SameCall
    <2>7. ASSUME NEW k \in 0 .. Number - 1
          PROVE  Rest(k)' \subseteq Rest(k) /\ (Owner(k) \notin missing' => Rest(k)' = Rest(k))
      <3>1. Rest(k) = IF Begun(k) /\ Owner(k) \notin DOMAIN work THEN {}
                     ELSE IF Begun(k) /\ work[Owner(k)] # Fresh
                          THEN work[Owner(k)].begin .. work[Owner(k)].end - 1
                          ELSE SliceRange(k)
        BY <1>1, RestNow
      <3>2. Rest(k)' = IF Begun(k)' /\ Owner(k) \notin DOMAIN work' THEN {}
                      ELSE IF Begun(k)' /\ work'[Owner(k)] # Fresh
                           THEN work'[Owner(k)].begin .. work'[Owner(k)].end - 1
                           ELSE SliceRange(k)
        BY <1>1, <1>2, RestNext
      <3>3. Owner(k)' = Owner(k)
        BY <1>2, SameSlices
      <3>4. CASE Owner(k) = new
        <4>1. ~ Begun(k) /\ Begun(k)'
          BY <3>3, <3>4, <1>5, <1>6, <2>1, <2>3 DEF Begun, Owner
        <4>2. \/ Owner(k) \in DOMAIN work' /\ work'[Owner(k)] = Fresh
              \/ Owner(k) \in missing' /\ Owner(k) \notin DOMAIN work'
          BY <3>4, <2>1, <2>3
        <4> QED BY <3>1, <3>2, <4>1, <4>2
      <3>5. CASE Owner(k) # new
        <4>1. Owner(k) \in Nat
          BY <1>1, OwnerFacts
        <4>2. Begun(k)' = Begun(k)
          <5>1. Owner(k) <= n_' <=> Owner(k) <= n_
            BY <4>1, <3>5, <1>5, <2>1
          <5> QED BY <5>1, <3>3, <1>1, <1>6, <2>1 DEF Begun
        <4>3. (Owner(k) \in DOMAIN work' <=> Owner(k) \in DOMAIN work)
              /\ (Owner(k) \in DOMAIN work => work'[Owner(k)] = work[Owner(k)])
          BY <3>5, <2>1
        <4> QED BY <3>1, <3>2, <4>2, <4>3
      <3> QED BY <3>4, <3>5
    <2>8. missing \subseteq missing'
      BY <2>1
    <2>9. SlicesOK'
      BY <1>1, <1>2, <2>7, <2>8, SlicesStep DEF Inv
    <2> QED BY <2>4, <2>5, <2>6, <2>9 DEF Inv
  <1> QED BY <1>7, <1>8

LEMMA RunMainInv ==
    ASSUME Inv, RunMain
    PROVE  Inv'
  <1> USE ForwardAssumption, GptAssumption
  <1>1. /\ pc = "spawn" /\ pc \in Inside /\ pc \in Parallel /\ TypeOK /\ MainOK /\ PoolOK
        /\ pc' = "run" /\ pc' \in Inside
    BY DEF RunMain, Inv, Inside, Parallel
  <1>2. SameCall /\ tokens' = tokens /\ units' = units /\ UNCHANGED <<n_, live, missing>>
    BY DEF RunMain, SameCall
  <1>3. /\ Total \in Nat \ {0} /\ Number \in 1 .. Total
        /\ Cardinality(DOMAIN current.slices) = Number
    BY <1>1, NumberFacts
  <1>4. /\ n_ \in 0 .. MAX_THREADS /\ missing \subseteq 1 .. n_ /\ DOMAIN work \subseteq 0 .. n_
        /\ current.base \in 0 .. n_ /\ n_ - current.base + 1 <= Number
    BY <1>1 DEF TypeOK, PoolOK
  <1>5. n_ - current.base + 1 = Number
    BY <1>3, <1>4 DEF RunMain, SpawnsLeft
  <1>6. Total' = Total /\ Number' = Number
    BY <1>2, SameSlices
  <1> DEFINE s == current.slices[Number - 1]
  <1> DEFINE mine == [layer |-> op, begin |-> s.begin, end |-> s.end]
  <1>7. work' = [i \in DOMAIN work \cup {0} |-> IF i # 0 THEN work[i] ELSE mine]
    BY <1>3 DEF RunMain
  <1>8. mine \in [layer : Nat, begin : Nat, end : Nat] /\ mine.layer = op /\ op \in 1 .. NumOps
        /\ mine.begin = s.begin /\ mine.end = s.end
    <2>1. s \in [begin : Nat, end : 0 .. Total]
      BY <1>1, <1>3, SliceFacts
    <2>2. op \in 1 .. NumOps
      BY <1>1 DEF MainOK
    <2> QED BY <2>1, <2>2, <1>3
  <1> HIDE DEF mine, s
  <1>9. /\ DOMAIN work' = DOMAIN work \cup {0} /\ work'[0] = mine
        /\ \A i \in DOMAIN work : i # 0 => work'[i] = work[i]
    BY <1>7
  <1>10. TypeOK'
    <2>1. DOMAIN work' \subseteq 0 .. n_
      BY <1>4, <1>9
    <2> QED BY <2>1, <1>1, <1>2 DEF TypeOK, SameCall
  <1>11. MainOK'
    BY <1>1, <1>2, SameMain
  <1>12. PoolOK'
    <2>1. work' \in [DOMAIN work' -> [layer : Nat, begin : Nat, end : Nat]]
      BY <1>1, <1>7, <1>8 DEF PoolOK
    <2>2. 0 \notin missing /\ DOMAIN work' \cap missing' = {}
      BY <1>1, <1>2, <1>4, <1>9 DEF PoolOK
    <2>3. \A i \in DOMAIN work' : (i # 0 /\ work'[i] = Fresh) \/ work'[i].layer = op
      BY <1>1, <1>8, <1>9 DEF PoolOK
    <2> QED BY <2>1, <2>2, <2>3, <1>1, <1>2, <1>5, <1>6, <1>9 DEF PoolOK, SameCall
  <1>13. ASSUME NEW k \in 0 .. Number - 1
         PROVE  Rest(k)' = Rest(k)
    <2>1. Rest(k) = IF Begun(k) /\ Owner(k) \notin DOMAIN work THEN {}
                   ELSE IF Begun(k) /\ work[Owner(k)] # Fresh
                        THEN work[Owner(k)].begin .. work[Owner(k)].end - 1
                        ELSE SliceRange(k)
      BY <1>1, RestNow
    <2>2. Rest(k)' = IF Begun(k)' /\ Owner(k) \notin DOMAIN work' THEN {}
                    ELSE IF Begun(k)' /\ work'[Owner(k)] # Fresh
                         THEN work'[Owner(k)].begin .. work'[Owner(k)].end - 1
                         ELSE SliceRange(k)
      BY <1>1, <1>2, RestNext
    <2>3. Owner(k)' = Owner(k)
      BY <1>2, SameSlices
    <2>4. CASE k = Number - 1
      <3>1. ~ Begun(k) /\ Begun(k)' /\ Owner(k) = 0
        BY <2>4, <1>1, <1>6 DEF Begun, Owner
      <3>2. work'[0] # Fresh
        BY <1>8, <1>9 DEF Fresh
      <3>3. work'[0].begin .. work'[0].end - 1 = SliceRange(k)
        BY <2>4, <1>8, <1>9 DEF SliceRange, s
      <3> QED BY <2>1, <2>2, <3>1, <3>2, <3>3, <1>9
    <2>5. CASE k # Number - 1
      <3>1. Begun(k)' = Begun(k)
        BY <2>3, <2>5, <1>2, <1>6 DEF Begun
      <3>2. Owner(k) # 0
        BY <2>5, <1>1, OwnerFacts
      <3> QED BY <2>1, <2>2, <3>1, <3>2, <1>9
    <2> QED BY <2>4, <2>5
  <1>14. SlicesOK'
    BY <1>1, <1>2, <1>13, SlicesStep DEF Inv
  <1> QED BY <1>10, <1>11, <1>12, <1>14 DEF Inv

\* A thread takes its slice, which is still there and is its own.
LEMMA RangeWorkerInv ==
    ASSUME Inv, NEW i \in DOMAIN work, RangeWorker(i)
    PROVE  Inv'
  <1> USE ForwardAssumption, GptAssumption
  <1>1. TypeOK /\ MainOK /\ PoolOK /\ pc \in Inside /\ pc' = pc /\ pc' \in Inside
    BY DEF RangeWorker, Inv, PoolOK
  <1>2. SameCall /\ tokens' = tokens /\ units' = units /\ UNCHANGED <<n_, live, missing>>
    BY DEF RangeWorker, SameCall
  <1>3. /\ Total \in Nat \ {0} /\ Number \in 1 .. Total /\ Number <= worker_count
        /\ worker_count \in Nat
    BY <1>1, NumberFacts DEF TypeOK
  <1>4. /\ n_ \in Nat /\ current.base \in 0 .. n_ /\ op \in 1 .. NumOps /\ current.layer = op
        /\ live \subseteq current.base + 1 .. n_ /\ DOMAIN work \subseteq {0} \cup live
    <2>1. n_ \in Nat
      BY <1>1 DEF TypeOK
    <2>2. op \in 1 .. NumOps
      BY <1>1 DEF MainOK
    <2> QED BY <2>1, <2>2, <1>1 DEF PoolOK
  <1>5. i # 0 /\ work[i] = Fresh
    BY <1>1, <1>4 DEF PoolOK, RangeWorker, Fresh
  <1> DEFINE k0 == i - current.base - 1
  <1>6. i \in current.base + 1 .. n_ /\ k0 \in 0 .. Number - 2 /\ Owner(k0) = i
    BY <1>1, <1>4, <1>5, OwnerFacts
  <1> DEFINE s == current.slices[k0]
  <1> DEFINE mine == [layer |-> op, begin |-> s.begin, end |-> s.end]
  <1>7. work' = [work EXCEPT ![i] = mine]
    <2>1. k0 >= 0 /\ k0 < worker_count
      BY <1>3, <1>6
    <2> QED BY <2>1, <1>4 DEF RangeWorker
  <1>8. /\ mine \in [layer : Nat, begin : Nat, end : Nat] /\ mine.layer = op
        /\ mine.begin = s.begin /\ mine.end = s.end /\ s \in [begin : Nat, end : 0 .. Total]
    <2>1. k0 \in 0 .. Number - 1
      BY <1>3, <1>6
    <2>2. s \in [begin : Nat, end : 0 .. Total]
      BY <1>1, <2>1, SliceFacts
    <2> QED BY <2>2, <1>3, <1>4
  <1> HIDE DEF mine, s, k0
  <1>9. /\ DOMAIN work' = DOMAIN work /\ work'[i] = mine
        /\ \A j \in DOMAIN work : j # i => work'[j] = work[j]
    BY <1>7
  <1>10. TypeOK'
    BY <1>1, <1>2, <1>9 DEF TypeOK, SameCall
  <1>11. MainOK'
    BY <1>1, <1>2, SameMain
  <1>12. Total' = Total /\ Number' = Number
    BY <1>2, SameSlices
  <1>13. PoolOK'
    <2>1. work' \in [DOMAIN work' -> [layer : Nat, begin : Nat, end : Nat]]
      BY <1>1, <1>7, <1>8 DEF PoolOK
    <2>2. \A j \in DOMAIN work' : (j # 0 /\ work'[j] = Fresh) \/ work'[j].layer = op
      BY <1>1, <1>8, <1>9 DEF PoolOK
    <2> QED BY <2>1, <2>2, <1>1, <1>2, <1>9, <1>12 DEF PoolOK, SameCall
  <1>14. ASSUME NEW k \in 0 .. Number - 1
         PROVE  Rest(k)' = Rest(k)
    <2>1. Rest(k) = IF Begun(k) /\ Owner(k) \notin DOMAIN work THEN {}
                   ELSE IF Begun(k) /\ work[Owner(k)] # Fresh
                        THEN work[Owner(k)].begin .. work[Owner(k)].end - 1
                        ELSE SliceRange(k)
      BY <1>1, RestNow
    <2>2. Rest(k)' = IF Begun(k)' /\ Owner(k) \notin DOMAIN work' THEN {}
                    ELSE IF Begun(k)' /\ work'[Owner(k)] # Fresh
                         THEN work'[Owner(k)].begin .. work'[Owner(k)].end - 1
                         ELSE SliceRange(k)
      BY <1>1, <1>2, RestNext
    <2>3. Owner(k)' = Owner(k) /\ Begun(k)' = Begun(k)
      BY <1>1, <1>2, <1>12, SameSlices DEF Begun
    <2>4. CASE Owner(k) = i
      <3>1. k = k0
        <4>1. k0 \in 0 .. Number - 1
          BY <1>3, <1>6
        <4> QED BY <4>1, <2>4, <1>1, <1>6, OwnerFacts
      <3>2. work'[i].begin .. work'[i].end - 1 = SliceRange(k)
        BY <3>1, <1>8, <1>9 DEF SliceRange, s
      <3> QED BY <2>1, <2>2, <2>3, <2>4, <3>2, <1>5, <1>9
    <2>5. CASE Owner(k) # i
      BY <2>1, <2>2, <2>3, <2>5, <1>9
    <2> QED BY <2>4, <2>5
  <1>15. SlicesOK'
    BY <1>1, <1>2, <1>14, SlicesStep DEF Inv
  <1> QED BY <1>10, <1>11, <1>13, <1>15 DEF Inv

\* One unit more is done, and one less is left of the thread's slice.
LEMMA ComputeInv ==
    ASSUME Inv, NEW i \in DOMAIN work, Compute(i)
    PROVE  Inv'
  <1> USE ForwardAssumption, GptAssumption
  <1>1. TypeOK /\ MainOK /\ PoolOK /\ pc \in Inside /\ pc' = pc /\ pc' \in Inside
    BY DEF Compute, Inv, PoolOK
  <1>2. SameCall /\ tokens' = tokens /\ UNCHANGED <<n_, live, missing>>
    BY DEF Compute, SameCall
  <1>3. /\ work[i] # Fresh /\ work[i] \in [layer : Nat, begin : Nat, end : Nat]
        /\ work[i].begin < work[i].end /\ work[i].layer = op
    BY <1>1 DEF Compute, Busy, PoolOK
  <1> DEFINE u == work[i].begin
  <1>4. /\ DOMAIN work' = DOMAIN work /\ work'[i] = [work[i] EXCEPT !.begin = u + 1]
        /\ \A j \in DOMAIN work : j # i => work'[j] = work[j]
        /\ units' = units \cup {u}
    BY DEF Compute
  <1>5. /\ work'[i] \in [layer : Nat, begin : Nat, end : Nat] /\ u \in Nat
        /\ work'[i].layer = op /\ work'[i].begin = u + 1 /\ work'[i].end = work[i].end
        /\ work'[i] # Fresh
    BY <1>3, <1>4 DEF Fresh
  <1>6. Total' = Total /\ Number' = Number
    BY <1>2, SameSlices
  <1>7. TypeOK'
    BY <1>1, <1>2, <1>4 DEF TypeOK, SameCall
  <1>8. MainOK'
    BY <1>1, <1>2, SameMain
  <1>9. PoolOK'
    <2>1. work' \in [DOMAIN work' -> [layer : Nat, begin : Nat, end : Nat]]
      <3>1. \A j \in DOMAIN work' : work'[j] \in [layer : Nat, begin : Nat, end : Nat]
        BY <1>1, <1>4, <1>5 DEF PoolOK
      <3>2. work' = [j \in DOMAIN work |-> work'[j]]
        BY DEF Compute
      <3> QED BY <3>1, <3>2, <1>4
    <2>2. \A j \in DOMAIN work' : (j # 0 /\ work'[j] = Fresh) \/ work'[j].layer = op
      BY <1>1, <1>4, <1>5 DEF PoolOK
    <2> QED BY <2>1, <2>2, <1>1, <1>2, <1>4, <1>6 DEF PoolOK, SameCall
  <1>10. SlicesOK'
    <2>1. /\ units \subseteq 0 .. Total - 1
          /\ \A k \in 0 .. Number - 1 :
                /\ Rest(k) \subseteq SliceRange(k)
                /\ Rest(k) \cap units = {}
                /\ pc \in Parallel /\ Owner(k) \notin missing
                      => SliceRange(k) \subseteq units \cup Rest(k)
      BY <1>1 DEF Inv, SlicesOK
    <2>2. \A k \in 0 .. Number - 1 :
             /\ Rest(k) = IF Begun(k) /\ Owner(k) \notin DOMAIN work THEN {}
                          ELSE IF Begun(k) /\ work[Owner(k)] # Fresh
                               THEN work[Owner(k)].begin .. work[Owner(k)].end - 1
                               ELSE SliceRange(k)
             /\ Rest(k)' = IF Begun(k)' /\ Owner(k) \notin DOMAIN work' THEN {}
                          ELSE IF Begun(k)' /\ work'[Owner(k)] # Fresh
                               THEN work'[Owner(k)].begin .. work'[Owner(k)].end - 1
                               ELSE SliceRange(k)
      BY <1>1, <1>2, RestNow, RestNext
    <2>3. \A k \in 0 .. Number - 1 : Begun(k)' = Begun(k)
      BY <1>1, <1>2, <1>6, SameSlices DEF Begun
    <2>4. PICK own \in 0 .. Number - 1 : Owner(own) = i /\ Begun(own)
      BY <1>1, HasSlice
    <2>5. Rest(own) = u .. work[i].end - 1 /\ Rest(own)' = u + 1 .. work[i].end - 1
      BY <2>2, <2>3, <2>4, <1>3, <1>4, <1>5
    <2>6. u \in Rest(own) /\ Rest(own)' = Rest(own) \ {u}
      BY <2>5, <1>3, <1>5
    <2>7. \A k \in 0 .. Number - 1 : k # own => Rest(k)' = Rest(k) /\ u \notin SliceRange(k)
      <3> SUFFICES ASSUME NEW k \in 0 .. Number - 1, k # own
                   PROVE  Rest(k)' = Rest(k) /\ u \notin SliceRange(k)
        OBVIOUS
      <3>1. Owner(k) # i
        BY <2>4, <1>1, OwnerFacts
      <3>2. Rest(k)' = Rest(k)
        BY <3>1, <2>2, <2>3, <1>4
      <3>3. SliceRange(k) \cap SliceRange(own) = {}
        BY <1>1, SliceFacts
      <3> QED BY <3>2, <3>3, <2>1, <2>6
    <2>8. \A k \in 0 .. Number - 1 : Owner(k)' = Owner(k) /\ SliceRange(k)' = SliceRange(k)
      BY <1>2, SameSlices
    <2>9. u \in 0 .. Total - 1
      <3>1. current.slices[own] \in [begin : Nat, end : 0 .. Total] /\ Total \in Nat
        BY <1>1, SliceFacts, NumberFacts
      <3> QED BY <3>1, <2>1, <2>6 DEF SliceRange
    <2>10. ASSUME NEW k \in 0 .. Number - 1
           PROVE  /\ Rest(k)' \subseteq SliceRange(k)
                  /\ Rest(k)' \cap units' = {}
                  /\ pc \in Parallel /\ Owner(k) \notin missing
                        => SliceRange(k) \subseteq units' \cup Rest(k)'
      <3>1. CASE k = own
        BY <3>1, <2>1, <2>6, <1>4
      <3>2. CASE k # own
        BY <3>2, <2>1, <2>7, <1>4
      <3> QED BY <3>1, <3>2
    <2>11. units' \subseteq 0 .. Total - 1
      BY <2>1, <2>9, <1>4
    <2> QED BY <2>8, <2>10, <2>11, <1>1, <1>2, <1>6 DEF SlicesOK
  <1> QED BY <1>7, <1>8, <1>9, <1>10 DEF Inv

\* A thread ends when nothing is left of its slice.
LEMMA ReturnInv ==
    ASSUME Inv, NEW i \in DOMAIN work, Return(i)
    PROVE  Inv'
  <1> USE ForwardAssumption, GptAssumption
  <1>1. TypeOK /\ MainOK /\ PoolOK /\ pc \in Inside
    BY DEF Return, Inv, PoolOK
  <1>2. SameCall /\ tokens' = tokens /\ units' = units /\ UNCHANGED <<n_, live, missing>>
    BY DEF Return, SameCall
  <1>3. /\ work[i] # Fresh /\ work[i] \in [layer : Nat, begin : Nat, end : Nat]
        /\ ~ (work[i].begin < work[i].end)
    BY <1>1 DEF Return, Busy, PoolOK
  <1>4. /\ DOMAIN work' = DOMAIN work \ {i} /\ work' = [j \in DOMAIN work \ {i} |-> work[j]]
        /\ \A j \in DOMAIN work' : work'[j] = work[j]
    BY DEF Return, Restrict
  <1>5. /\ i = 0 => pc = "run" /\ pc' = "join"
        /\ i # 0 => pc' = pc
    BY <1>1 DEF Return, PoolOK
  <1>6. pc' \in Inside /\ (pc \in Parallel => pc' \in Parallel)
    BY <1>1, <1>5 DEF Inside, Parallel
  <1>7. Total' = Total /\ Number' = Number
    BY <1>2, SameSlices
  <1>8. TypeOK'
    BY <1>1, <1>2, <1>4, <1>5 DEF TypeOK, SameCall
  <1>9. MainOK'
    BY <1>1, <1>2, <1>6, SameMain
  <1>10. PoolOK'
    <2>1. work' \in [DOMAIN work' -> [layer : Nat, begin : Nat, end : Nat]]
      BY <1>1, <1>4 DEF PoolOK
    <2>2. 0 \in DOMAIN work' <=> pc' = "run"
      BY <1>1, <1>4, <1>5 DEF PoolOK
    <2>3. pc' \in {"run", "join"} => pc \in {"run", "join"}
      BY <1>5
    <2> QED BY <2>1, <2>2, <2>3, <1>1, <1>2, <1>4, <1>6, <1>7 DEF PoolOK, SameCall
  <1>11. SlicesOK'
    <2>1. ASSUME NEW k \in 0 .. Number - 1
          PROVE  Rest(k)' = Rest(k)
      <3>1. /\ Rest(k) = IF Begun(k) /\ Owner(k) \notin DOMAIN work THEN {}
                         ELSE IF Begun(k) /\ work[Owner(k)] # Fresh
                              THEN work[Owner(k)].begin .. work[Owner(k)].end - 1
                              ELSE SliceRange(k)
            /\ Rest(k)' = IF Begun(k)' /\ Owner(k) \notin DOMAIN work' THEN {}
                         ELSE IF Begun(k)' /\ work'[Owner(k)] # Fresh
                              THEN work'[Owner(k)].begin .. work'[Owner(k)].end - 1
                              ELSE SliceRange(k)
        BY <1>1, <1>2, RestNow, RestNext
      <3>2. Begun(k)' = Begun(k)
        <4>1. pc' # "spawn" <=> pc # "spawn"
          BY <1>5
        <4> QED BY <4>1, <1>2, <1>7, SameSlices DEF Begun
      <3>3. CASE Owner(k) = i
        <4>1. Begun(k)
          BY <3>3, <1>1, HasSlice, OwnerFacts
        <4>2. work[i].begin .. work[i].end - 1 = {}
          BY <1>3
        <4> QED BY <3>1, <3>2, <3>3, <4>1, <4>2, <1>3, <1>4
      <3>4. CASE Owner(k) # i
        BY <3>1, <3>2, <3>4, <1>4
      <3> QED BY <3>3, <3>4
    <2>2. pc' \in Parallel => pc \in Parallel
      BY <1>5 DEF Parallel
    <2> QED BY <2>1, <2>2, <1>1, <1>2, SlicesStep DEF Inv
  <1> QED BY <1>8, <1>9, <1>10, <1>11 DEF Inv

\* Main waits for the threads one by one; when the last is gone the call ends.
LEMMA JoinInv ==
    ASSUME Inv, Join
    PROVE  Inv'
  <1> USE ForwardAssumption, GptAssumption
  <1>1. pc = "join" /\ pc \in Inside /\ pc \in Parallel /\ TypeOK /\ MainOK /\ PoolOK
    BY DEF Join, Inv, Inside, Parallel
  <1>2. CASE live = {}
    <2>1. /\ pc' = "call" /\ op' = op + 1
          /\ UNCHANGED <<tokens, t, worker_count, current, n_, live, missing, work, units>>
      BY <1>2 DEF Join
    <2>2. DOMAIN work = {}
      BY <1>1, <1>2 DEF PoolOK
    <2>3. /\ op \in 1 .. NumOps /\ t \in 1 .. Limit - 1
          /\ \A i \in 0 .. t - 1 : tokens[i] \in 0 .. V - 1
      BY <1>1 DEF MainOK
    <2>4. op' \in 1 .. NumOps + 1 /\ op' \in 0 .. NumOps + 1
      BY <2>1, <2>3 DEF NumOps
    <2>5. TypeOK'
      BY <1>1, <2>1, <2>4 DEF TypeOK
    <2>6. MainOK'
      BY <2>1, <2>3, <2>4 DEF MainOK, Inside, Parallel
    <2>7. PoolOK'
      BY <1>1, <1>2, <2>1, <2>2 DEF PoolOK, Inside, Parallel
    <2>8. SlicesOK'
      BY <2>1 DEF SlicesOK, Inside, Parallel
    <2> QED BY <2>5, <2>6, <2>7, <2>8 DEF Inv
  <1>3. CASE live # {}
    <2>1. /\ pc' \in {"join", "crash"} /\ Min(live) \notin DOMAIN work
          /\ live' = live \ {Min(live)}
          /\ UNCHANGED <<tokens, t, op, worker_count, current, n_, missing, work, units>>
      BY <1>1, <1>3 DEF Join, ThreadEnded
    <2>2. SameCall /\ pc' \in Inside
      BY <2>1 DEF SameCall, Inside, Parallel
    <2>3. Total' = Total /\ Number' = Number
      BY <2>2, SameSlices
    <2>4. TypeOK'
      BY <1>1, <2>1 DEF TypeOK
    <2>5. MainOK'
      BY <1>1, <2>1, <2>2, SameMain
    <2>6. PoolOK'
      <3>1. live' \subseteq live /\ DOMAIN work \subseteq {0} \cup live'
        BY <1>1, <2>1 DEF PoolOK
      <3>2. 0 \notin DOMAIN work /\ pc' # "run"
        BY <1>1, <2>1 DEF PoolOK
      <3> QED BY <3>1, <3>2, <1>1, <2>1, <2>2, <2>3 DEF PoolOK
    <2>7. SlicesOK'
      <3>1. \A k \in 0 .. Number - 1 : Rest(k)' = Rest(k)
        BY <1>1, <2>1 DEF Rest
      <3> QED BY <3>1, <1>1, <2>1, <2>2, SlicesStep DEF Inv
    <2> QED BY <2>4, <2>5, <2>6, <2>7 DEF Inv
  <1> QED BY <1>2, <1>3

LEMMA StutterInv ==
    ASSUME Inv, UNCHANGED vars
    PROVE  Inv'
  <1>1. TypeOK' /\ MainOK'
    BY DEF Inv, vars, TypeOK, MainOK
  <1>2. Total' = Total /\ Number' = Number
    BY DEF vars, Total, Number, NumSlices, Layers
  <1>3. PoolOK'
    BY <1>2 DEF Inv, vars, PoolOK
  <1>4. \A k : Rest(k)' = Rest(k) /\ Owner(k)' = Owner(k) /\ SliceRange(k)' = SliceRange(k)
    BY <1>2 DEF vars, Rest, Owner, SliceRange
  <1>5. SlicesOK'
    BY <1>2, <1>4 DEF Inv, vars, SlicesOK
  <1> QED BY <1>1, <1>3, <1>5 DEF Inv

LEMMA NextInv == Inv /\ [Next]_vars => Inv'
  <1> SUFFICES ASSUME Inv, [Next]_vars PROVE Inv'
    OBVIOUS
  <1>1. CASE Forward
    BY <1>1, ForwardInv
  <1>2. CASE Call
    BY <1>2, CallInv
  <1>3. CASE Spawn
    BY <1>3, SpawnInv
  <1>4. CASE RunMain
    BY <1>4, RunMainInv
  <1>5. CASE Join
    BY <1>5, JoinInv
  <1>6. CASE \E args \in BoundedSeq(RawTokens, Limit) : ParseArgs(args)
    BY <1>6, ParseArgsInv
  <1>7. CASE \E token \in Sampled : SampleMult(token)
    BY <1>7, SampleMultInv
  <1>8. CASE \E i \in DOMAIN work : Thread(i)
    BY <1>8, RangeWorkerInv, ComputeInv, ReturnInv DEF Thread
  <1>9. CASE UNCHANGED vars
    BY <1>9, StutterInv
  <1> QED BY <1>1, <1>2, <1>3, <1>4, <1>5, <1>6, <1>7, <1>8, <1>9 DEF Next, Main, Done

\* The pool of threads keeps its invariant whatever the number of workers, the
\* size of the model and the interleaving.
THEOREM Invariance == Spec => []Inv
  <1>1. Init => Inv
    BY InitInv
  <1>2. Inv /\ [Next]_vars => Inv'
    BY NextInv
  <1> QED BY <1>1, <1>2, PTL DEF Spec

\* What is done and what is left is a partition of the range.
LEMMA EachUnitOnceFromInv == Inv => EachUnitOnce
  <1> SUFFICES ASSUME Inv PROVE EachUnitOnce
    OBVIOUS
  <1>1. CASE pc \notin Parallel
    <2>1. pc \in {"call", "sample"} => DOMAIN work = {}
      BY DEF Inv, PoolOK, Inside, Parallel
    <2> QED BY <1>1, <2>1 DEF EachUnitOnce, Inv, Parallel
  <1>2. CASE pc \in Parallel
    <2>1. TypeOK /\ MainOK /\ PoolOK /\ pc \in Inside /\ pc \notin {"call", "sample"}
      BY <1>2 DEF Inv, Inside, Parallel
    <2>2. /\ units \subseteq 0 .. Total - 1
          /\ \A k \in 0 .. Number - 1 :
                /\ Rest(k) \subseteq SliceRange(k)
                /\ Rest(k) \cap units = {}
                /\ Owner(k) \notin missing => SliceRange(k) \subseteq units \cup Rest(k)
      BY <1>2, <2>1 DEF Inv, SlicesOK
    <2>3. DOMAIN current.slices = 0 .. Number - 1
      BY <2>1, NumberFacts
    <2>4. /\ \A u \in 0 .. Total - 1 : \E k \in 0 .. Number - 1 : u \in SliceRange(k)
          /\ \A k, m \in 0 .. Number - 1 : k # m => SliceRange(k) \cap SliceRange(m) = {}
          /\ \A k \in 0 .. Number - 1 : SliceRange(k) \subseteq 0 .. Total - 1
      <3>1. /\ \A u \in 0 .. Total - 1 : \E k \in 0 .. Number - 1 : u \in SliceRange(k)
            /\ \A k, m \in 0 .. Number - 1 : k # m => SliceRange(k) \cap SliceRange(m) = {}
            /\ \A k \in 0 .. Number - 1 : current.slices[k] \in [begin : Nat, end : 0 .. Total]
            /\ Total \in Nat
        BY <2>1, SliceFacts, NumberFacts
      <3>2. \A k \in 0 .. Number - 1 : SliceRange(k) \subseteq 0 .. Total - 1
        BY <3>1 DEF SliceRange
      <3> QED BY <3>1, <3>2
    <2>5. ASSUME missing \subseteq 1 .. current.base
          PROVE  units \cup UNION {Rest(k) : k \in DOMAIN current.slices} = 0 .. Total - 1
      <3>1. \A k \in 0 .. Number - 1 : Owner(k) \notin missing
        <4>1. current.base \in Nat
          BY <2>1, GptAssumption DEF PoolOK, TypeOK
        <4> QED BY <4>1, <2>5 DEF Owner
      <3>2. \A u \in 0 .. Total - 1 :
               u \in units \/ \E k \in DOMAIN current.slices : u \in Rest(k)
        BY <3>1, <2>2, <2>3, <2>4
      <3>3. \A k \in DOMAIN current.slices : Rest(k) \subseteq 0 .. Total - 1
        BY <2>2, <2>3, <2>4
      <3> QED BY <3>2, <3>3, <2>2
    <2>6. \A k \in DOMAIN current.slices :
             /\ Rest(k) \cap units = {}
             /\ \A m \in DOMAIN current.slices : k # m => Rest(k) \cap Rest(m) = {}
      <3> SUFFICES ASSUME NEW k \in 0 .. Number - 1, NEW m \in 0 .. Number - 1, k # m
                   PROVE  Rest(k) \cap Rest(m) = {}
        BY <2>2, <2>3
      <3>1. SliceRange(k) \cap SliceRange(m) = {}
        BY <2>4
      <3> QED BY <3>1, <2>2
    <2>7. \A i \in DOMAIN work : work[i] = Fresh \/ work[i].layer = op
      BY <2>1 DEF PoolOK
    <2> QED BY <2>1, <2>5, <2>6, <2>7 DEF EachUnitOnce, Total
  <1> QED BY <1>1, <1>2

\* parallel_for computes every unit of every layer exactly once: for every number
\* of units and workers the slices of the threads are a partition of the range,
\* and it returns only when all of them are done and all threads are gone.
THEOREM EachUnitOnceTheorem == Spec => []EachUnitOnce
  BY Invariance, EachUnitOnceFromInv, PTL

----------------------------------------------------------------------------
(* The table of threads.                                                   *)

\* Entries that may be in use before layer k of the pass over T tokens.
Used(T, k) == ((T - 1) * NumOps + (k - 1)) * (MAX_WORKERS - 1)

\* The table has an entry for every thread but main of every layer of every pass,
\* as 4096 entries are enough for 4 workers, 10 tokens and 12 blocks of layers.
TableSuffices == (Limit - 1) * NumOps * (MAX_WORKERS - 1) <= MAX_THREADS

TableOK ==
    /\ pc # "abort"
    /\ pc = "start" => n_ = 0
    /\ pc = "forward" => n_ <= Used(t, 1)
    /\ pc = "call" => n_ <= Used(t, op)
    /\ pc = "sample" => n_ <= Used(t, NumOps + 1)
    /\ pc \in Parallel => current.base <= Used(t, op)

LEMMA UsedFacts ==
    /\ NumOps \in Nat
    /\ \A T \in 1 .. Limit, k \in 1 .. NumOps + 1 : Used(T, k) \in Nat
    /\ \A T \in 1 .. Limit, k \in 1 .. NumOps : Used(T, k + 1) = Used(T, k) + (MAX_WORKERS - 1)
    /\ \A T \in 1 .. Limit : Used(T, NumOps + 1) = Used(T + 1, 1)
    /\ TableSuffices => \A T \in 1 .. Limit - 1, k \in 1 .. NumOps + 1 : Used(T, k) <= MAX_THREADS
  <1> DEFINE K == MAX_WORKERS - 1
  <1>1. K \in Nat /\ NumOps \in Nat /\ Limit \in Nat /\ MAX_THREADS \in Nat
    BY GptAssumption, ForwardAssumption DEF NumOps
  <1>2. \A T, k : Used(T, k) = ((T - 1) * NumOps + (k - 1)) * K
    BY DEF Used
  <1> HIDE DEF K
  <1>3. ASSUME NEW T \in 1 .. Limit, NEW k \in 1 .. NumOps + 1
        PROVE  (T - 1) * NumOps + (k - 1) \in Nat /\ Used(T, k) \in Nat
    <2>1. (T - 1) * NumOps \in Nat
      BY <1>1
    <2>2. (T - 1) * NumOps + (k - 1) \in Nat
      BY <2>1, <1>1
    <2> QED BY <2>2, <1>1, <1>2
  <1>4. ASSUME NEW T \in 1 .. Limit, NEW k \in 1 .. NumOps
        PROVE  Used(T, k + 1) = Used(T, k) + K
    <2>1. (T - 1) * NumOps \in Int
      BY <1>1
    <2> DEFINE a == (T - 1) * NumOps
    <2>2. (a + ((k + 1) - 1)) * K = (a + (k - 1)) * K + K
      <3> HIDE DEF a
      <3>1. a \in Int
        BY <2>1 DEF a
      <3> QED BY <3>1, <1>1
    <2> QED BY <2>2, <1>2
  <1>5. ASSUME NEW T \in 1 .. Limit
        PROVE  Used(T, NumOps + 1) = Used(T + 1, 1)
    <2>1. (T - 1) * NumOps + ((NumOps + 1) - 1) = ((T + 1) - 1) * NumOps + (1 - 1)
      BY <1>1
    <2> QED BY <2>1, <1>2
  <1>6. ASSUME TableSuffices, NEW T \in 1 .. Limit - 1, NEW k \in 1 .. NumOps + 1
        PROVE  Used(T, k) <= MAX_THREADS
    <2>1. (T - 1) * NumOps + (k - 1) <= T * NumOps /\ T * NumOps \in Nat
      BY <1>1
    <2>2. T * NumOps <= (Limit - 1) * NumOps /\ (Limit - 1) * NumOps \in Nat
      <3>1. T \in Nat /\ Limit - 1 \in Nat /\ T <= Limit - 1
        BY <1>1
      <3> QED BY <3>1, <1>1, TimesMono
    <2>3. (T - 1) * NumOps + (k - 1) \in Nat /\ (T - 1) * NumOps + (k - 1) <= (Limit - 1) * NumOps
      <3>1. (T - 1) * NumOps + (k - 1) \in Nat
        BY <1>1, <1>3
      <3> QED BY <3>1, <2>1, <2>2
    <2>4. /\ ((T - 1) * NumOps + (k - 1)) * K <= ((Limit - 1) * NumOps) * K
          /\ ((T - 1) * NumOps + (k - 1)) * K \in Nat
      BY <2>2, <2>3, <1>1, TimesMono
    <2>5. ((Limit - 1) * NumOps) * K <= MAX_THREADS /\ ((Limit - 1) * NumOps) * K \in Nat
      BY <1>6, <2>2, <1>1 DEF TableSuffices, K
    <2>6. Used(T, k) = ((T - 1) * NumOps + (k - 1)) * K
      BY <1>2
    <2> QED BY <2>4, <2>5, <2>6, <1>1
  <1> QED BY <1>1, <1>3, <1>4, <1>5, <1>6 DEF K

LEMMA TableStep ==
    ASSUME TableSuffices, Inv, TableOK, [Next]_vars
    PROVE  TableOK'
  <1> USE GptAssumption, ForwardAssumption
  <1> USE DEF TableOK, Parallel
  <1>1. TypeOK /\ MainOK /\ PoolOK /\ n_ \in Nat /\ NumOps \in Nat
    BY UsedFacts DEF Inv, TypeOK
  <1>2. CASE Forward
    <2>1. n_' = n_ /\ t' = t /\ op' = 1 /\ n_ <= Used(t, 1) /\ pc' \in {"call", "exit"}
      BY <1>2 DEF Forward
    <2> QED BY <2>1
  <1>3. CASE Call
    <2>1. /\ t \in 1 .. Limit - 1 /\ op \in 1 .. NumOps + 1 /\ n_ <= Used(t, op)
          /\ n_' = n_ /\ t' = t /\ op' = op
      BY <1>1, <1>3 DEF Call, MainOK, Inside
    <2>2. CASE op > NumOps
      <3>1. op = NumOps + 1 /\ pc' = "sample"
        BY <2>1, <2>2, <1>1, <1>3 DEF Call
      <3> QED BY <2>1, <3>1
    <2>3. CASE ~ (op > NumOps)
      <3>1. pc' = "spawn" /\ current'.base = n_
        BY <2>3, <1>3 DEF Call
      <3> QED BY <2>1, <3>1
    <2> QED BY <2>2, <2>3
  <1>4. CASE Spawn
    <2>1. /\ pc = "spawn" /\ pc \in Inside /\ t' = t /\ op' = op /\ current' = current
      BY <1>4 DEF Spawn, Inside
    <2>2. /\ t \in 1 .. Limit - 1 /\ op \in 1 .. NumOps /\ current.base <= Used(t, op)
          /\ current.base \in 0 .. n_
      BY <1>1, <2>1 DEF MainOK, PoolOK
    <2>3. /\ Number \in Nat /\ Number <= MAX_WORKERS
          /\ Cardinality(DOMAIN current.slices) = Number
      BY <1>1, <2>1, NumberFacts
    <2>4. n_ - current.base + 1 < Number
      BY <2>3, <1>4 DEF Spawn, SpawnsLeft
    <2>5. Used(t, op) \in Nat /\ Used(t, op + 1) = Used(t, op) + (MAX_WORKERS - 1)
          /\ Used(t, op + 1) <= MAX_THREADS
      <3>1. t \in 1 .. Limit /\ op \in 1 .. NumOps + 1 /\ op + 1 \in 1 .. NumOps + 1
        BY <2>2, <1>1
      <3> QED BY <3>1, <2>2, UsedFacts
    <2>6. n_ < MAX_THREADS
      BY <2>2, <2>3, <2>4, <2>5, <1>1
    <2>7. pc' = "spawn"
      BY <2>1, <2>6, <1>4 DEF Spawn, HasRoom
    <2> QED BY <2>1, <2>2, <2>7
  <1>5. CASE RunMain
    <2>1. pc = "spawn" /\ pc' = "run" /\ UNCHANGED <<t, op, current>>
      BY <1>5 DEF RunMain
    <2> QED BY <2>1
  <1>6. CASE Join
    <2>1. pc = "join" /\ pc \in Inside /\ n_' = n_ /\ t' = t /\ current' = current
      BY <1>6 DEF Join, Inside
    <2>2. CASE live # {}
      <3>1. pc' \in {"join", "crash"} /\ op' = op
        BY <2>1, <2>2, <1>6 DEF Join
      <3> QED BY <2>1, <3>1
    <2>3. CASE live = {}
      <3>1. pc' = "call" /\ op' = op + 1
        BY <2>3, <1>6 DEF Join
      <3>2. /\ t \in 1 .. Limit - 1 /\ op \in 1 .. NumOps /\ current.base <= Used(t, op)
            /\ current.base \in 0 .. n_ /\ n_ - current.base + 1 <= Number
        BY <1>1, <2>1 DEF MainOK, PoolOK
      <3>3. /\ Number \in Nat /\ Number <= MAX_WORKERS
        BY <1>1, <2>1, NumberFacts
      <3>4. Used(t, op) \in Nat /\ Used(t, op + 1) = Used(t, op) + (MAX_WORKERS - 1)
        <4>1. t \in 1 .. Limit /\ op \in 1 .. NumOps + 1
          BY <3>2, <1>1
        <4> QED BY <4>1, <3>2, UsedFacts
      <3>5. n_ <= Used(t, op + 1)
        BY <3>2, <3>3, <3>4, <1>1
      <3> QED BY <2>1, <3>1, <3>5
    <2> QED BY <2>2, <2>3
  <1>7. CASE \E args \in BoundedSeq(RawTokens, Limit) : ParseArgs(args)
    <2>1. PICK args \in BoundedSeq(RawTokens, Limit) : ParseArgs(args)
      BY <1>7
    <2>2. n_ = 0 /\ n_' = 0 /\ pc' \in {"forward", "exit"}
          /\ (pc' = "forward" => t' \in 1 .. Limit)
      BY <2>1 DEF ParseArgs
    <2>3. pc' = "forward" => Used(t', 1) \in Nat
      <3>1. 1 \in 1 .. NumOps + 1
        BY <1>1
      <3> QED BY <3>1, <2>2, UsedFacts
    <2>4. pc' = "forward" => n_' <= Used(t', 1)
      BY <2>2, <2>3
    <2> QED BY <2>2, <2>4
  <1>8. CASE \E token \in Sampled : SampleMult(token)
    <2>1. PICK token \in Sampled : SampleMult(token)
      BY <1>8
    <2>2. n_' = n_ /\ pc = "sample" /\ pc' = "forward" /\ t' = t + 1 /\ t \in 1 .. Limit - 1
          /\ n_ <= Used(t, NumOps + 1)
      BY <2>1, <1>1 DEF SampleMult, MainOK
    <2>3. Used(t, NumOps + 1) = Used(t + 1, 1)
      BY <2>2, UsedFacts
    <2> QED BY <2>2, <2>3
  <1>9. CASE \E i \in DOMAIN work : Thread(i)
    <2>1. PICK i \in DOMAIN work : Thread(i)
      BY <1>9
    <2>2. CASE RangeWorker(i) \/ Compute(i)
      BY <2>2 DEF RangeWorker, Compute
    <2>3. CASE Return(i)
      <3>1. i = 0 => pc = "run"
        BY <2>1, <1>1 DEF PoolOK
      <3>2. /\ UNCHANGED <<t, op, n_, current>>
            /\ pc' = IF i = 0 THEN "join" ELSE pc
        BY <2>3 DEF Return
      <3> QED BY <3>1, <3>2
    <2> QED BY <2>1, <2>2, <2>3 DEF Thread
  <1>10. CASE UNCHANGED vars
    BY <1>10 DEF vars
  <1> QED BY <1>2, <1>3, <1>4, <1>5, <1>6, <1>7, <1>8, <1>9, <1>10 DEF Next, Main, Done

\* When the table of threads has room for every layer of every pass, the
\* assertion of spawn holds in the whole run, although entries are never reused.
THEOREM TableNotFullTheorem ==
    ASSUME TableSuffices
    PROVE  Spec => []TableNotFull
  <1>1. Init => TableOK
    BY DEF Init, TableOK, Parallel
  <1>2. Inv /\ TableOK /\ [Next]_vars => TableOK'
    BY TableStep
  <1>3. TableOK => TableNotFull
    BY DEF TableOK, TableNotFull
  <1> QED BY <1>1, <1>2, <1>3, Invariance, PTL DEF Spec

----------------------------------------------------------------------------
(* Which activations hold a result.                                        *)

\* What the units computed so far have written.
DoneBy == UNION {Layers[op].unit[u].writes : u \in units}

\* While no thread is missing the activations that hold a result are those of the
\* layers before this one, and of the units of this one that are done; if one is
\* missing there may be fewer.
FlowOK ==
    /\ pc = "sample" => op = NumOps + 1
    /\ pc \in Inside \cup {"call", "sample"} /\ missing = {}
          => Earlier(t, op) \subseteq written
    /\ pc \in {"call", "sample"} => written \subseteq Earlier(t, op)
    /\ pc \in Inside => written \subseteq Earlier(t, op) \cup DoneBy
    /\ pc \in Inside => DoneBy \subseteq written

LEMMA EarlierNext ==
    ASSUME NEW T, NEW k \in Nat \ {0}
    PROVE  Earlier(T, 1) = {} /\ Earlier(T, k + 1) = Earlier(T, k) \cup AllWrites(T, k)
  <1>1. 1 .. 1 - 1 = {} /\ 1 .. (k + 1) - 1 = (1 .. k - 1) \cup {k}
    OBVIOUS
  <1> QED BY <1>1 DEF Earlier

\* The next unit of a thread at work is a unit of the current layer that is not
\* done, and part of a slice of its own.
LEMMA BusyUnit ==
    ASSUME Inv, NEW i \in DOMAIN work, Busy(i)
    PROVE  /\ pc \in Inside /\ t \in 1 .. Limit - 1 /\ op \in 1 .. NumOps
           /\ work[i].layer = op /\ Unit(i) = Program[t][op].unit[work[i].begin]
           /\ Total = Program[t][op].total /\ Layers = Program[t]
           /\ work[i].begin \in 0 .. Total - 1 /\ work[i].begin \notin units
           /\ \E own \in 0 .. Number - 1 : Owner(own) = i /\ work[i].begin \in SliceRange(own)
  <1>1. TypeOK /\ MainOK /\ PoolOK /\ pc \in Inside
    BY DEF Inv, PoolOK
  <1>2. /\ work[i] # Fresh /\ work[i] \in [layer : Nat, begin : Nat, end : Nat]
        /\ work[i].begin < work[i].end /\ work[i].layer = op
    BY <1>1 DEF Busy, PoolOK
  <1>3. PICK own \in 0 .. Number - 1 : Owner(own) = i /\ Begun(own)
    BY <1>1, HasSlice
  <1>4. Rest(own) = work[i].begin .. work[i].end - 1
    BY <1>1, <1>2, <1>3, RestNow
  <1>5. work[i].begin \in Rest(own)
    BY <1>2, <1>4
  <1>6. Rest(own) \subseteq SliceRange(own) /\ Rest(own) \cap units = {}
    BY <1>1 DEF Inv, SlicesOK
  <1>7. current.slices[own] \in [begin : Nat, end : 0 .. Total] /\ Total \in Nat
    BY <1>1, SliceFacts, NumberFacts
  <1>8. work[i].begin \in 0 .. Total - 1
    BY <1>5, <1>6, <1>7 DEF SliceRange
  <1>9. t \in 1 .. Limit - 1 /\ op \in 1 .. NumOps
    BY <1>1 DEF MainOK
  <1>10. work[i].begin \in SliceRange(own) /\ work[i].begin \notin units
    BY <1>5, <1>6
  <1>11. Unit(i) = Program[t][op].unit[work[i].begin] /\ Total = Program[t][op].total
         /\ Layers = Program[t]
    BY <1>2 DEF Unit, Layers, Total
  <1> QED BY <1>1, <1>2, <1>3, <1>8, <1>9, <1>10, <1>11

\* Two threads at work are at different units.
LEMMA BusyApart ==
    ASSUME Inv, NEW i \in DOMAIN work, NEW j \in DOMAIN work, i # j, Busy(i), Busy(j)
    PROVE  work[i].begin # work[j].begin
  <1>1. TypeOK /\ MainOK /\ PoolOK /\ pc \in Inside
    BY DEF Inv, PoolOK
  <1>2. PICK own \in 0 .. Number - 1 : Owner(own) = i /\ work[i].begin \in SliceRange(own)
    BY BusyUnit
  <1>3. PICK other \in 0 .. Number - 1 : Owner(other) = j /\ work[j].begin \in SliceRange(other)
    BY BusyUnit
  <1>4. own # other
    BY <1>2, <1>3
  <1>5. SliceRange(own) \cap SliceRange(other) = {}
    BY <1>1, <1>4, SliceFacts
  <1> QED BY <1>2, <1>3, <1>5

\* A step within a call that computes nothing.
LEMMA FlowSame ==
    ASSUME FlowOK, pc \in Inside, pc' \in Inside, SameCall, UNCHANGED <<written, units>>,
           missing \subseteq missing'
    PROVE  FlowOK'
  <1>1. Layers' = Layers /\ t' = t /\ op' = op
    BY SameSlices DEF SameCall
  <1>2. DoneBy' = DoneBy /\ Earlier(t, op)' = Earlier(t, op)
    BY <1>1 DEF DoneBy, Earlier, AllWrites
  <1>3. pc' \notin {"call", "sample"}
    BY DEF Inside, Parallel
  <1>4. missing' = {} => missing = {}
    OBVIOUS
  <1> QED BY <1>1, <1>2, <1>3, <1>4 DEF FlowOK

\* When the last thread is joined all units are done.
LEMMA AllDone ==
    ASSUME Inv, pc = "join", live = {}
    PROVE  units \subseteq 0 .. Total - 1 /\ (missing = {} => units = 0 .. Total - 1)
  <1>1. TypeOK /\ MainOK /\ PoolOK /\ pc \in Inside /\ pc \in Parallel
    BY DEF Inv, Inside, Parallel
  <1>2. DOMAIN work = {}
    BY <1>1 DEF PoolOK
  <1>3. /\ units \subseteq 0 .. Total - 1
        /\ \A k \in 0 .. Number - 1 : Owner(k) \notin missing => SliceRange(k) \subseteq units \cup Rest(k)
    BY <1>1 DEF Inv, SlicesOK
  <1>4. \A k \in 0 .. Number - 1 : Rest(k) = {}
    <2> SUFFICES ASSUME NEW k \in 0 .. Number - 1 PROVE Rest(k) = {}
      OBVIOUS
    <2>1. n_ - current.base + 1 = Number /\ current.base \in 0 .. n_ /\ n_ \in Nat
      BY <1>1, GptAssumption DEF PoolOK, TypeOK
    <2>2. Number \in Nat
      BY <1>1, NumberFacts
    <2>3. Begun(k)
      BY <2>1, <2>2 DEF Begun, Owner
    <2> QED BY <1>1, <1>2, <2>3, RestNow
  <1>5. \A u \in 0 .. Total - 1 : \E k \in 0 .. Number - 1 : u \in SliceRange(k)
    BY <1>1, SliceFacts
  <1> QED BY <1>3, <1>4, <1>5

LEMMA FlowStep ==
    ASSUME Inv, FlowOK, [Next]_vars
    PROVE  FlowOK'
  <1>1. TypeOK /\ MainOK /\ PoolOK /\ NumOps \in Nat \ {0}
    BY ForwardAssumption DEF Inv, NumOps
  <1>2. CASE Forward
    <2>1. written' = {} /\ op' = 1 /\ pc' \in {"call", "exit"}
      BY <1>2 DEF Forward
    <2>2. Earlier(t', 1) = {}
      BY EarlierNext
    <2>3. Earlier(t, op)' = {}
      BY <2>1, <2>2 DEF Earlier, AllWrites
    <2> QED BY <2>1, <2>3 DEF FlowOK, Inside, Parallel
  <1>3. CASE Call
    <2>1. /\ pc = "call" /\ op \in 1 .. NumOps + 1
          /\ UNCHANGED <<t, op, missing, written>> /\ units' = {}
      BY <1>1, <1>3 DEF Call, MainOK
    <2>2. Earlier(t, op)' = Earlier(t, op) /\ DoneBy' = {}
      BY <2>1 DEF Earlier, AllWrites, DoneBy
    <2>3. /\ missing = {} => Earlier(t, op) \subseteq written
          /\ written \subseteq Earlier(t, op)
      BY <2>1 DEF FlowOK
    <2>4. CASE op > NumOps
      <3>1. op = NumOps + 1 /\ pc' = "sample"
        BY <2>1, <2>4, <1>1, <1>3 DEF Call
      <3> QED BY <2>1, <2>2, <2>3, <3>1 DEF FlowOK, Inside, Parallel
    <2>5. CASE ~ (op > NumOps)
      <3>1. pc' = "spawn"
        BY <2>5, <1>3 DEF Call
      <3> QED BY <2>1, <2>2, <2>3, <3>1 DEF FlowOK, Inside, Parallel
    <2> QED BY <2>4, <2>5
  <1>4. CASE Spawn
    <2>1. /\ pc \in Inside /\ pc' \in Inside /\ SameCall /\ UNCHANGED <<written, units>>
          /\ missing \subseteq missing'
      BY <1>4 DEF Spawn, Inside, Parallel, SameCall
    <2> QED BY <2>1, FlowSame
  <1>5. CASE RunMain
    <2>1. /\ pc \in Inside /\ pc' \in Inside /\ SameCall /\ UNCHANGED <<written, units>>
          /\ missing \subseteq missing'
      BY <1>5 DEF RunMain, Inside, Parallel, SameCall
    <2> QED BY <2>1, FlowSame
  <1>6. CASE Join
    <2>1. CASE live # {}
      <3>1. /\ pc \in Inside /\ pc' \in Inside /\ SameCall /\ UNCHANGED <<written, units>>
            /\ missing \subseteq missing'
        BY <2>1, <1>6 DEF Join, Inside, Parallel, SameCall
      <3> QED BY <3>1, FlowSame
    <2>2. CASE live = {}
      <3>1. /\ pc = "join" /\ pc \in Inside /\ pc' = "call" /\ op' = op + 1
            /\ UNCHANGED <<t, missing, written, units>>
        BY <2>2, <1>6 DEF Join, Inside, Parallel
      <3>2. units \subseteq 0 .. Total - 1 /\ (missing = {} => units = 0 .. Total - 1)
        BY <2>2, <3>1, AllDone
      <3>3. op \in Nat \ {0}
        BY <1>1, <3>1 DEF MainOK
      <3>4. Earlier(t, op + 1) = Earlier(t, op) \cup AllWrites(t, op)
        BY <3>3, EarlierNext
      <3>5. AllWrites(t, op) = UNION {Layers[op].unit[u].writes : u \in 0 .. Total - 1}
        BY DEF AllWrites, Layers, Total
      <3>6. DoneBy \subseteq AllWrites(t, op) /\ (missing = {} => AllWrites(t, op) = DoneBy)
        BY <3>2, <3>5 DEF DoneBy
      <3>7. Earlier(t, op)' = Earlier(t, op + 1)
        BY <3>1 DEF Earlier, AllWrites
      <3>8. /\ missing = {} => Earlier(t, op) \subseteq written
            /\ written \subseteq Earlier(t, op) \cup DoneBy /\ DoneBy \subseteq written
        BY <3>1 DEF FlowOK
      <3> QED BY <3>1, <3>4, <3>6, <3>7, <3>8 DEF FlowOK, Inside, Parallel
    <2> QED BY <2>1, <2>2
  <1>7. CASE \E args \in BoundedSeq(RawTokens, Limit) : ParseArgs(args)
    BY <1>7 DEF ParseArgs, FlowOK, Inside, Parallel
  <1>8. CASE \E token \in Sampled : SampleMult(token)
    BY <1>8 DEF SampleMult, FlowOK, Inside, Parallel
  <1>9. CASE \E i \in DOMAIN work : Thread(i)
    <2>1. PICK i \in DOMAIN work : Thread(i)
      BY <1>9
    <2>2. pc \in Inside
      BY <2>1, <1>1 DEF PoolOK
    <2>3. CASE RangeWorker(i)
      <3>1. /\ pc' = pc /\ SameCall /\ UNCHANGED <<written, units, missing>>
        BY <2>3 DEF RangeWorker, SameCall
      <3> QED BY <2>2, <3>1, FlowSame
    <2>4. CASE Return(i)
      <3>1. /\ pc' \in {pc, "join"} /\ SameCall /\ UNCHANGED <<written, units, missing>>
        BY <2>4 DEF Return, SameCall
      <3>2. pc' \in Inside
        BY <2>2, <3>1 DEF Inside, Parallel
      <3> QED BY <2>2, <3>1, <3>2, FlowSame
    <2>5. CASE Compute(i)
      <3> DEFINE u == work[i].begin
      <3>1. /\ pc' = pc /\ SameCall /\ missing' = missing /\ units' = units \cup {u}
            /\ written' = written \cup Layers[work[i].layer].unit[u].writes /\ Busy(i)
        BY <2>5 DEF Compute, SameCall
      <3>2. work[i].layer = op
        BY <2>1, <3>1, BusyUnit
      <3>3. Layers' = Layers /\ t' = t /\ op' = op
        BY <3>1, SameSlices DEF SameCall
      <3>4. DoneBy' = DoneBy \cup Layers[op].unit[u].writes
        <4>1. DoneBy' = UNION {Layers[op].unit[v].writes : v \in units'}
          BY <3>3 DEF DoneBy
        <4> HIDE DEF u
        <4> QED BY <4>1, <3>1 DEF DoneBy
      <3>5. Earlier(t, op)' = Earlier(t, op)
        BY <3>3 DEF Earlier, AllWrites
      <3>6. /\ missing = {} => Earlier(t, op) \subseteq written
            /\ written \subseteq Earlier(t, op) \cup DoneBy /\ DoneBy \subseteq written
        BY <2>2 DEF FlowOK
      <3>7. pc' \notin {"call", "sample"} /\ pc' \in Inside
        BY <2>2, <3>1 DEF Inside, Parallel
      <3> HIDE DEF u
      <3> QED BY <3>1, <3>2, <3>4, <3>5, <3>6, <3>7 DEF FlowOK
    <2> QED BY <2>1, <2>3, <2>4, <2>5 DEF Thread
  <1>10. CASE UNCHANGED vars
    <2>1. Earlier(t, op)' = Earlier(t, op) /\ DoneBy' = DoneBy
      BY <1>10 DEF vars, Earlier, AllWrites, DoneBy, Layers
    <2> QED BY <1>10, <2>1 DEF vars, FlowOK
  <1> QED BY <1>2, <1>3, <1>4, <1>5, <1>6, <1>7, <1>8, <1>9, <1>10 DEF Next, Main, Done

\* What holds a result is known at every step, whichever threads have run.
THEOREM FlowInvariance == Spec => [](Inv /\ FlowOK)
  <1>1. Init => FlowOK
    BY DEF Init, FlowOK, Inside, Parallel
  <1>2. Inv /\ FlowOK /\ [Next]_vars => FlowOK'
    BY FlowStep
  <1> QED BY <1>1, <1>2, Invariance, PTL DEF Spec

LEMMA NoRaceFromInv == Inv /\ FlowOK => NoRace
  <1> SUFFICES ASSUME Inv, FlowOK, NEW i \in DOMAIN work, Busy(i)
               PROVE  /\ Unit(i).writes \cap written = {}
                      /\ \A j \in DOMAIN work \ {i} : Busy(j) =>
                            Unit(i).writes \cap (Unit(j).reads \cup Unit(j).writes) = {}
    BY DEF NoRace
  <1> DEFINE y == Program[t][op]
  <1>1. /\ pc \in Inside /\ t \in 1 .. Limit - 1 /\ op \in 1 .. NumOps
        /\ Unit(i) = y.unit[work[i].begin] /\ Total = y.total /\ Layers = Program[t]
        /\ work[i].begin \in 0 .. y.total - 1 /\ work[i].begin \notin units
    BY BusyUnit
  <1>2. \A u \in 0 .. y.total - 1 :
           /\ y.unit[u].reads \subseteq Earlier(t, op) /\ y.unit[u].writes \cap Earlier(t, op) = {}
           /\ \A v \in 0 .. y.total - 1 : u # v => y.unit[u].writes \cap y.unit[v].writes = {}
    BY <1>1, DataFlow
  <1>3. Unit(i).writes \cap written = {}
    <2>1. written \subseteq Earlier(t, op) \cup DoneBy
      BY <1>1 DEF FlowOK
    <2>2. units \subseteq 0 .. y.total - 1
      BY <1>1 DEF Inv, SlicesOK
    <2>3. DoneBy = UNION {y.unit[u].writes : u \in units}
      BY <1>1 DEF DoneBy
    <2> HIDE DEF y
    <2>4. \A u \in units : Unit(i).writes \cap y.unit[u].writes = {}
      BY <1>1, <1>2, <2>2
    <2>5. Unit(i).writes \cap DoneBy = {}
      BY <2>3, <2>4
    <2> QED BY <1>1, <1>2, <2>1, <2>5
  <1>4. ASSUME NEW j \in DOMAIN work \ {i}, Busy(j)
        PROVE  Unit(i).writes \cap (Unit(j).reads \cup Unit(j).writes) = {}
    <2>1. Unit(j) = y.unit[work[j].begin] /\ work[j].begin \in 0 .. y.total - 1
      BY <1>1, <1>4, BusyUnit
    <2>2. work[i].begin # work[j].begin
      BY <1>4, BusyApart
    <2> HIDE DEF y
    <2> QED BY <1>1, <1>2, <2>1, <2>2
  <1> QED BY <1>3, <1>4

\* No two threads are ever at the same activation unless both only read it, and no
\* activation is computed twice in a pass, for all sizes of the network and all
\* numbers of threads, also when threads are missing.
THEOREM NoRaceTheorem == Spec => []NoRace
  BY FlowInvariance, NoRaceFromInv, PTL

LEMMA ReadsReadyFromInv == Inv /\ FlowOK => ReadsReady
  <1> SUFFICES ASSUME Inv, FlowOK, missing = {}
               PROVE  NoGarbage
    BY DEF ReadsReady
  <1>1. ASSUME NEW i \in DOMAIN work, Busy(i)
        PROVE  Unit(i).reads \subseteq written
    <2> DEFINE y == Program[t][op]
    <2>1. /\ pc \in Inside /\ t \in 1 .. Limit - 1 /\ op \in 1 .. NumOps
          /\ Unit(i) = y.unit[work[i].begin] /\ work[i].begin \in 0 .. y.total - 1
      BY <1>1, BusyUnit
    <2>2. \A u \in 0 .. y.total - 1 : y.unit[u].reads \subseteq Earlier(t, op)
      BY <2>1, DataFlow
    <2>3. Earlier(t, op) \subseteq written
      BY <2>1 DEF FlowOK
    <2> HIDE DEF y
    <2> QED BY <2>1, <2>2, <2>3
  <1>2. ASSUME pc = "sample"
        PROVE  Run(Acts[t].probs + (t - 1) * V, V) \subseteq written
    <2>1. t \in 1 .. Limit - 1 /\ op = NumOps + 1 /\ NumOps \in Nat \ {0}
      BY <1>2, ForwardAssumption DEF Inv, MainOK, FlowOK, NumOps
    <2>2. Run(Acts[t].probs + (t - 1) * V, V) \subseteq AllWrites(t, NumOps)
      BY <2>1, DataFlow
    <2>3. Earlier(t, op) = Earlier(t, NumOps) \cup AllWrites(t, NumOps)
      BY <2>1, EarlierNext
    <2>4. Earlier(t, op) \subseteq written
      BY <1>2 DEF FlowOK
    <2> QED BY <2>2, <2>3, <2>4
  <1> QED BY <1>1, <1>2 DEF NoGarbage

\* While every thread exists, whatever a thread reads was computed before in this
\* pass, and main samples from complete probabilities.
THEOREM ReadsReadyTheorem == Spec => []ReadsReady
  BY FlowInvariance, ReadsReadyFromInv, PTL

\* The sequence is never longer than the position embedding: 10 and 1024 in gpt.c.
PositionsSuffice == Limit - 1 <= maxT

LEMMA InBoundsFromInv ==
    ASSUME PositionsSuffice, Inv
    PROVE  InBounds
  <1> SUFFICES ASSUME NEW i \in DOMAIN work, Busy(i)
               PROVE  /\ work[i].begin < Layers[work[i].layer].total
                      /\ Unit(i).writes \subseteq 0 .. ActsLen[t] - 1
                      /\ Unit(i).params \subseteq 0 .. ParamsLen - 1
                      /\ work[i].layer = 1 =>
                            TokenRow(tokens[work[i].begin]) \subseteq Run(Param.wte, V * C)
    BY DEF InBounds
  <1> DEFINE y == Program[t][op]
  <1>1. /\ pc \in Inside /\ t \in 1 .. Limit - 1 /\ op \in 1 .. NumOps
        /\ work[i].layer = op /\ Unit(i) = y.unit[work[i].begin] /\ Layers = Program[t]
        /\ work[i].begin \in 0 .. y.total - 1 /\ Total = y.total
    BY BusyUnit
  <1>2. y.total \in Nat \ {0} /\ Limit \in Nat /\ maxT \in Nat /\ V \in Nat /\ C \in Nat
    BY <1>1, LayerTotals, ForwardAssumption
  <1>3. t <= maxT
    BY <1>1, <1>2 DEF PositionsSuffice
  <1>4. \A u \in 0 .. y.total - 1 : /\ y.unit[u].writes \subseteq 0 .. ActsLen[t] - 1
                                    /\ y.unit[u].params \subseteq 0 .. ParamsLen - 1
    BY <1>1, <1>3, DataFlow
  <1>5. work[i].begin < Layers[work[i].layer].total
    BY <1>1, <1>2
  <1>6. ASSUME op = 1
        PROVE  TokenRow(tokens[work[i].begin]) \subseteq Run(Param.wte, V * C)
    <2>1. y.total = t
      <3>1. y = Encoder(t, Acts[t].encoded)
        <4>1. y = Op(t, 1)
          BY <1>1, <1>6 DEF Program
        <4>2. L \in Nat \ {0}
          BY ForwardAssumption
        <4> QED BY <4>1, <4>2 DEF Op
      <3> QED BY <3>1, EncoderTotal
    <2>2. work[i].begin \in 0 .. t - 1
      BY <1>1, <2>1
    <2>3. tokens[work[i].begin] \in 0 .. V - 1
      BY <1>1, <2>2 DEF Inv, MainOK, Inside, Parallel
    <2>4. Param.wte \in Nat
      BY OuterParams
    <2>5. \A k \in 0 .. V - 1 : Run(Param.wte + k * C, C) \subseteq Run(Param.wte, V * C)
      BY <1>2, <2>4, RowsWithin
    <2> QED BY <2>3, <2>5 DEF TokenRow
  <1> HIDE DEF y
  <1> QED BY <1>1, <1>4, <1>5, <1>6

\* As long as there is a position for every token, every access of every thread
\* lies in the memory that was allocated for it.
THEOREM InBoundsTheorem ==
    ASSUME PositionsSuffice
    PROVE  Spec => []InBounds
  BY Invariance, InBoundsFromInv, PTL
=============================================================================
