-------------------------- MODULE MymallocProofs --------------------------
(***************************************************************************)
(* Proofs about the allocator of m5 for any number of threads, any         *)
(* requests and any sizes of headers, pages and chunks, as long as vmalloc *)
(* places every chunk below the earlier ones.                              *)
(***************************************************************************)
EXTENDS Mymalloc, FiniteSetTheorems, WellFoundedInduction, TLAPS

----------------------------------------------------------------------------
(* What the code's constants and the callers have to satisfy.              *)

\* In the code ALIGN is 8, HDR 32 and PAGE_SIZE 4096, and no caller asks for a
\* size within a few pages of the largest size_t.
Sensible ==
    /\ Placement = "below"
    /\ HDR % ALIGN = 0 /\ PAGE_SIZE % ALIGN = 0
    /\ \A n \in Requests : n + HDR + 2 * MIN_PAYLOAD + ALIGN + PAGE_SIZE <= WORD

----------------------------------------------------------------------------
(* The inductive invariant.                                                *)

\* The headers of B form a list from h that is linked both ways, in the order of
\* the addresses, and their blocks do not overlap.
ListOK(h, B) ==
    /\ DOMAIN B \subseteq 1 .. WORD - 1 /\ B \in [DOMAIN B -> Headers]
    /\ h = 0 => DOMAIN B = {}
    /\ h # 0 => h \in DOMAIN B
    /\ \A b \in DOMAIN B :
          /\ b % ALIGN = 0 /\ BlockEnd(B, b) <= WORD
          /\ B[b].prev = 0 <=> b = h
          /\ B[b].prev # 0 => B[b].prev \in DOMAIN B /\ B[b].prev < b /\ B[B[b].prev].next = b
          /\ B[b].next # 0 => B[b].next \in DOMAIN B /\ b < B[b].next /\ B[B[b].next].prev = b
    /\ \A b, c \in DOMAIN B : b < c =>
          BlockEnd(B, b) <= c /\ B[b].next # 0 /\ B[b].next <= c

Covered(B) == UNION {Bytes(b, HDR + B[b].size) : b \in DOMAIN B}
Memory == UNION {Bytes(r, regions[r]) : r \in DOMAIN regions}

RegionsOK ==
    /\ DOMAIN regions \subseteq Nat
    /\ \A r \in DOMAIN regions : regions[r] \in Nat

Critical == {"m_find", "m_extend", "m_split", "m_unlock", "f_mark", "f_prev", "f_unlock"}

\* The thread in its critical section, and what it knows there.
Knows(t) ==
    /\ lock = t <=> pc[t] \in Critical
    /\ pc[t] \in {"m_lock", "m_find", "m_extend", "m_split", "m_unlock"} => req[t] \in Requests
    /\ pc[t] = "m_extend" => blk[t] = 0
    /\ pc[t] = "m_split" => /\ blk[t] \in DOMAIN block /\ block[blk[t]].free
                            /\ block[blk[t]].size >= RequestSize(req[t])
    /\ pc[t] = "f_prev" => blk[t] \in DOMAIN block /\ block[blk[t]].free

LockOK == \A t \in Thread : Knows(t)

\* The blocks in use: callers have them, or threads that have not freed them yet or
\* not yet returned them, and nobody else has them too.
Holds(t) == pc[t] \in {"f_lock", "f_mark"} \/ (pc[t] = "m_unlock" /\ blk[t] # 0)

UseOK ==
    /\ \A p \in DOMAIN live :
          /\ p - HDR \in DOMAIN block /\ ~ block[p - HDR].free
          /\ live[p] \in Nat /\ block[p - HDR].size >= live[p]
          /\ p \in Nat
    /\ \A t \in Thread : Holds(t) =>
          /\ blk[t] \in DOMAIN block /\ ~ block[blk[t]].free /\ blk[t] + HDR \notin DOMAIN live
          /\ \A u \in Thread : Holds(u) /\ blk[u] = blk[t] => u = t
          /\ pc[t] = "m_unlock" => block[blk[t]].size >= req[t]
    /\ \A b \in DOMAIN block : ~ block[b].free =>
          b + HDR \in DOMAIN live \/ \E t \in Thread : Holds(t) /\ blk[t] = b

\* Two free blocks lie next to each other only while the second is being freed.
MergeOK ==
    \A b \in DOMAIN block : CanMerge(block, b) =>
        \E t \in Thread : pc[t] = "f_prev" /\ blk[t] = block[b].next

Inv ==
    /\ TypeOK /\ ListOK(head, block) /\ RegionsOK /\ Covered(block) = Memory
    /\ LockOK /\ UseOK /\ MergeOK

----------------------------------------------------------------------------
(* Headers.                                                                *)

LEMMA Sizes ==
    /\ HDR \in Nat \ {0} /\ WORD \in Nat \ {0} /\ PAGE_SIZE \in Nat \ {0}
    /\ CHUNK_SIZE \in Nat \ {0} /\ MIN_PAYLOAD \in Nat \ {0} /\ ALIGN \in Nat \ {0}
  BY MymallocAssumption

\* A record with the fields of a header, and a function from addresses to such records.
IsHeader(r) == r = [size |-> r.size, free |-> r.free, prev |-> r.prev, next |-> r.next]
Shape(B) == B = [b \in DOMAIN B |-> B[b]] /\ \A b \in DOMAIN B : IsHeader(B[b])

LEMMA Updates ==
    ASSUME NEW r, IsHeader(r), NEW x, NEW y
    PROVE  /\ [r EXCEPT !.prev = x] = [size |-> r.size, free |-> r.free, prev |-> x, next |-> r.next]
           /\ [r EXCEPT !.free = x] = [size |-> r.size, free |-> x, prev |-> r.prev, next |-> r.next]
           /\ [r EXCEPT !.size = x, !.next = y]
                 = [size |-> x, free |-> r.free, prev |-> r.prev, next |-> y]
  <1>1. r = [size |-> r.size, free |-> r.free, prev |-> r.prev, next |-> r.next]
    BY DEF IsHeader
  <1>2. [r EXCEPT !.prev = x] = [size |-> r.size, free |-> r.free, prev |-> x, next |-> r.next]
    BY <1>1
  <1>3. [r EXCEPT !.free = x] = [size |-> r.size, free |-> x, prev |-> r.prev, next |-> r.next]
    BY <1>1
  <1> DEFINE s == [r EXCEPT !.size = x]
  <1>4. s = [size |-> x, free |-> r.free, prev |-> r.prev, next |-> r.next]
    BY <1>1
  <1>5. [r EXCEPT !.size = x, !.next = y] = [s EXCEPT !.next = y]
    OBVIOUS
  <1> HIDE DEF s
  <1>6. [s EXCEPT !.next = y] = [size |-> x, free |-> r.free, prev |-> r.prev, next |-> y]
    BY <1>4
  <1> QED BY <1>2, <1>3, <1>5, <1>6

LEMMA NewHeader ==
    ASSUME NEW s, NEW f, NEW p, NEW n, NEW r,
           r = [size |-> s, free |-> f, prev |-> p, next |-> n]
    PROVE  IsHeader(r) /\ r.size = s /\ r.free = f /\ r.prev = p /\ r.next = n
  BY DEF IsHeader

\* One header is replaced.
LEMMA Replaced ==
    ASSUME NEW B, Shape(B), NEW b \in DOMAIN B, NEW r, IsHeader(r),
           NEW C, DOMAIN C = DOMAIN B, C = [c \in DOMAIN C |-> C[c]],
           C[b] = r, \A c \in DOMAIN B : c # b => C[c] = B[c]
    PROVE  Shape(C)
  BY DEF Shape

\* The field prev of a block, if there is one, is set.
LEMMA LinkPrevFields ==
    ASSUME NEW B, Shape(B), 0 \notin DOMAIN B, NEW m, m = 0 \/ m \in DOMAIN B, NEW x,
           NEW C, C = LinkPrev(B, m, x)
    PROVE  /\ Shape(C) /\ DOMAIN C = DOMAIN B
           /\ \A c \in DOMAIN B :
                 /\ C[c].size = B[c].size /\ C[c].free = B[c].free /\ C[c].next = B[c].next
                 /\ C[c].prev = IF c = m THEN x ELSE B[c].prev
  <1>1. CASE m = 0
    <2>1. C = B
      BY <1>1 DEF LinkPrev
    <2> QED BY <1>1, <2>1
  <1>2. CASE m # 0
    <2>1. m \in DOMAIN B /\ IsHeader(B[m])
      BY <1>2 DEF Shape
    <2> DEFINE r == [B[m] EXCEPT !.prev = x]
    <2>2. C = [B EXCEPT ![m] = r]
      BY <1>2 DEF LinkPrev
    <2>3. r = [size |-> B[m].size, free |-> B[m].free, prev |-> x, next |-> B[m].next]
      BY <2>1, Updates
    <2> HIDE DEF r
    <2>4. IsHeader(r) /\ r.size = B[m].size /\ r.free = B[m].free /\ r.prev = x /\ r.next = B[m].next
      BY <2>3, NewHeader
    <2>5. /\ DOMAIN C = DOMAIN B /\ C = [c \in DOMAIN C |-> C[c]]
          /\ C[m] = r /\ \A c \in DOMAIN B : c # m => C[c] = B[c]
      BY <2>1, <2>2
    <2>6. Shape(C)
      BY <2>1, <2>4, <2>5, Replaced
    <2> QED BY <2>4, <2>5, <2>6
  <1> QED BY <1>1, <1>2

\* A block changes its size and its successor.
Resize(B, b, s, n) == [B EXCEPT ![b].size = s, ![b].next = n]

LEMMA ResizeFields ==
    ASSUME NEW B, Shape(B), NEW b \in DOMAIN B, NEW s, NEW n,
           NEW C, C = Resize(B, b, s, n)
    PROVE  /\ Shape(C) /\ DOMAIN C = DOMAIN B
           /\ \A c \in DOMAIN B :
                 /\ C[c].size = IF c = b THEN s ELSE B[c].size
                 /\ C[c].free = B[c].free /\ C[c].prev = B[c].prev
                 /\ C[c].next = IF c = b THEN n ELSE B[c].next
  <1> DEFINE r == [B[b] EXCEPT !.size = s, !.next = n]
  <1>1. C = [B EXCEPT ![b] = r]
    BY DEF Resize
  <1>2. IsHeader(B[b])
    BY DEF Shape
  <1>3. r = [size |-> s, free |-> B[b].free, prev |-> B[b].prev, next |-> n]
    BY <1>2, Updates
  <1> HIDE DEF r
  <1>4. IsHeader(r) /\ r.size = s /\ r.free = B[b].free /\ r.prev = B[b].prev /\ r.next = n
    BY <1>3, NewHeader
  <1>5. /\ DOMAIN C = DOMAIN B /\ C = [c \in DOMAIN C |-> C[c]]
        /\ C[b] = r /\ \A c \in DOMAIN B : c # b => C[c] = B[c]
    BY <1>1
  <1>6. Shape(C)
    BY <1>4, <1>5, Replaced
  <1> QED BY <1>4, <1>5, <1>6

\* A block is marked.
Mark(B, b, f) == [B EXCEPT ![b].free = f]

LEMMA MarkFields ==
    ASSUME NEW B, Shape(B), NEW b \in DOMAIN B, NEW f,
           NEW C, C = Mark(B, b, f)
    PROVE  /\ Shape(C) /\ DOMAIN C = DOMAIN B
           /\ \A c \in DOMAIN B :
                 /\ C[c].size = B[c].size /\ C[c].prev = B[c].prev /\ C[c].next = B[c].next
                 /\ C[c].free = IF c = b THEN f ELSE B[c].free
  <1> DEFINE r == [B[b] EXCEPT !.free = f]
  <1>1. C = [B EXCEPT ![b] = r]
    BY DEF Mark
  <1>2. IsHeader(B[b])
    BY DEF Shape
  <1>3. r = [size |-> B[b].size, free |-> f, prev |-> B[b].prev, next |-> B[b].next]
    BY <1>2, Updates
  <1> HIDE DEF r
  <1>4. IsHeader(r) /\ r.size = B[b].size /\ r.free = f /\ r.prev = B[b].prev /\ r.next = B[b].next
    BY <1>3, NewHeader
  <1>5. /\ DOMAIN C = DOMAIN B /\ C = [c \in DOMAIN C |-> C[c]]
        /\ C[b] = r /\ \A c \in DOMAIN B : c # b => C[c] = B[c]
    BY <1>1
  <1>6. Shape(C)
    BY <1>4, <1>5, Replaced
  <1> QED BY <1>4, <1>5, <1>6

LEMMA Multiple ==
    ASSUME NEW a \in Nat \ {0}, NEW k \in Nat
    PROVE  (a * k) % a = 0
  <1>1. a * k \in Nat
    OBVIOUS
  <1>2. PICK q \in Nat, r \in 0 .. a - 1 : a * k = a * q + r /\ r = (a * k) % a
    <2> DEFINE n == a * k
    <2>1. n = a * (n \div a) + (n % a) /\ n \div a \in Nat /\ (n % a) \in 0 .. a - 1
      <3> HIDE DEF n
      <3> QED BY <1>1 DEF n
    <2> QED BY <2>1
  <1>3. a * (k - q) = r
    BY <1>2
  <1>4. k - q \in Int
    BY <1>2
  <1>5. ~ (k - q >= 1)
    BY <1>2, <1>3, <1>4
  <1>6. ~ (k - q <= -1)
    BY <1>2, <1>3, <1>4
  <1>7. k - q = 0
    BY <1>4, <1>5, <1>6
  <1> QED BY <1>2, <1>3, <1>7

LEMMA SumAligned ==
    ASSUME NEW x \in Nat, NEW y \in Nat, NEW a \in Nat \ {0}, x % a = 0, y % a = 0
    PROVE  (x + y) % a = 0
  <1>1. x = a * (x \div a) /\ x \div a \in Nat
    OBVIOUS
  <1>2. y = a * (y \div a) /\ y \div a \in Nat
    OBVIOUS
  <1>3. PICK p \in Nat, q \in Nat : x = a * p /\ y = a * q
    BY <1>1, <1>2
  <1>4. x + y = a * (p + q)
    BY <1>3
  <1>5. p + q \in Nat
    OBVIOUS
  <1> QED BY <1>4, <1>5, Multiple

----------------------------------------------------------------------------
(* The operations on the list.                                             *)

\* The types of the fields.
LEMMA Fields ==
    ASSUME NEW h, NEW B, ListOK(h, B)
    PROVE  /\ Shape(B) /\ 0 \notin DOMAIN B
           /\ \A b \in DOMAIN B :
                 /\ b \in Nat \ {0} /\ b < WORD /\ B[b].size \in Nat
                 /\ B[b].free \in BOOLEAN /\ B[b].prev \in Nat /\ B[b].next \in Nat
                 /\ BlockEnd(B, b) = b + HDR + B[b].size
  <1>1. \A b \in DOMAIN B : b \in Nat \ {0} /\ b < WORD /\ B[b] \in Headers
    BY Sizes DEF ListOK
  <1>2. B = [b \in DOMAIN B |-> B[b]]
    BY DEF ListOK
  <1>3. \A b \in DOMAIN B : IsHeader(B[b])
    BY <1>1 DEF IsHeader, Headers
  <1> QED BY <1>1, <1>2, <1>3, Sizes DEF Headers, BlockEnd, Shape

\* A list is in order when its fields are.
LEMMA ListFromFields ==
    ASSUME NEW h, NEW B, Shape(B),
           h = 0 => DOMAIN B = {}, h # 0 => h \in DOMAIN B,
           \A b \in DOMAIN B :
              /\ b \in Nat \ {0} /\ b < WORD /\ B[b].size \in Nat /\ B[b].free \in BOOLEAN
              /\ b % ALIGN = 0 /\ b + HDR + B[b].size <= WORD
              /\ B[b].prev = 0 <=> b = h
              /\ B[b].prev # 0 => B[b].prev \in DOMAIN B /\ B[b].prev < b /\ B[B[b].prev].next = b
              /\ B[b].next # 0 => B[b].next \in DOMAIN B /\ b < B[b].next /\ B[B[b].next].prev = b,
           \A b, c \in DOMAIN B : b < c =>
              b + HDR + B[b].size <= c /\ B[b].next # 0 /\ B[b].next <= c
    PROVE  ListOK(h, B)
  <1>1. ASSUME NEW b \in DOMAIN B
        PROVE  B[b].prev \in 0 .. WORD /\ B[b].next \in 0 .. WORD /\ B[b].size \in 0 .. WORD - 1
    <2>1. \A c \in DOMAIN B : c \in Nat /\ c < WORD
      OBVIOUS
    <2>2. B[b].prev = 0 \/ B[b].prev \in DOMAIN B
      OBVIOUS
    <2>3. B[b].next = 0 \/ B[b].next \in DOMAIN B
      OBVIOUS
    <2>4. b \in Nat /\ b # 0 /\ B[b].size \in Nat /\ b + HDR + B[b].size <= WORD
      OBVIOUS
    <2>5. B[b].size \in 0 .. WORD - 1
      BY <2>4, Sizes
    <2>6. B[b].prev \in 0 .. WORD /\ B[b].next \in 0 .. WORD
      BY <2>1, <2>2, <2>3, Sizes
    <2> QED BY <2>5, <2>6
  <1>2. \A b \in DOMAIN B : B[b] \in Headers
    <2> SUFFICES ASSUME NEW b \in DOMAIN B PROVE B[b] \in Headers
      OBVIOUS
    <2>1. /\ B[b].prev \in 0 .. WORD /\ B[b].next \in 0 .. WORD
          /\ B[b].size \in 0 .. WORD - 1 /\ B[b].free \in BOOLEAN
      BY <1>1
    <2>2. B[b] = [size |-> B[b].size, free |-> B[b].free, prev |-> B[b].prev, next |-> B[b].next]
      BY DEF Shape, IsHeader
    <2> QED BY <2>1, <2>2 DEF Headers
  <1>3. B \in [DOMAIN B -> Headers]
    <2>1. B = [b \in DOMAIN B |-> B[b]]
      BY DEF Shape
    <2> QED BY <1>2, <2>1
  <1>4. DOMAIN B \subseteq 1 .. WORD - 1
    BY Sizes
  <1> QED BY <1>3, <1>4 DEF ListOK, BlockEnd

\* coalesce_with_next: what the headers are after two blocks were merged.
LEMMA MergeFields ==
    ASSUME NEW h, NEW B, ListOK(h, B), NEW b \in DOMAIN B, CanMerge(B, b),
           NEW n, n = B[b].next, NEW M, M = CoalesceWithNext(B, b)
    PROVE  /\ n \in DOMAIN B /\ b < n /\ B[n].prev = b /\ b + HDR + B[b].size = n
           /\ B[b].free /\ B[n].free
           /\ DOMAIN M = DOMAIN B \ {n} /\ Shape(M)
           /\ \A c \in DOMAIN M :
                 /\ M[c].size = IF c = b THEN B[b].size + HDR + B[n].size ELSE B[c].size
                 /\ M[c].free = B[c].free
                 /\ M[c].prev = IF c = B[n].next THEN b ELSE B[c].prev
                 /\ M[c].next = IF c = b THEN B[n].next ELSE B[c].next
  <1>1. /\ Shape(B) /\ 0 \notin DOMAIN B
        /\ \A c \in DOMAIN B : /\ c \in Nat \ {0} /\ B[c].size \in Nat
                               /\ BlockEnd(B, c) = c + HDR + B[c].size
    BY Fields
  <1>2. n # 0 /\ B[b].free /\ B[n].free /\ BlockEnd(B, b) = n
    BY DEF CanMerge
  <1>3. n \in DOMAIN B /\ b < n /\ B[n].prev = b
    BY <1>2 DEF ListOK
  <1> DEFINE m == B[n].next
  <1>4. m = 0 \/ m \in DOMAIN B
    BY <1>3 DEF ListOK
  <1> DEFINE B1 == [B EXCEPT ![b].size = @ + HDR + B[n].size, ![b].next = m]
  <1> DEFINE B2 == LinkPrev(B1, m, b)
  <1>5. M = [c \in DOMAIN B \ {n} |-> B2[c]]
    BY <1>1 DEF CoalesceWithNext, Restrict
  <1> DEFINE s == B[b].size + HDR + B[n].size
  <1>6. B1 = Resize(B, b, s, m)
    BY DEF Resize
  <1> HIDE DEF m, s, B1
  <1>7. /\ Shape(B1) /\ DOMAIN B1 = DOMAIN B
        /\ \A c \in DOMAIN B :
              /\ B1[c].size = IF c = b THEN s ELSE B[c].size
              /\ B1[c].free = B[c].free /\ B1[c].prev = B[c].prev
              /\ B1[c].next = IF c = b THEN m ELSE B[c].next
    BY <1>1, <1>6, ResizeFields
  <1>8. B2 = LinkPrev(B1, m, b)
    OBVIOUS
  <1> HIDE DEF B2
  <1>9. /\ Shape(B2) /\ DOMAIN B2 = DOMAIN B1
        /\ \A c \in DOMAIN B1 :
              /\ B2[c].size = B1[c].size /\ B2[c].free = B1[c].free /\ B2[c].next = B1[c].next
              /\ B2[c].prev = IF c = m THEN b ELSE B1[c].prev
    BY <1>1, <1>4, <1>7, <1>8, LinkPrevFields
  <1>10. DOMAIN M = DOMAIN B \ {n} /\ \A c \in DOMAIN M : M[c] = B2[c]
    BY <1>5
  <1>11. Shape(M)
    BY <1>5, <1>7, <1>9, <1>10 DEF Shape
  <1>12. \A c \in DOMAIN M :
            /\ M[c].size = IF c = b THEN s ELSE B[c].size
            /\ M[c].free = B[c].free
            /\ M[c].prev = IF c = m THEN b ELSE B[c].prev
            /\ M[c].next = IF c = b THEN m ELSE B[c].next
    BY <1>7, <1>9, <1>10
  <1> QED BY <1>1, <1>2, <1>3, <1>10, <1>11, <1>12 DEF m, s

LEMMA CoveredBytes ==
    ASSUME NEW h, NEW B, ListOK(h, B), NEW y
    PROVE  y \in Covered(B) <=> y \in Int /\ \E b \in DOMAIN B : b <= y /\ y < b + HDR + B[b].size
  <1>1. \A b \in DOMAIN B : b \in Nat /\ B[b].size \in Nat
    BY Fields
  <1>2. ASSUME NEW b \in DOMAIN B
        PROVE  y \in Bytes(b, HDR + B[b].size) <=> y \in Int /\ b <= y /\ y < b + HDR + B[b].size
    BY <1>1, Sizes DEF Bytes
  <1>3. y \in Covered(B) <=> \E b \in DOMAIN B : y \in Bytes(b, HDR + B[b].size)
    BY DEF Covered
  <1> QED BY <1>2, <1>3

\* Merging keeps the list in order and the memory covered, and makes no other pair
\* of blocks mergeable.
Merged(h, B, b, M) ==
    /\ ListOK(h, M) /\ Covered(M) = Covered(B)
    /\ b \in DOMAIN M /\ DOMAIN M \subseteq DOMAIN B /\ M[b].free
    /\ M[b].size >= B[b].size
    /\ \A c \in DOMAIN M : M[c].free = B[c].free /\ (c # b => M[c].size = B[c].size)
    /\ \A c \in DOMAIN B : c \notin DOMAIN M => B[c].free
    /\ \A c \in DOMAIN M : c # b /\ CanMerge(M, c) => CanMerge(B, c) /\ M[c].next = B[c].next
    /\ CanMerge(M, b) => CanMerge(B, B[b].next) /\ B[B[b].next].next # b

LEMMA MergeList ==
    ASSUME NEW h, NEW B, ListOK(h, B), NEW b \in DOMAIN B, CanMerge(B, b),
           NEW M, M = CoalesceWithNext(B, b)
    PROVE  Merged(h, B, b, M)
  <1> DEFINE n == B[b].next
  <1> DEFINE m == B[n].next
  <1>1. /\ Shape(B) /\ 0 \notin DOMAIN B
        /\ \A c \in DOMAIN B : /\ c \in Nat \ {0} /\ c < WORD /\ B[c].size \in Nat
                               /\ B[c].free \in BOOLEAN /\ B[c].next \in Nat
                               /\ BlockEnd(B, c) = c + HDR + B[c].size
    BY Fields
  <1>2. /\ n \in DOMAIN B /\ b < n /\ B[n].prev = b /\ b + HDR + B[b].size = n
        /\ B[b].free /\ B[n].free
        /\ DOMAIN M = DOMAIN B \ {n} /\ Shape(M)
        /\ \A c \in DOMAIN M :
              /\ M[c].size = IF c = b THEN B[b].size + HDR + B[n].size ELSE B[c].size
              /\ M[c].free = B[c].free
              /\ M[c].prev = IF c = m THEN b ELSE B[c].prev
              /\ M[c].next = IF c = b THEN m ELSE B[c].next
    BY MergeFields
  <1> HIDE DEF n, m
  <1>3. /\ \A c \in DOMAIN B : /\ c % ALIGN = 0 /\ c + HDR + B[c].size <= WORD
                               /\ B[c].prev = 0 <=> c = h
                               /\ B[c].prev # 0 => /\ B[c].prev \in DOMAIN B /\ B[c].prev < c
                                                   /\ B[B[c].prev].next = c
                               /\ B[c].next # 0 => /\ B[c].next \in DOMAIN B /\ c < B[c].next
                                                   /\ B[B[c].next].prev = c
        /\ \A c, d \in DOMAIN B : c < d =>
              c + HDR + B[c].size <= d /\ B[c].next # 0 /\ B[c].next <= d
        /\ h = 0 => DOMAIN B = {}
        /\ h # 0 => h \in DOMAIN B
    BY <1>1 DEF ListOK
  <1>4. b \in DOMAIN M /\ n # h /\ b # m
    BY <1>1, <1>2, <1>3 DEF n, m
  <1>5. /\ M[b].size = B[b].size + HDR + B[n].size /\ M[b].next = m
        /\ \A c \in DOMAIN M : c # b => M[c].size = B[c].size /\ M[c].next = B[c].next
        /\ \A c \in DOMAIN M : c # m => M[c].prev = B[c].prev
        /\ \A c \in DOMAIN M : c = m => M[c].prev = b
    BY <1>2, <1>4
  <1>6. m # 0 => m \in DOMAIN M /\ n < m /\ B[m].prev = n
    BY <1>1, <1>2, <1>3 DEF m
  <1>7. ASSUME NEW c \in DOMAIN M
        PROVE  /\ c \in Nat \ {0} /\ c < WORD /\ M[c].size \in Nat /\ M[c].free \in BOOLEAN
               /\ c % ALIGN = 0 /\ c + HDR + M[c].size <= WORD
    <2>1. c \in DOMAIN B /\ M[c].free = B[c].free
      BY <1>2
    <2>2. n \in Nat /\ B[n].size \in Nat /\ n + HDR + B[n].size <= WORD
      BY <1>1, <1>2, <1>3
    <2>3. CASE c = b
      <3>1. b \in Nat \ {0} /\ b < WORD /\ B[b].size \in Nat /\ B[b].free \in BOOLEAN /\ b % ALIGN = 0
        BY <1>1, <1>3
      <3>2. M[b].size \in Nat
        BY <3>1, <2>2, <1>5, Sizes
      <3>3. b + HDR + M[b].size = n + HDR + B[n].size
        BY <3>1, <2>2, <1>2, <1>5, Sizes
      <3>4. b + HDR + M[b].size <= WORD
        BY <3>3, <2>2
      <3> QED BY <3>1, <3>2, <3>4, <2>1, <2>3
    <2>4. CASE c # b
      BY <2>1, <2>4, <1>1, <1>3, <1>5
    <2> QED BY <2>3, <2>4
  <1>8. ASSUME NEW c \in DOMAIN M
        PROVE  /\ M[c].prev = 0 <=> c = h
               /\ M[c].prev # 0 => M[c].prev \in DOMAIN M /\ M[c].prev < c /\ M[M[c].prev].next = c
    <2>1. c \in DOMAIN B /\ c # n /\ c # 0
      BY <1>1, <1>2
    <2>2. CASE c = m
      <3>1. M[c].prev = b /\ b \in DOMAIN M /\ M[b].next = c
        BY <2>2, <1>4, <1>5
      <3>2. b # 0 /\ b < c
        BY <2>1, <2>2, <1>1, <1>2, <1>6
      <3>3. c # h
        BY <2>1, <2>2, <1>1, <1>2, <1>3, <1>6
      <3> QED BY <3>1, <3>2, <3>3
    <2>3. CASE c # m
      <3>1. M[c].prev = B[c].prev
        BY <2>3, <1>5
      <3>2. B[c].prev = 0 <=> c = h
        BY <2>1, <1>3
      <3>3. ASSUME B[c].prev # 0
            PROVE  B[c].prev \in DOMAIN M /\ B[c].prev < c /\ M[B[c].prev].next = c
        <4> DEFINE p == B[c].prev
        <4>1. p \in DOMAIN B /\ p < c /\ B[p].next = c
          BY <3>3, <2>1, <1>3
        <4> HIDE DEF p
        <4>2. p # n /\ p # b
          BY <4>1, <2>1, <2>3 DEF n, m
        <4>3. p \in DOMAIN M
          BY <4>1, <4>2, <1>2
        <4> QED BY <4>1, <4>2, <4>3, <1>5 DEF p
      <3> QED BY <3>1, <3>2, <3>3
    <2> QED BY <2>2, <2>3
  <1>9. ASSUME NEW c \in DOMAIN M
        PROVE  M[c].next # 0 => M[c].next \in DOMAIN M /\ c < M[c].next /\ M[M[c].next].prev = c
    <2>1. c \in DOMAIN B /\ c # n
      BY <1>2
    <2>2. CASE c = b
      <3>1. M[c].next = m
        BY <2>2, <1>5
      <3>2. m # 0 => m \in DOMAIN M /\ b < m /\ M[m].prev = b
        BY <1>1, <1>2, <1>5, <1>6
      <3> QED BY <3>1, <3>2, <2>2
    <2>3. CASE c # b
      <3> DEFINE d == B[c].next
      <3>1. M[c].next = d
        BY <2>3, <1>5
      <3>2. ASSUME d # 0
            PROVE  d \in DOMAIN M /\ c < d /\ M[d].prev = c
        <4>1. d \in DOMAIN B /\ c < d /\ B[d].prev = c
          BY <3>2, <2>1, <1>3
        <4> HIDE DEF d
        <4>2. d # n
          BY <4>1, <2>3, <1>2
        <4>3. d # m
          BY <4>1, <2>1, <1>6, <3>2
        <4> QED BY <4>1, <4>2, <4>3, <1>2, <1>5
      <3> QED BY <3>1, <3>2
    <2> QED BY <2>2, <2>3
  <1>10. ASSUME NEW c \in DOMAIN M, NEW d \in DOMAIN M, c < d
         PROVE  c + HDR + M[c].size <= d /\ M[c].next # 0 /\ M[c].next <= d
    <2>1. c \in DOMAIN B /\ d \in DOMAIN B /\ d # n
      BY <1>2
    <2>2. c + HDR + B[c].size <= d /\ B[c].next # 0 /\ B[c].next <= d
      BY <2>1, <1>10, <1>3
    <2>3. CASE c # b
      BY <2>2, <2>3, <1>5
    <2>4. CASE c = b
      <3>1. n <= d
        BY <2>2, <2>4 DEF n
      <3>2. n < d
        BY <3>1, <2>1, <1>1, <1>2
      <3>3. n + HDR + B[n].size <= d /\ m # 0 /\ m <= d
        BY <3>2, <2>1, <1>2, <1>3 DEF m
      <3>4. c + HDR + M[c].size = n + HDR + B[n].size
        BY <2>4, <1>1, <1>2, <1>5, Sizes
      <3> QED BY <3>3, <3>4, <2>4, <1>5
    <2> QED BY <2>3, <2>4
  <1>11. h = 0 => DOMAIN M = {}
    BY <1>2, <1>3
  <1>12. h # 0 => h \in DOMAIN M
    BY <1>2, <1>3, <1>4
  <1>13. ListOK(h, M)
    <2>1. \A c \in DOMAIN M :
             /\ c \in Nat \ {0} /\ c < WORD /\ M[c].size \in Nat /\ M[c].free \in BOOLEAN
             /\ c % ALIGN = 0 /\ c + HDR + M[c].size <= WORD
             /\ M[c].prev = 0 <=> c = h
             /\ M[c].prev # 0 => M[c].prev \in DOMAIN M /\ M[c].prev < c /\ M[M[c].prev].next = c
             /\ M[c].next # 0 => M[c].next \in DOMAIN M /\ c < M[c].next /\ M[M[c].next].prev = c
      BY <1>7, <1>8, <1>9
    <2>2. \A c, d \in DOMAIN M : c < d =>
             c + HDR + M[c].size <= d /\ M[c].next # 0 /\ M[c].next <= d
      BY <1>10
    <2>3. Shape(M)
      BY <1>2
    <2> QED BY <2>1, <2>2, <2>3, <1>11, <1>12, ListFromFields
  <1>14. Covered(M) = Covered(B)
    <2> DEFINE In(y, D, c) == c <= y /\ y < c + HDR + D[c].size
    <2>1. \A y : y \in Covered(M) <=> y \in Int /\ \E c \in DOMAIN M : In(y, M, c)
      BY <1>13, CoveredBytes
    <2>2. \A y : y \in Covered(B) <=> y \in Int /\ \E c \in DOMAIN B : In(y, B, c)
      BY CoveredBytes
    <2>3. \A y, c : c # b /\ c \in DOMAIN M => (In(y, M, c) <=> In(y, B, c))
      BY <1>5
    <2>4. \A y \in Int : In(y, M, b) <=> In(y, B, b) \/ In(y, B, n)
      BY <1>1, <1>2, <1>5, Sizes
    <2>5. \A c : c \in DOMAIN B <=> c \in DOMAIN M \/ c = n
      BY <1>2
    <2> HIDE DEF In
    <2>6. \A y \in Int : (\E c \in DOMAIN M : In(y, M, c)) <=> (\E c \in DOMAIN B : In(y, B, c))
      BY <2>3, <2>4, <2>5, <1>4
    <2> QED BY <2>1, <2>2, <2>6
  <1>15. M[b].size >= B[b].size
    BY <1>1, <1>2, <1>5, Sizes
  <1>16. ASSUME NEW c \in DOMAIN M, c # b, CanMerge(M, c)
         PROVE  CanMerge(B, c) /\ M[c].next = B[c].next
    <2> DEFINE d == B[c].next
    <2>1. M[c].next = d /\ M[c].size = B[c].size /\ c \in DOMAIN B /\ M[c].free = B[c].free
      BY <1>16, <1>2, <1>5
    <2>2. d # 0 /\ M[c].free /\ M[d].free /\ BlockEnd(M, c) = d
      BY <1>16, <2>1 DEF CanMerge
    <2>3. d \in DOMAIN M
      BY <2>1, <2>2, <1>9
    <2>4. M[d].free = B[d].free /\ BlockEnd(M, c) = BlockEnd(B, c)
      BY <2>1, <2>3, <1>2 DEF BlockEnd
    <2> QED BY <2>1, <2>2, <2>4 DEF CanMerge
  <1>17. ASSUME CanMerge(M, b)
         PROVE  CanMerge(B, n) /\ m # b
    <2>1. m # 0 /\ M[m].free /\ BlockEnd(M, b) = m
      BY <1>17, <1>5 DEF CanMerge
    <2>2. B[m].free
      BY <2>1, <1>2, <1>6
    <2>3. BlockEnd(B, n) = BlockEnd(M, b)
      BY <1>1, <1>2, <1>5, Sizes DEF BlockEnd
    <2> QED BY <2>1, <2>2, <2>3, <1>2, <1>4 DEF CanMerge, m
  <1>18. M[b].free /\ \A c \in DOMAIN M : M[c].free = B[c].free /\ (c # b => M[c].size = B[c].size)
    BY <1>2, <1>4, <1>5
  <1>19. \A c \in DOMAIN B : c \notin DOMAIN M => B[c].free
    BY <1>2
  <1> QED BY <1>2, <1>4, <1>13, <1>14, <1>15, <1>16, <1>17, <1>18, <1>19 DEF n, m, Merged

LEMMA LeastNumber ==
    ASSUME NEW S \in SUBSET Nat, S # {}
    PROVE  \E x \in S : \A y \in S : x <= y
  <1>1. \E R : IsWellFoundedOn(R, Nat) /\ \A x, y \in Nat : y < x => <<y, x>> \in R
    <2>1. \A x, y \in Nat : y < x => <<y, x>> \in OpToRel(<, Nat)
      BY DEF OpToRel
    <2> QED BY <2>1, NatLessThanWellFounded
  <1>2. PICK R : IsWellFoundedOn(R, Nat) /\ \A x, y \in Nat : y < x => <<y, x>> \in R
    BY <1>1
  <1>3. PICK x \in S : \A y \in S : <<y, x>> \notin R
    BY <1>2, WFMin
  <1>4. \A y \in S : ~ (y < x)
    BY <1>2, <1>3
  <1>5. \A y \in S : x <= y
    BY <1>4
  <1> QED BY <1>3, <1>5

\* The head of the list is its lowest block.
LEMMA HeadFirst ==
    ASSUME NEW h, NEW B, ListOK(h, B)
    PROVE  \A b \in DOMAIN B : h \in DOMAIN B /\ h <= b
  <1> SUFFICES ASSUME DOMAIN B # {}
               PROVE  h \in DOMAIN B /\ \A b \in DOMAIN B : h <= b
    OBVIOUS
  <1>1. DOMAIN B \in SUBSET Nat
    BY Fields
  <1>2. PICK l \in DOMAIN B : \A b \in DOMAIN B : l <= b
    BY <1>1, LeastNumber
  <1>3. B[l].prev # 0 => B[l].prev \in DOMAIN B /\ B[l].prev < l
    BY DEF ListOK
  <1>4. B[l].prev = 0
    BY <1>1, <1>2, <1>3
  <1>5. l = h
    BY <1>4 DEF ListOK
  <1> QED BY <1>2, <1>5

\* Marking a block keeps the list in order.
Marked(h, B, b, C) ==
    /\ ListOK(h, C) /\ Covered(C) = Covered(B) /\ DOMAIN C = DOMAIN B
    /\ \A c \in DOMAIN B :
          /\ C[c].size = B[c].size /\ C[c].prev = B[c].prev /\ C[c].next = B[c].next
          /\ c # b => C[c].free = B[c].free
    /\ \A c \in DOMAIN B : c # b /\ B[c].next # b /\ CanMerge(C, c) => CanMerge(B, c)
    /\ ~ C[b].free => \A c \in DOMAIN B : CanMerge(C, c) => c # b /\ C[c].next # b

LEMMA MarkList ==
    ASSUME NEW h, NEW B, ListOK(h, B), NEW b \in DOMAIN B,
           NEW C, \E f \in BOOLEAN : C = Mark(B, b, f)
    PROVE  Marked(h, B, b, C)
  <1>0. PICK f \in BOOLEAN : C = Mark(B, b, f)
    OBVIOUS
  <1>1. /\ Shape(B) /\ 0 \notin DOMAIN B
        /\ \A c \in DOMAIN B : /\ c \in Nat \ {0} /\ c < WORD /\ B[c].size \in Nat
                               /\ B[c].free \in BOOLEAN
                               /\ BlockEnd(B, c) = c + HDR + B[c].size
    BY Fields
  <1>2. /\ \A c \in DOMAIN B : /\ c % ALIGN = 0 /\ c + HDR + B[c].size <= WORD
                               /\ B[c].prev = 0 <=> c = h
                               /\ B[c].prev # 0 => /\ B[c].prev \in DOMAIN B /\ B[c].prev < c
                                                   /\ B[B[c].prev].next = c
                               /\ B[c].next # 0 => /\ B[c].next \in DOMAIN B /\ c < B[c].next
                                                   /\ B[B[c].next].prev = c
        /\ \A c, d \in DOMAIN B : c < d =>
              c + HDR + B[c].size <= d /\ B[c].next # 0 /\ B[c].next <= d
        /\ h = 0 => DOMAIN B = {}
        /\ h # 0 => h \in DOMAIN B
    BY <1>1 DEF ListOK
  <1>3. /\ Shape(C) /\ DOMAIN C = DOMAIN B
        /\ \A c \in DOMAIN B :
              /\ C[c].size = B[c].size /\ C[c].prev = B[c].prev /\ C[c].next = B[c].next
              /\ C[c].free = IF c = b THEN f ELSE B[c].free
    BY <1>0, <1>1, MarkFields
  <1>4. \A c \in DOMAIN C : C[c].free \in BOOLEAN
    BY <1>1, <1>3
  <1>5. ListOK(h, C)
    <2>1. \A c \in DOMAIN C :
             /\ c \in Nat \ {0} /\ c < WORD /\ C[c].size \in Nat /\ C[c].free \in BOOLEAN
             /\ c % ALIGN = 0 /\ c + HDR + C[c].size <= WORD
             /\ C[c].prev = 0 <=> c = h
             /\ C[c].prev # 0 => C[c].prev \in DOMAIN C /\ C[c].prev < c /\ C[C[c].prev].next = c
             /\ C[c].next # 0 => C[c].next \in DOMAIN C /\ c < C[c].next /\ C[C[c].next].prev = c
      <3> SUFFICES ASSUME NEW c \in DOMAIN B
                   PROVE  /\ c \in Nat \ {0} /\ c < WORD /\ C[c].size \in Nat /\ C[c].free \in BOOLEAN
                          /\ c % ALIGN = 0 /\ c + HDR + C[c].size <= WORD
                          /\ C[c].prev = 0 <=> c = h
                          /\ C[c].prev # 0 => /\ C[c].prev \in DOMAIN B /\ C[c].prev < c
                                              /\ C[C[c].prev].next = c
                          /\ C[c].next # 0 => /\ C[c].next \in DOMAIN B /\ c < C[c].next
                                              /\ C[C[c].next].prev = c
        BY <1>3
      <3>1. /\ C[c].size = B[c].size /\ C[c].prev = B[c].prev /\ C[c].next = B[c].next
            /\ C[c].free \in BOOLEAN
        BY <1>3, <1>4
      <3>2. C[c].prev # 0 => C[C[c].prev].next = B[B[c].prev].next
        BY <3>1, <1>2, <1>3
      <3>3. C[c].next # 0 => C[C[c].next].prev = B[B[c].next].prev
        BY <3>1, <1>2, <1>3
      <3> QED BY <3>1, <3>2, <3>3, <1>1, <1>2
    <2>2. \A c, d \in DOMAIN C : c < d =>
             c + HDR + C[c].size <= d /\ C[c].next # 0 /\ C[c].next <= d
      BY <1>2, <1>3
    <2>3. h = 0 => DOMAIN C = {}
      BY <1>2, <1>3
    <2>4. h # 0 => h \in DOMAIN C
      BY <1>2, <1>3
    <2>5. Shape(C)
      BY <1>3
    <2> QED BY <2>1, <2>2, <2>3, <2>4, <2>5, ListFromFields
  <1>6. Covered(C) = Covered(B)
    <2>1. \A y : y \in Covered(C) <=>
                    y \in Int /\ \E c \in DOMAIN C : c <= y /\ y < c + HDR + C[c].size
      BY <1>5, CoveredBytes
    <2>2. \A y : y \in Covered(B) <=>
                    y \in Int /\ \E c \in DOMAIN B : c <= y /\ y < c + HDR + B[c].size
      BY CoveredBytes
    <2>3. \A y : (\E c \in DOMAIN C : c <= y /\ y < c + HDR + C[c].size)
                 <=> (\E c \in DOMAIN B : c <= y /\ y < c + HDR + B[c].size)
      BY <1>3
    <2> HIDE DEF Covered
    <2> QED BY <2>1, <2>2, <2>3
  <1>7. ASSUME NEW c \in DOMAIN B, c # b, B[c].next # b, CanMerge(C, c)
        PROVE  CanMerge(B, c)
    <2>1. /\ C[c].next = B[c].next /\ C[c].free = B[c].free /\ BlockEnd(C, c) = BlockEnd(B, c)
      BY <1>7, <1>3 DEF BlockEnd
    <2>2. B[c].next # 0 /\ C[c].free /\ C[B[c].next].free /\ BlockEnd(C, c) = B[c].next
      BY <1>7, <2>1 DEF CanMerge
    <2>3. C[B[c].next].free = B[B[c].next].free
      BY <2>2, <1>7, <1>2, <1>3
    <2> QED BY <2>1, <2>2, <2>3 DEF CanMerge
  <1>8. ASSUME ~ C[b].free, NEW c \in DOMAIN B, CanMerge(C, c)
        PROVE  c # b /\ C[c].next # b
    <2>1. C[c].free /\ C[C[c].next].free
      BY <1>8 DEF CanMerge
    <2> QED BY <2>1, <1>8
  <1> QED BY <1>3, <1>5, <1>6, <1>7, <1>8 DEF Marked

LEMMA MarkValue ==
    ASSUME NEW B, NEW b \in DOMAIN B, Shape(B)
    PROVE  Mark(B, b, TRUE)[b].free /\ ~ Mark(B, b, FALSE)[b].free
  <1>1. IsHeader(B[b])
    BY DEF Shape
  <1>2. Mark(B, b, TRUE)[b] = [B[b] EXCEPT !.free = TRUE]
    BY DEF Mark
  <1>3. Mark(B, b, FALSE)[b] = [B[b] EXCEPT !.free = FALSE]
    BY DEF Mark
  <1>4. [B[b] EXCEPT !.free = TRUE].free /\ ~ [B[b] EXCEPT !.free = FALSE].free
    BY <1>1 DEF IsHeader
  <1> QED BY <1>2, <1>3, <1>4

\* insert_block below all blocks: the new block becomes the first of the list.
Inserted(B, a, len, C) ==
    /\ ListOK(a, C) /\ C[a].prev = 0 /\ C[a].size = len - HDR /\ C[a].free
    /\ a \notin DOMAIN B /\ DOMAIN C = DOMAIN B \cup {a}
    /\ \A y : y \in Covered(C) <=> y \in Covered(B) \/ y \in Bytes(a, len)
    /\ \A c \in DOMAIN B : /\ C[c].size = B[c].size /\ C[c].free = B[c].free
                           /\ C[c].next = B[c].next
    /\ \A c \in DOMAIN B : CanMerge(C, c) => CanMerge(B, c)

LEMMA InsertList ==
    ASSUME NEW h, NEW B, ListOK(h, B), NEW a \in Nat \ {0}, NEW len \in Nat,
           len >= HDR, a + len <= WORD, a % ALIGN = 0, \A b \in DOMAIN B : a + len <= b,
           NEW C, C = InsertBlock(h, B, a, len - HDR)
    PROVE  Inserted(B, a, len, C)
  <1>1. /\ Shape(B) /\ 0 \notin DOMAIN B
        /\ \A c \in DOMAIN B : /\ c \in Nat \ {0} /\ c < WORD /\ B[c].size \in Nat
                               /\ B[c].free \in BOOLEAN /\ B[c].next \in Nat
                               /\ BlockEnd(B, c) = c + HDR + B[c].size
    BY Fields
  <1>2. /\ \A c \in DOMAIN B : /\ c % ALIGN = 0 /\ c + HDR + B[c].size <= WORD
                               /\ B[c].prev = 0 <=> c = h
                               /\ B[c].prev # 0 => /\ B[c].prev \in DOMAIN B /\ B[c].prev < c
                                                   /\ B[B[c].prev].next = c
                               /\ B[c].next # 0 => /\ B[c].next \in DOMAIN B /\ c < B[c].next
                                                   /\ B[B[c].next].prev = c
        /\ \A c, d \in DOMAIN B : c < d =>
              c + HDR + B[c].size <= d /\ B[c].next # 0 /\ B[c].next <= d
        /\ h = 0 => DOMAIN B = {}
        /\ h # 0 => h \in DOMAIN B
    BY <1>1 DEF ListOK
  <1>3. \A c \in DOMAIN B : a < c
    BY <1>1, Sizes
  <1>4. a \notin DOMAIN B /\ (h = 0 \/ a < h)
    BY <1>2, <1>3
  <1> DEFINE r == [size |-> len - HDR, free |-> TRUE, prev |-> 0, next |-> h]
  <1> DEFINE B1 == Write(B, a, r)
  <1>5. C = LinkPrev(B1, h, a)
    BY <1>4 DEF InsertBlock, LinkNext
  <1>6. IsHeader(r) /\ r.size = len - HDR /\ r.free /\ r.prev = 0 /\ r.next = h
    BY DEF IsHeader
  <1> HIDE DEF r
  <1>61. B1 = Write(B, a, r)
    OBVIOUS
  <1> HIDE DEF B1
  <1>7. /\ Shape(B1) /\ DOMAIN B1 = DOMAIN B \cup {a} /\ B1[a] = r
        /\ \A c \in DOMAIN B : B1[c] = B[c]
    <2>1. DOMAIN B1 = DOMAIN B \cup {a} /\ B1[a] = r /\ \A c \in DOMAIN B : B1[c] = B[c]
      BY <1>4, <1>61 DEF Write
    <2>2. B1 = [c \in DOMAIN B1 |-> B1[c]]
      BY <1>61 DEF Write
    <2> QED BY <2>1, <2>2, <1>1, <1>6 DEF Shape
  <1>8. 0 \notin DOMAIN B1 /\ (h = 0 \/ h \in DOMAIN B1)
    BY <1>1, <1>2, <1>7
  <1>9. /\ Shape(C) /\ DOMAIN C = DOMAIN B1
        /\ \A c \in DOMAIN B1 :
              /\ C[c].size = B1[c].size /\ C[c].free = B1[c].free /\ C[c].next = B1[c].next
              /\ C[c].prev = IF c = h THEN a ELSE B1[c].prev
    BY <1>5, <1>7, <1>8, LinkPrevFields
  <1>10. /\ C[a].size = len - HDR /\ C[a].free /\ C[a].prev = 0 /\ C[a].next = h
         /\ DOMAIN C = DOMAIN B \cup {a}
         /\ \A c \in DOMAIN B : /\ C[c].size = B[c].size /\ C[c].free = B[c].free
                                /\ C[c].next = B[c].next
                                /\ C[c].prev = IF c = h THEN a ELSE B[c].prev
    <2>1. a # h
      BY <1>2, <1>4
    <2> QED BY <2>1, <1>4, <1>6, <1>7, <1>9
  <1>11. len - HDR \in Nat /\ a + HDR + (len - HDR) = a + len /\ a < WORD
    BY Sizes
  <1>12. C[a].free \in BOOLEAN
    <2>1. r.free \in BOOLEAN
      BY DEF r
    <2> QED BY <2>1, <1>7, <1>9
  <1>13. ListOK(a, C)
    <2>1. ASSUME NEW c \in DOMAIN C
          PROVE  /\ c \in Nat \ {0} /\ c < WORD /\ C[c].size \in Nat /\ C[c].free \in BOOLEAN
                 /\ c % ALIGN = 0 /\ c + HDR + C[c].size <= WORD
      <3>1. CASE c = a
        BY <3>1, <1>10, <1>11, <1>12
      <3>2. CASE c # a
        BY <3>2, <1>1, <1>2, <1>10
      <3> QED BY <3>1, <3>2
    <2>2. ASSUME NEW c \in DOMAIN C
          PROVE  /\ C[c].prev = 0 <=> c = a
                 /\ C[c].prev # 0 => C[c].prev \in DOMAIN C /\ C[c].prev < c /\ C[C[c].prev].next = c
      <3>1. CASE c = a
        BY <3>1, <1>10
      <3>2. CASE c = h /\ c # a
        <4>1. c \in DOMAIN B
          BY <3>2, <1>10
        <4> QED BY <3>2, <4>1, <1>3, <1>10
      <3>3. CASE c # a /\ c # h
        <4>1. c \in DOMAIN B /\ C[c].prev = B[c].prev /\ B[c].prev # 0
          BY <3>3, <1>2, <1>10
        <4>2. B[c].prev \in DOMAIN B /\ B[c].prev < c /\ B[B[c].prev].next = c
          BY <4>1, <1>2
        <4> QED BY <3>3, <4>1, <4>2, <1>10
      <3> QED BY <3>1, <3>2, <3>3
    <2>3. ASSUME NEW c \in DOMAIN C
          PROVE  C[c].next # 0 => C[c].next \in DOMAIN C /\ c < C[c].next /\ C[C[c].next].prev = c
      <3>1. CASE c = a
        BY <3>1, <1>2, <1>3, <1>10
      <3>2. CASE c # a
        <4>1. c \in DOMAIN B /\ C[c].next = B[c].next
          BY <3>2, <1>10
        <4>2. ASSUME B[c].next # 0
              PROVE  B[c].next \in DOMAIN B /\ c < B[c].next /\ C[B[c].next].prev = c
          <5>1. B[c].next \in DOMAIN B /\ c < B[c].next /\ B[B[c].next].prev = c
            BY <4>1, <4>2, <1>2
          <5>2. B[c].next # h
            BY <4>1, <5>1, <1>1, <1>2
          <5> QED BY <5>1, <5>2, <1>10
        <4> QED BY <4>1, <4>2, <1>10
      <3> QED BY <3>1, <3>2
    <2>4. ASSUME NEW c \in DOMAIN C, NEW d \in DOMAIN C, c < d
          PROVE  c + HDR + C[c].size <= d /\ C[c].next # 0 /\ C[c].next <= d
      <3>0. d \in DOMAIN B
        BY <2>4, <1>1, <1>3, <1>10
      <3>1. CASE c = a
        <4>1. a + len <= d
          BY <3>0
        <4>2. h \in DOMAIN B /\ h <= d
          <5>1. h # 0 /\ h \in DOMAIN B
            BY <3>0, <1>2
          <5> QED BY <5>1, <3>0, HeadFirst
        <4> QED BY <3>1, <4>1, <4>2, <1>1, <1>10, <1>11
      <3>2. CASE c # a
        <4>1. c \in DOMAIN B
          BY <3>2, <1>10
        <4> QED BY <3>0, <4>1, <2>4, <1>2, <1>10
      <3> QED BY <3>1, <3>2
    <2>5. \A c \in DOMAIN C :
             /\ c \in Nat \ {0} /\ c < WORD /\ C[c].size \in Nat /\ C[c].free \in BOOLEAN
             /\ c % ALIGN = 0 /\ c + HDR + C[c].size <= WORD
             /\ C[c].prev = 0 <=> c = a
             /\ C[c].prev # 0 => C[c].prev \in DOMAIN C /\ C[c].prev < c /\ C[C[c].prev].next = c
             /\ C[c].next # 0 => C[c].next \in DOMAIN C /\ c < C[c].next /\ C[C[c].next].prev = c
      BY <2>1, <2>2, <2>3
    <2>6. \A c, d \in DOMAIN C : c < d =>
             c + HDR + C[c].size <= d /\ C[c].next # 0 /\ C[c].next <= d
      BY <2>4
    <2>7. a # 0 /\ a \in DOMAIN C /\ Shape(C)
      BY <1>9, <1>10
    <2> QED BY <2>5, <2>6, <2>7, ListFromFields
  <1>14. \A y : y \in Covered(C) <=> y \in Covered(B) \/ y \in Bytes(a, len)
    <2> DEFINE In(y, D, c) == c <= y /\ y < c + HDR + D[c].size
    <2>1. \A y : y \in Covered(C) <=> y \in Int /\ \E c \in DOMAIN C : In(y, C, c)
      BY <1>13, CoveredBytes
    <2>2. \A y : y \in Covered(B) <=> y \in Int /\ \E c \in DOMAIN B : In(y, B, c)
      BY CoveredBytes
    <2>3. \A y, c : c \in DOMAIN B => (In(y, C, c) <=> In(y, B, c))
      BY <1>10
    <2>4. \A y : y \in Bytes(a, len) <=> y \in Int /\ In(y, C, a)
      BY <1>10, <1>11 DEF Bytes
    <2>5. \A c : c \in DOMAIN C <=> c \in DOMAIN B \/ c = a
      BY <1>10
    <2> HIDE DEF In
    <2> QED BY <2>1, <2>2, <2>3, <2>4, <2>5
  <1>15. ASSUME NEW c \in DOMAIN B, CanMerge(C, c)
         PROVE  CanMerge(B, c)
    <2>1. C[c].next = B[c].next /\ C[c].free = B[c].free /\ BlockEnd(C, c) = BlockEnd(B, c)
      BY <1>10 DEF BlockEnd
    <2>2. B[c].next # 0 /\ C[c].free /\ C[B[c].next].free /\ BlockEnd(C, c) = B[c].next
      BY <1>15, <2>1 DEF CanMerge
    <2>3. C[B[c].next].free = B[B[c].next].free
      BY <2>2, <1>2, <1>10
    <2> QED BY <2>1, <2>2, <2>3 DEF CanMerge
  <1> QED BY <1>4, <1>10, <1>13, <1>14, <1>15 DEF Inserted

\* split_block: a block with room for another is cut in two.
Halved(h, B, b, s, C) ==
    \E rest \in DOMAIN C \ DOMAIN B :
        /\ ListOK(h, C) /\ Covered(C) = Covered(B)
        /\ DOMAIN C = DOMAIN B \cup {rest} /\ C[b].size = s
        /\ C[rest].free
        /\ \A c \in DOMAIN B : /\ C[c].free = B[c].free
                               /\ c # b => C[c].size = B[c].size
        /\ \A c \in DOMAIN B : c # b /\ C[c].next # b /\ CanMerge(C, c) => CanMerge(B, c)
        /\ CanMerge(C, rest) => CanMerge(B, b)

LEMMA SplitList ==
    ASSUME NEW h, NEW B, ListOK(h, B), NEW b \in DOMAIN B, B[b].free, NEW s \in Nat,
           s % ALIGN = 0, HDR % ALIGN = 0, s + HDR + MIN_PAYLOAD < WORD,
           RoomToSplit(B, b, s), NEW C, C = SplitBlock(B, b, s)
    PROVE  Halved(h, B, b, s, C)
  <1> DEFINE rest == b + HDR + s
  <1> DEFINE n == B[b].next
  <1> DEFINE z == B[b].size - s - HDR
  <1>1. /\ Shape(B) /\ 0 \notin DOMAIN B
        /\ \A c \in DOMAIN B : /\ c \in Nat \ {0} /\ c < WORD /\ B[c].size \in Nat
                               /\ B[c].free \in BOOLEAN /\ B[c].next \in Nat
                               /\ BlockEnd(B, c) = c + HDR + B[c].size
    BY Fields
  <1>2. /\ \A c \in DOMAIN B : /\ c % ALIGN = 0 /\ c + HDR + B[c].size <= WORD
                               /\ B[c].prev = 0 <=> c = h
                               /\ B[c].prev # 0 => /\ B[c].prev \in DOMAIN B /\ B[c].prev < c
                                                   /\ B[B[c].prev].next = c
                               /\ B[c].next # 0 => /\ B[c].next \in DOMAIN B /\ c < B[c].next
                                                   /\ B[B[c].next].prev = c
        /\ \A c, d \in DOMAIN B : c < d =>
              c + HDR + B[c].size <= d /\ B[c].next # 0 /\ B[c].next <= d
        /\ h = 0 => DOMAIN B = {}
        /\ h # 0 => h \in DOMAIN B
    BY <1>1 DEF ListOK
  <1>3. B[b].size >= s + HDR + MIN_PAYLOAD
    <2>1. s + HDR + MIN_PAYLOAD \in 0 .. WORD - 1
      BY Sizes
    <2>2. (s + HDR + MIN_PAYLOAD) % WORD = s + HDR + MIN_PAYLOAD
      BY <2>1, Sizes
    <2>3. ~ (B[b].size < s + HDR + MIN_PAYLOAD)
      BY <2>2 DEF RoomToSplit
    <2> QED BY <2>3, <1>1, Sizes
  <1>4. /\ rest \in Nat \ {0} /\ z \in Nat /\ rest < WORD /\ z < WORD /\ b < rest
        /\ rest + HDR + z = b + HDR + B[b].size
    <2>1. b + HDR + B[b].size <= WORD /\ b \in Nat \ {0} /\ B[b].size \in Nat
      BY <1>1, <1>2
    <2> QED BY <2>1, <1>3, Sizes
  <1>5. rest % WORD = rest /\ z % WORD = z
    <2>1. \A x \in Nat : x < WORD => x % WORD = x
      BY Sizes
    <2> HIDE DEF rest, z
    <2> QED BY <1>4, <2>1
  <1>6. rest % ALIGN = 0
    <2>1. \A x, y \in Nat : x % ALIGN = 0 /\ y % ALIGN = 0 => (x + y) % ALIGN = 0
      BY SumAligned, Sizes
    <2>2. b \in Nat /\ b % ALIGN = 0
      BY <1>1, <1>2
    <2>3. (b + HDR) % ALIGN = 0 /\ b + HDR \in Nat
      BY <2>1, <2>2, Sizes
    <2> QED BY <2>1, <2>3, Sizes
  <1> DEFINE r == [size |-> z, free |-> TRUE, prev |-> b, next |-> n]
  <1> DEFINE B1 == Write(B, rest, r)
  <1> DEFINE B2 == LinkPrev(B1, n, rest)
  <1>7. C = Resize(B2, b, s, rest)
    BY <1>5 DEF SplitBlock, Resize
  <1>8. rest \notin DOMAIN B /\ rest # b
    <2>1. ASSUME NEW c \in DOMAIN B, b < c PROVE rest < c
      <3>1. b + HDR + B[b].size <= c /\ c \in Nat /\ b \in Nat /\ B[b].size \in Nat
        BY <2>1, <1>1, <1>2
      <3> QED BY <3>1, <1>3, Sizes
    <2> HIDE DEF rest
    <2>2. \A c \in DOMAIN B : c <= b \/ b < c
      BY <1>1
    <2> QED BY <2>1, <2>2, <1>1, <1>4
  <1>9. IsHeader(r) /\ r.size = z /\ r.free /\ r.free \in BOOLEAN /\ r.prev = b /\ r.next = n
    BY DEF IsHeader
  <1>10. B1 = Write(B, rest, r) /\ B2 = LinkPrev(B1, n, rest)
    OBVIOUS
  <1> HIDE DEF r, B1, B2, rest, z, n
  <1>11. Shape(B1) /\ DOMAIN B1 = DOMAIN B \cup {rest} /\ B1[rest] = r
         /\ \A c \in DOMAIN B : B1[c] = B[c]
    <2>1. DOMAIN B1 = DOMAIN B \cup {rest} /\ B1[rest] = r /\ \A c \in DOMAIN B : B1[c] = B[c]
      BY <1>8, <1>10 DEF Write
    <2>2. B1 = [c \in DOMAIN B1 |-> B1[c]]
      BY <1>10 DEF Write
    <2> QED BY <2>1, <2>2, <1>1, <1>9 DEF Shape
  <1>12. n = 0 \/ n \in DOMAIN B
    BY <1>2 DEF n
  <1>13. 0 \notin DOMAIN B1 /\ (n = 0 \/ n \in DOMAIN B1)
    BY <1>1, <1>4, <1>11, <1>12
  <1>14. /\ Shape(B2) /\ DOMAIN B2 = DOMAIN B1
         /\ \A c \in DOMAIN B1 :
               /\ B2[c].size = B1[c].size /\ B2[c].free = B1[c].free /\ B2[c].next = B1[c].next
               /\ B2[c].prev = IF c = n THEN rest ELSE B1[c].prev
    BY <1>10, <1>11, <1>13, LinkPrevFields
  <1>15. b \in DOMAIN B2
    BY <1>11, <1>14
  <1>16. /\ Shape(C) /\ DOMAIN C = DOMAIN B2
         /\ \A c \in DOMAIN B2 :
               /\ C[c].size = IF c = b THEN s ELSE B2[c].size
               /\ C[c].free = B2[c].free /\ C[c].prev = B2[c].prev
               /\ C[c].next = IF c = b THEN rest ELSE B2[c].next
    BY <1>7, <1>14, <1>15, ResizeFields
  <1>17. n # b /\ n # rest
    <2>1. n # 0 => n \in DOMAIN B /\ b < n
      BY <1>2 DEF n
    <2>2. b \in Nat \ {0}
      BY <1>1
    <2> QED BY <2>1, <2>2, <1>1, <1>4, <1>8
  <1>18. /\ DOMAIN C = DOMAIN B \cup {rest}
         /\ C[rest].size = z /\ C[rest].free /\ C[rest].free \in BOOLEAN
         /\ C[rest].prev = b /\ C[rest].next = n
         /\ C[b].size = s /\ C[b].next = rest
         /\ \A c \in DOMAIN B : C[c].free = B[c].free
         /\ \A c \in DOMAIN B : c # b => C[c].size = B[c].size /\ C[c].next = B[c].next
         /\ \A c \in DOMAIN B : c # n => C[c].prev = B[c].prev
         /\ n # 0 => C[n].prev = rest
    <2>1. rest \in DOMAIN B2 /\ b # rest /\ \A c \in DOMAIN B : c \in DOMAIN B2 /\ c # rest
      BY <1>8, <1>11, <1>14
    <2>2. /\ C[rest].size = z /\ C[rest].free /\ C[rest].free \in BOOLEAN
          /\ C[rest].prev = b /\ C[rest].next = n
      <3>1. C[rest].size = B1[rest].size /\ C[rest].free = B1[rest].free
            /\ C[rest].prev = B1[rest].prev /\ C[rest].next = B1[rest].next
        BY <2>1, <1>14, <1>16, <1>17
      <3> QED BY <3>1, <1>9, <1>11
    <2>3. C[b].size = s /\ C[b].next = rest
      BY <1>15, <1>16
    <2>4. /\ \A c \in DOMAIN B : C[c].free = B[c].free
          /\ \A c \in DOMAIN B : c # b => C[c].size = B[c].size /\ C[c].next = B[c].next
          /\ \A c \in DOMAIN B : c # n => C[c].prev = B[c].prev
      BY <2>1, <1>11, <1>14, <1>16
    <2>5. n # 0 => C[n].prev = rest
      BY <2>1, <1>12, <1>14, <1>16
    <2>6. DOMAIN C = DOMAIN B \cup {rest}
      BY <1>11, <1>14, <1>16
    <2> QED BY <2>2, <2>3, <2>4, <2>5, <2>6
  <1>19. ListOK(h, C)
    <2>1. ASSUME NEW c \in DOMAIN C
          PROVE  /\ c \in Nat \ {0} /\ c < WORD /\ C[c].size \in Nat /\ C[c].free \in BOOLEAN
                 /\ c % ALIGN = 0 /\ c + HDR + C[c].size <= WORD
      <3>1. CASE c = rest
        <4>1. b + HDR + B[b].size <= WORD
          BY <1>2
        <4> QED BY <3>1, <4>1, <1>4, <1>6, <1>18
      <3>2. CASE c = b
        <4>1. b + HDR + s <= WORD
          <5>1. b + HDR + s < WORD /\ b \in Nat
            BY <1>1, <1>4 DEF rest
          <5> QED BY <5>1, Sizes
        <4> QED BY <3>2, <4>1, <1>1, <1>2, <1>18
      <3>3. CASE c # rest /\ c # b
        BY <3>3, <1>1, <1>2, <1>18
      <3> QED BY <3>1, <3>2, <3>3
    <2>2. ASSUME NEW c \in DOMAIN C
          PROVE  /\ C[c].prev = 0 <=> c = h
                 /\ C[c].prev # 0 => C[c].prev \in DOMAIN C /\ C[c].prev < c /\ C[C[c].prev].next = c
      <3>1. CASE c = rest
        <4>1. b # 0 /\ h # rest
          BY <1>1, <1>2, <1>4, <1>8
        <4> QED BY <3>1, <4>1, <1>4, <1>18
      <3>2. CASE c = n /\ c # rest
        <4>1. c \in DOMAIN B /\ B[c].prev = b /\ c # 0 /\ b < c
          BY <3>2, <1>1, <1>2, <1>18 DEF n
        <4>2. c # h
          BY <4>1, <1>1, <1>2
        <4>3. rest < c
          <5>1. b + HDR + B[b].size <= c
            BY <4>1, <1>2
          <5>2. c \in Nat /\ b \in Nat /\ B[b].size \in Nat
            BY <4>1, <1>1
          <5>3. b + HDR + s < c
            BY <5>1, <5>2, <1>3, Sizes
          <5> QED BY <5>3 DEF rest
        <4> QED BY <3>2, <4>1, <4>2, <4>3, <1>4, <1>18
      <3>3. CASE c # rest /\ c # n
        <4>1. c \in DOMAIN B /\ C[c].prev = B[c].prev
          BY <3>3, <1>18
        <4>2. ASSUME B[c].prev # 0
              PROVE  B[c].prev \in DOMAIN B /\ B[c].prev < c /\ C[B[c].prev].next = c
          <5>1. B[c].prev \in DOMAIN B /\ B[c].prev < c /\ B[B[c].prev].next = c
            BY <4>1, <4>2, <1>2
          <5>2. B[c].prev # b
            BY <5>1, <3>3 DEF n
          <5> QED BY <5>1, <5>2, <1>18
        <4> QED BY <4>1, <4>2, <1>2, <1>18
      <3> QED BY <3>1, <3>2, <3>3
    <2>3. ASSUME NEW c \in DOMAIN C
          PROVE  C[c].next # 0 => C[c].next \in DOMAIN C /\ c < C[c].next /\ C[C[c].next].prev = c
      <3>1. CASE c = rest
        <4>1. ASSUME n # 0 PROVE n \in DOMAIN B /\ rest < n
          <5>1. n \in DOMAIN B /\ b < n
            BY <4>1, <1>2 DEF n
          <5>2. b + HDR + B[b].size <= n
            BY <5>1, <1>2
          <5>3. n \in Nat /\ b \in Nat /\ B[b].size \in Nat
            BY <5>1, <1>1
          <5> QED BY <5>1, <5>2, <5>3, <1>3, Sizes DEF rest
        <4> QED BY <3>1, <4>1, <1>18
      <3>2. CASE c = b
        BY <3>2, <1>4, <1>18
      <3>3. CASE c # rest /\ c # b
        <4> DEFINE d == B[c].next
        <4>1. c \in DOMAIN B /\ C[c].next = d
          BY <3>3, <1>18
        <4>2. ASSUME d # 0
              PROVE  d \in DOMAIN B /\ c < d /\ C[d].prev = c
          <5>1. d \in DOMAIN B /\ c < d /\ B[d].prev = c
            BY <4>1, <4>2, <1>2
          <5> HIDE DEF d
          <5>2. d # n
            <6>1. n # 0 => B[n].prev = b
              BY <1>2 DEF n
            <6> QED BY <6>1, <5>1, <4>2, <3>3
          <5> QED BY <5>1, <5>2, <1>18
        <4> QED BY <4>1, <4>2, <1>18
      <3> QED BY <3>1, <3>2, <3>3
    <2>4. ASSUME NEW c \in DOMAIN C, NEW d \in DOMAIN C, c < d
          PROVE  c + HDR + C[c].size <= d /\ C[c].next # 0 /\ C[c].next <= d
      <3>1. CASE c = rest
        <4>1. d \in DOMAIN B /\ d # rest
          BY <3>1, <2>4, <1>4, <1>18
        <4>2. b < d
          BY <3>1, <4>1, <2>4, <1>1, <1>4
        <4>3. b + HDR + B[b].size <= d /\ n # 0 /\ n <= d
          BY <4>1, <4>2, <1>2 DEF n
        <4> QED BY <3>1, <4>3, <1>4, <1>18
      <3>2. CASE c = b
        <4>1. rest <= d
          <5>1. CASE d = rest
            BY <5>1, <1>4
          <5>2. CASE d # rest
            <6>1. d \in DOMAIN B /\ b < d
              BY <5>2, <3>2, <2>4, <1>18
            <6>2. b + HDR + B[b].size <= d /\ d \in Nat /\ b \in Nat /\ B[b].size \in Nat
              BY <6>1, <1>1, <1>2
            <6> QED BY <6>2, <1>3, Sizes DEF rest
          <5> QED BY <5>1, <5>2
        <4>2. c + HDR + C[c].size = rest /\ C[c].next = rest
          BY <3>2, <1>18 DEF rest
        <4> QED BY <4>1, <4>2, <1>4
      <3>3. CASE c # rest /\ c # b
        <4>1. c \in DOMAIN B /\ C[c].size = B[c].size /\ C[c].next = B[c].next
          BY <3>3, <1>18
        <4>2. CASE d # rest
          <5>1. d \in DOMAIN B
            BY <4>2, <1>18
          <5> QED BY <4>1, <5>1, <2>4, <1>2
        <4>3. CASE d = rest
          <5>1. ~ (b < c)
            <6> SUFFICES ASSUME b < c PROVE FALSE
              OBVIOUS
            <6>1. b + HDR + B[b].size <= c /\ c \in Nat /\ b \in Nat /\ B[b].size \in Nat
              BY <4>1, <1>1, <1>2
            <6> QED BY <6>1, <4>3, <2>4, <1>3, Sizes DEF rest
          <5>2. c < b
            BY <5>1, <4>1, <3>3, <1>1
          <5>3. c + HDR + B[c].size <= b /\ B[c].next # 0 /\ B[c].next <= b
            BY <5>2, <4>1, <1>2
          <5>4. c \in Nat /\ B[c].size \in Nat /\ B[c].next \in Nat /\ b \in Nat
            BY <4>1, <1>1
          <5> QED BY <5>3, <5>4, <4>1, <4>3, <1>4, Sizes
        <4> QED BY <4>2, <4>3
      <3> QED BY <3>1, <3>2, <3>3
    <2>5. \A c \in DOMAIN C :
             /\ c \in Nat \ {0} /\ c < WORD /\ C[c].size \in Nat /\ C[c].free \in BOOLEAN
             /\ c % ALIGN = 0 /\ c + HDR + C[c].size <= WORD
             /\ C[c].prev = 0 <=> c = h
             /\ C[c].prev # 0 => C[c].prev \in DOMAIN C /\ C[c].prev < c /\ C[C[c].prev].next = c
             /\ C[c].next # 0 => C[c].next \in DOMAIN C /\ c < C[c].next /\ C[C[c].next].prev = c
      BY <2>1, <2>2, <2>3
    <2>6. \A c, d \in DOMAIN C : c < d =>
             c + HDR + C[c].size <= d /\ C[c].next # 0 /\ C[c].next <= d
      BY <2>4
    <2>7. h # 0 /\ h \in DOMAIN C /\ Shape(C)
      BY <1>1, <1>2, <1>16, <1>18
    <2> QED BY <2>5, <2>6, <2>7, ListFromFields
  <1>20. Covered(C) = Covered(B)
    <2> DEFINE In(y, D, c) == c <= y /\ y < c + HDR + D[c].size
    <2>1. \A y : y \in Covered(C) <=> y \in Int /\ \E c \in DOMAIN C : In(y, C, c)
      BY <1>19, CoveredBytes
    <2>2. \A y : y \in Covered(B) <=> y \in Int /\ \E c \in DOMAIN B : In(y, B, c)
      BY CoveredBytes
    <2>3. \A y, c : c # b /\ c \in DOMAIN B => (In(y, C, c) <=> In(y, B, c))
      BY <1>18
    <2>4. \A y \in Int : In(y, B, b) <=> In(y, C, b) \/ In(y, C, rest)
      <3>1. b \in Nat /\ B[b].size \in Nat
        BY <1>1
      <3> QED BY <3>1, <1>3, <1>4, <1>18, Sizes DEF rest, z
    <2>5. \A c : c \in DOMAIN C <=> c \in DOMAIN B \/ c = rest
      BY <1>18
    <2> HIDE DEF In
    <2>6. \A y \in Int : (\E c \in DOMAIN C : In(y, C, c)) <=> (\E c \in DOMAIN B : In(y, B, c))
      BY <2>3, <2>4, <2>5
    <2> QED BY <2>1, <2>2, <2>6
  <1>21. ASSUME NEW c \in DOMAIN B, c # b, C[c].next # b, CanMerge(C, c)
         PROVE  CanMerge(B, c)
    <2>1. C[c].next = B[c].next /\ C[c].free = B[c].free /\ BlockEnd(C, c) = BlockEnd(B, c)
      BY <1>21, <1>18 DEF BlockEnd
    <2>2. B[c].next # 0 /\ C[c].free /\ C[B[c].next].free /\ BlockEnd(C, c) = B[c].next
      BY <1>21, <2>1 DEF CanMerge
    <2>3. C[B[c].next].free = B[B[c].next].free
      BY <2>2, <1>2, <1>18
    <2> QED BY <2>1, <2>2, <2>3 DEF CanMerge
  <1>22. ASSUME CanMerge(C, rest)
         PROVE  CanMerge(B, b)
    <2>1. n # 0 /\ C[n].free /\ BlockEnd(C, rest) = n
      BY <1>22, <1>18 DEF CanMerge
    <2>2. B[n].free
      BY <2>1, <1>12, <1>18
    <2>3. BlockEnd(B, b) = n
      BY <2>1, <1>1, <1>4, <1>18 DEF BlockEnd
    <2> QED BY <2>1, <2>2, <2>3 DEF CanMerge, n
  <1>23. rest \in DOMAIN C \ DOMAIN B
    BY <1>8, <1>18
  <1> QED BY <1>18, <1>19, <1>20, <1>21, <1>22, <1>23 DEF Halved

----------------------------------------------------------------------------
(* Walking the list.                                                       *)

\* The recursion of List has a solution, and List is it.
LEMMA ListEquation ==
    ASSUME NEW h, NEW B, NEW N \in Nat, N = Cardinality(DOMAIN B)
    PROVE  List(h, B) = [i \in 0 .. N |-> IF i = 0 THEN h ELSE Next0(B, List(h, B)[i - 1])]
  <1> DEFINE IsList(f, n) == f = [i \in 0 .. n |-> IF i = 0 THEN h ELSE Next0(B, f[i - 1])]
  <1>1. \E f : IsList(f, N)
    <2> DEFINE Bad == {n \in 0 .. N : ~ \E f : IsList(f, n)}
    <2> SUFFICES ASSUME Bad # {} PROVE FALSE
      OBVIOUS
    <2>1. PICK n \in Bad : \A m \in Bad : n <= m
      <3>1. Bad \in SUBSET Nat
        OBVIOUS
      <3> HIDE DEF Bad
      <3> QED BY <3>1, LeastNumber
    <2>2. n # 0
      <3> SUFFICES ASSUME n = 0 PROVE FALSE
        OBVIOUS
      <3> DEFINE g == [i \in 0 .. 0 |-> h]
      <3>1. IsList(g, 0)
        OBVIOUS
      <3> QED BY <3>1, <2>1
    <2>3. n - 1 \in 0 .. N /\ n - 1 \notin Bad
      <3>1. n \in 0 .. N
        OBVIOUS
      <3> HIDE DEF Bad
      <3> QED BY <3>1, <2>1, <2>2
    <2>4. PICK f : IsList(f, n - 1)
      BY <2>3
    <2> DEFINE g == [i \in 0 .. n |-> IF i = n THEN Next0(B, f[n - 1]) ELSE f[i]]
    <2>5. \A i \in 0 .. n - 1 : g[i] = f[i] /\ f[i] = IF i = 0 THEN h ELSE Next0(B, f[i - 1])
      BY <2>4, <2>1
    <2>6. \A i \in 0 .. n : g[i] = IF i = 0 THEN h ELSE Next0(B, g[i - 1])
      <3>2. n \in Nat
        BY <2>1
      <3>3. g[n] = Next0(B, g[n - 1])
        BY <2>2, <3>2
      <3>4. \A i \in 1 .. n - 1 : g[i - 1] = f[i - 1]
        BY <2>5, <3>2
      <3> HIDE DEF g
      <3>5. \A i \in 0 .. n - 1 : g[i] = IF i = 0 THEN h ELSE Next0(B, g[i - 1])
        BY <2>5, <3>4, <3>2
      <3> QED BY <3>3, <3>5, <3>2, <2>2
    <2>7. IsList(g, n)
      BY <2>6
    <2> QED BY <2>7, <2>1
  <1>2. List(h, B) = CHOOSE f : IsList(f, N)
    BY DEF List
  <1>3. IsList(List(h, B), N)
    <2> HIDE DEF IsList
    <2> QED BY <1>1, <1>2
  <1> QED BY <1>3

\* The blocks are finitely many.
LEMMA FiniteList ==
    ASSUME NEW h, NEW B, ListOK(h, B)
    PROVE  IsFiniteSet(DOMAIN B) /\ Cardinality(DOMAIN B) \in Nat
  <1>1. DOMAIN B \in SUBSET (1 .. WORD - 1) /\ IsFiniteSet(1 .. WORD - 1)
    <2>1. WORD - 1 \in Int
      BY Sizes
    <2>2. IsFiniteSet(1 .. WORD - 1)
      BY <2>1, FS_Interval
    <2> QED BY <2>2 DEF ListOK
  <1>2. IsFiniteSet(DOMAIN B)
    BY <1>1, FS_Subset
  <1> QED BY <1>2, FS_CardinalityType

\* Every position of the list is a block or lies beyond the end.
LEMMA ListPositions ==
    ASSUME NEW h, NEW B, ListOK(h, B), NEW N, N = Cardinality(DOMAIN B), NEW at, at = List(h, B)
    PROVE  /\ N \in Nat /\ DOMAIN at = 0 .. N /\ at[0] = h
           /\ \A i \in 0 .. N : at[i] = 0 \/ at[i] \in DOMAIN B
           /\ \A i \in 1 .. N : at[i] = Next0(B, at[i - 1])
  <1>1. N \in Nat
    BY FiniteList
  <1>2. at = [i \in 0 .. N |-> IF i = 0 THEN h ELSE Next0(B, at[i - 1])]
    BY <1>1, ListEquation
  <1>3. DOMAIN at = 0 .. N /\ at[0] = h /\ \A i \in 1 .. N : at[i] = Next0(B, at[i - 1])
    BY <1>1, <1>2
  <1>4. h = 0 \/ h \in DOMAIN B
    BY DEF ListOK
  <1>5. \A b : b = 0 \/ b \in DOMAIN B => Next0(B, b) = 0 \/ Next0(B, b) \in DOMAIN B
    BY DEF Next0, ListOK
  <1>6. \A i \in 0 .. N : at[i] = 0 \/ at[i] \in DOMAIN B
    <2> DEFINE Bad == {i \in 0 .. N : ~ (at[i] = 0 \/ at[i] \in DOMAIN B)}
    <2> SUFFICES ASSUME Bad # {} PROVE FALSE
      OBVIOUS
    <2>1. Bad \in SUBSET Nat
      OBVIOUS
    <2>2. PICK n \in Bad : \A m \in Bad : n <= m
      <3> HIDE DEF Bad
      <3> QED BY <2>1, LeastNumber
    <2>3. n \in 0 .. N /\ n # 0
      BY <1>3, <1>4
    <2>4. n - 1 \in 0 .. N /\ n - 1 \notin Bad
      <3> HIDE DEF Bad
      <3> QED BY <1>1, <2>2, <2>3
    <2>5. at[n - 1] = 0 \/ at[n - 1] \in DOMAIN B
      BY <2>4
    <2>6. n \in 1 .. N
      BY <1>1, <2>3
    <2>7. at[n] = 0 \/ at[n] \in DOMAIN B
      BY <1>3, <1>5, <2>5, <2>6
    <2> QED BY <2>7
  <1> QED BY <1>1, <1>3, <1>6

\* find_free_block returns 0 or a free block that is large enough.
LEMMA Found ==
    ASSUME ListOK(head, block), NEW s, NEW b, b = FindFreeBlock(s)
    PROVE  b # 0 => b \in DOMAIN block /\ block[b].free /\ block[b].size >= s
  <1> DEFINE at == List(head, block)
  <1> DEFINE N == Cardinality(DOMAIN block)
  <1> DEFINE fit == {i \in DOMAIN at : at[i] # 0 /\ block[at[i]].free /\ block[at[i]].size >= s}
  <1>1. N \in Nat /\ DOMAIN at = 0 .. N /\ \A i \in 0 .. N : at[i] = 0 \/ at[i] \in DOMAIN block
    BY ListPositions
  <1>2. b = IF fit = {} THEN 0 ELSE at[Min(fit)]
    BY DEF FindFreeBlock
  <1> HIDE DEF at, N
  <1>3. fit \in SUBSET Nat
    BY <1>1
  <1>4. fit # {} => Min(fit) \in fit
    <2> HIDE DEF fit
    <2> QED BY <1>3, LeastNumber DEF Min
  <1>5. \A i \in fit : at[i] \in DOMAIN block /\ block[at[i]].free /\ block[at[i]].size >= s
    BY <1>1
  <1> HIDE DEF fit
  <1> QED BY <1>2, <1>4, <1>5

\* The list holds every block.
LEMMA AllListed ==
    ASSUME NEW h, NEW B, ListOK(h, B)
    PROVE  InList(h, B) = DOMAIN B
  <1> DEFINE at == List(h, B)
  <1> DEFINE N == Cardinality(DOMAIN B)
  <1>1. /\ N \in Nat /\ DOMAIN at = 0 .. N /\ at[0] = h
        /\ \A i \in 0 .. N : at[i] = 0 \/ at[i] \in DOMAIN B
        /\ \A i \in 1 .. N : at[i] = Next0(B, at[i - 1])
    BY ListPositions
  <1>2. IsFiniteSet(DOMAIN B) /\ Cardinality(DOMAIN B) = N
    BY FiniteList
  <1>3. InList(h, B) = {at[i] : i \in 0 .. N} \ {0}
    BY <1>1 DEF InList
  <1>4. 0 \notin DOMAIN B /\ DOMAIN B \in SUBSET Nat
    BY Fields
  <1> HIDE DEF at, N
  <1>5. \A b \in DOMAIN B : /\ B[b].prev = 0 <=> b = h
                            /\ B[b].prev # 0 => /\ B[b].prev \in DOMAIN B /\ B[b].prev < b
                                                /\ B[B[b].prev].next = b
                            /\ B[b].next # 0 => b < B[b].next
    BY DEF ListOK
  <1>6. \E i \in 0 .. N : at[i] = 0
    <2> SUFFICES ASSUME \A i \in 0 .. N : at[i] \in DOMAIN B
                 PROVE  FALSE
      BY <1>1
    <2>1. \A i \in 1 .. N : at[i - 1] < at[i]
      <3> SUFFICES ASSUME NEW i \in 1 .. N PROVE at[i - 1] < at[i]
        OBVIOUS
      <3>1. i - 1 \in 0 .. N /\ i \in 0 .. N
        BY <1>1
      <3>2. at[i - 1] \in DOMAIN B /\ at[i] \in DOMAIN B
        BY <3>1
      <3>3. at[i] = B[at[i - 1]].next /\ at[i] # 0
        BY <3>2, <1>1, <1>4 DEF Next0
      <3> QED BY <3>2, <3>3, <1>5
    <2>2. ASSUME NEW i \in 0 .. N PROVE \A j \in 0 .. N : i < j => at[i] < at[j]
      <3> DEFINE Bad == {j \in 0 .. N : i < j /\ ~ (at[i] < at[j])}
      <3> SUFFICES ASSUME Bad # {} PROVE FALSE
        OBVIOUS
      <3>1. Bad \in SUBSET Nat
        OBVIOUS
      <3>2. PICK j \in Bad : \A m \in Bad : j <= m
        <4> HIDE DEF Bad
        <4> QED BY <3>1, LeastNumber
      <3>3. j \in 0 .. N /\ i < j /\ ~ (at[i] < at[j])
        OBVIOUS
      <3>4. j - 1 \in 0 .. N /\ j \in 1 .. N /\ j - 1 \notin Bad
        <4> HIDE DEF Bad
        <4> QED BY <1>1, <3>2, <3>3
      <3>5. i < j - 1 => at[i] < at[j - 1]
        BY <3>4
      <3>6. at[j - 1] < at[j]
        BY <3>4, <2>1
      <3>7. at[i] \in Nat /\ at[j] \in Nat /\ at[j - 1] \in Nat
        BY <1>4, <3>3, <3>4
      <3>8. i = j - 1 \/ i < j - 1
        BY <3>3, <1>1
      <3> QED BY <3>3, <3>5, <3>6, <3>7, <3>8
    <2>3. IsFiniteSet(0 .. N) /\ Cardinality(0 .. N) = N + 1
      BY <1>1, FS_Interval
    <2> DEFINE f == [i \in 0 .. N |-> at[i]]
    <2>4. f \in [0 .. N -> DOMAIN B]
      OBVIOUS
    <2>5. Cardinality(DOMAIN B) < Cardinality(0 .. N)
      BY <1>1, <1>2, <2>3
    <2>6. \E i, j \in 0 .. N : i # j /\ f[i] = f[j]
      <3> DEFINE S == 0 .. N
      <3> DEFINE T == DOMAIN B
      <3>1. /\ IsFiniteSet(S) /\ IsFiniteSet(T) /\ f \in [S -> T]
            /\ Cardinality(T) < Cardinality(S)
        BY <1>2, <2>3, <2>4, <2>5
      <3> HIDE DEF f, S, T
      <3>2. \E i, j \in S : i # j /\ f[i] = f[j]
        BY <3>1, FS_PigeonHole, Zenon
      <3> QED BY <3>2 DEF S
    <2>7. PICK i \in 0 .. N, j \in 0 .. N : i # j /\ at[i] = at[j]
      BY <2>6
    <2>8. at[i] \in Nat /\ ~ (at[i] < at[i])
      BY <1>4, <2>7
    <2>9. i < j \/ j < i
      BY <1>1, <2>7
    <2>10. CASE i < j
      <3>1. at[i] < at[j]
        BY <2>2, <2>10
      <3> QED BY <2>7, <2>8, <3>1
    <2>11. CASE j < i
      <3>1. at[j] < at[i]
        BY <2>2, <2>11
      <3> QED BY <2>7, <2>8, <3>1
    <2> QED BY <2>9, <2>10, <2>11
  <1>7. \A i \in 1 .. N : at[i - 1] = 0 => at[i] = 0
    BY <1>1 DEF Next0
  <1>8. at[N] = 0
    <2>1. PICK k \in 0 .. N : at[k] = 0
      BY <1>6
    <2> DEFINE Bad == {j \in k .. N : at[j] # 0}
    <2>2. Bad = {}
      <3> SUFFICES ASSUME Bad # {} PROVE FALSE
        OBVIOUS
      <3>1. Bad \in SUBSET Nat
        OBVIOUS
      <3>2. PICK j \in Bad : \A m \in Bad : j <= m
        <4> HIDE DEF Bad
        <4> QED BY <3>1, LeastNumber
      <3>3. j \in k .. N /\ at[j] # 0 /\ j # k
        BY <2>1
      <3>4. j - 1 \in k .. N /\ j \in 1 .. N /\ j - 1 \notin Bad
        <4> HIDE DEF Bad
        <4> QED BY <1>1, <2>1, <3>2, <3>3
      <3>5. at[j - 1] = 0
        BY <3>4
      <3> QED BY <3>3, <3>4, <3>5, <1>7
    <2>3. N \in k .. N
      BY <1>1, <2>1
    <2> QED BY <2>2, <2>3
  <1>9. \A b \in DOMAIN B : \E i \in 0 .. N : at[i] = b
    <2> DEFINE Bad == {b \in DOMAIN B : ~ \E i \in 0 .. N : at[i] = b}
    <2> SUFFICES ASSUME Bad # {} PROVE FALSE
      OBVIOUS
    <2>1. Bad \in SUBSET Nat
      BY <1>4
    <2>2. PICK b \in Bad : \A m \in Bad : b <= m
      <3> HIDE DEF Bad
      <3> QED BY <2>1, LeastNumber
    <2>3. b \in DOMAIN B /\ \A i \in 0 .. N : at[i] # b
      OBVIOUS
    <2>4. b # h
      BY <2>3, <1>1
    <2> DEFINE p == B[b].prev
    <2>5. p \in DOMAIN B /\ p < b /\ B[p].next = b
      BY <2>3, <2>4, <1>5
    <2>6. p \notin Bad
      <3> HIDE DEF Bad
      <3>1. p \in Nat /\ b \in Nat
        BY <2>3, <2>5, <1>4
      <3> QED BY <2>2, <2>5, <3>1
    <2>7. PICK i \in 0 .. N : at[i] = p
      BY <2>5, <2>6
    <2>8. i # N
      BY <2>5, <2>7, <1>4, <1>8
    <2>9. i + 1 \in 1 .. N /\ (i + 1) - 1 = i
      BY <1>1, <2>7, <2>8
    <2>10. at[i + 1] = b
      BY <2>5, <2>7, <2>9, <1>1, <1>4 DEF Next0
    <2>11. i + 1 \in 0 .. N
      BY <2>9
    <2> QED BY <2>3, <2>10, <2>11
  <1>10. \A b : b \in InList(h, B) <=> b # 0 /\ \E i \in 0 .. N : at[i] = b
    BY <1>3
  <1>11. \A b : b \in InList(h, B) <=> b \in DOMAIN B
    BY <1>1, <1>4, <1>9, <1>10
  <1> QED BY <1>11

----------------------------------------------------------------------------
(* Rounding up.                                                            *)

LEMMA Rounded ==
    ASSUME NEW x \in Nat, NEW a \in Nat \ {0}, x + a - 1 < WORD
    PROVE  /\ AlignUp(x, a) \in Nat /\ AlignUp(x, a) % a = 0
           /\ x <= AlignUp(x, a) /\ AlignUp(x, a) < x + a
  <1> DEFINE n == x + a - 1
  <1>1. n \in Nat /\ n % WORD = n
    BY Sizes
  <1>2. AlignUp(x, a) = (n \div a) * a
    BY <1>1 DEF AlignUp
  <1> DEFINE q == n \div a
  <1>3. q \in Nat /\ n = a * q + (n % a) /\ (n % a) \in 0 .. a - 1
    <2> HIDE DEF n
    <2> QED BY <1>1
  <1> HIDE DEF q
  <1>4. q * a = a * q /\ a * q \in Nat
    BY <1>3
  <1>5. (a * q) % a = 0
    BY <1>3, Multiple
  <1> DEFINE m == a * q
  <1>6. AlignUp(x, a) = m /\ m % a = 0 /\ m \in Nat
    BY <1>2, <1>4, <1>5 DEF q
  <1>7. n = m + (n % a)
    BY <1>3
  <1> HIDE DEF m
  <1>8. x <= m /\ m < x + a
    <2>1. PICK r \in 0 .. a - 1 : n = m + r
      BY <1>3, <1>7
    <2>2. x + a - 1 = m + r
      BY <2>1
    <2> QED BY <2>1, <2>2, <1>6
  <1> QED BY <1>6, <1>8

\* The size of the block that a request gets.
LEMMA SizeOfRequest ==
    ASSUME Sensible, NEW n \in Requests, NEW s, s = RequestSize(n)
    PROVE  /\ n \in Nat /\ s \in Nat /\ n <= s /\ s % ALIGN = 0
           /\ s + HDR + MIN_PAYLOAD < WORD /\ HDR + s + PAGE_SIZE - 1 < WORD
  <1> DEFINE x == IF n < MIN_PAYLOAD THEN MIN_PAYLOAD ELSE n
  <1>1. n \in Nat /\ n + HDR + 2 * MIN_PAYLOAD + ALIGN + PAGE_SIZE <= WORD
    BY MymallocAssumption DEF Sensible
  <1>2. x \in Nat /\ n <= x /\ x <= n + MIN_PAYLOAD
    BY <1>1, Sizes
  <1>3. s = AlignUp(x, ALIGN)
    BY DEF RequestSize
  <1> HIDE DEF x
  <1>4. x + ALIGN - 1 < WORD
    BY <1>1, <1>2, Sizes
  <1>5. s \in Nat /\ s % ALIGN = 0 /\ x <= s /\ s < x + ALIGN
    BY <1>2, <1>3, <1>4, Rounded, Sizes
  <1> QED BY <1>1, <1>2, <1>5, Sizes

\* What extend_heap asks vmalloc for.
ChunkSize(n) ==
    LET rounded == PageRound((HDR + RequestSize(n)) % WORD)
    IN  IF rounded < CHUNK_SIZE THEN CHUNK_SIZE ELSE rounded

LEMMA SizeOfChunk ==
    ASSUME Sensible, NEW n \in Requests, NEW len, len = ChunkSize(n)
    PROVE  len \in Nat /\ HDR + RequestSize(n) <= len
  <1> DEFINE s == RequestSize(n)
  <1>1. s \in Nat /\ HDR + s + PAGE_SIZE - 1 < WORD
    BY SizeOfRequest
  <1> HIDE DEF s
  <1>2. HDR + s \in Nat /\ HDR + s < WORD /\ (HDR + s) + PAGE_SIZE - 1 < WORD
    BY <1>1, Sizes
  <1>3. (HDR + s) % WORD = HDR + s
    BY <1>2, Sizes
  <1> DEFINE r == AlignUp(HDR + s, PAGE_SIZE)
  <1>4. r \in Nat /\ HDR + s <= r
    BY <1>2, Rounded, Sizes
  <1>5. len = IF r < CHUNK_SIZE THEN CHUNK_SIZE ELSE r
    BY <1>3 DEF ChunkSize, PageRound, s
  <1> HIDE DEF r
  <1> QED BY <1>1, <1>4, <1>5, Sizes DEF s

----------------------------------------------------------------------------
(* What each step makes of the heap.                                       *)

\* mymalloc splits and marks the block it found.
SplitDone(h, B, b, s, C) ==
    /\ ListOK(h, C) /\ Covered(C) = Covered(B)
    /\ DOMAIN B \subseteq DOMAIN C /\ ~ C[b].free /\ C[b].size >= s
    /\ \A c \in DOMAIN B : c # b => C[c].free = B[c].free /\ C[c].size = B[c].size
    /\ \A c \in DOMAIN C : c \notin DOMAIN B => C[c].free
    /\ \A c \in DOMAIN C : ~ CanMerge(C, c)

LEMMA SplitResult ==
    ASSUME NEW h, NEW B, ListOK(h, B), NEW b \in DOMAIN B, B[b].free, NEW s \in Nat,
           s % ALIGN = 0, HDR % ALIGN = 0, s + HDR + MIN_PAYLOAD < WORD, B[b].size >= s,
           \A c \in DOMAIN B : ~ CanMerge(B, c),
           NEW C, C = Mark(SplitBlock(B, b, s), b, FALSE)
    PROVE  SplitDone(h, B, b, s, C)
  <1> USE DEF SplitDone
  <1> DEFINE D == SplitBlock(B, b, s)
  <1>1. C = Mark(D, b, FALSE)
    OBVIOUS
  <1>2. CASE ~ RoomToSplit(B, b, s)
    <2>1. D = B
      BY <1>2 DEF SplitBlock
    <2> HIDE DEF D
    <2>2. C = Mark(B, b, FALSE)
      BY <1>1, <2>1
    <2>3. Marked(h, B, b, C)
      <3>1. \E f \in BOOLEAN : C = Mark(B, b, f)
        BY <2>2
      <3> QED BY <3>1, MarkList
    <2>4. ~ C[b].free
      BY <2>2, Fields, MarkValue
    <2>5. ASSUME NEW c \in DOMAIN C, CanMerge(C, c) PROVE FALSE
      <3>1. c # b /\ C[c].next # b /\ c \in DOMAIN B /\ B[c].next = C[c].next
        BY <2>3, <2>4, <2>5 DEF Marked
      <3>2. CanMerge(B, c)
        BY <2>3, <2>5, <3>1 DEF Marked
      <3> QED BY <3>1, <3>2
    <2> QED BY <2>3, <2>4, <2>5 DEF Marked
  <1>3. CASE RoomToSplit(B, b, s)
    <2>0. D = SplitBlock(B, b, s)
      OBVIOUS
    <2> HIDE DEF D
    <2>1. Halved(h, B, b, s, D)
      BY <1>3, <2>0, SplitList
    <2>2. PICK rest \in DOMAIN D \ DOMAIN B :
             /\ ListOK(h, D) /\ Covered(D) = Covered(B)
             /\ DOMAIN D = DOMAIN B \cup {rest} /\ D[b].size = s
             /\ D[rest].free
             /\ \A c \in DOMAIN B : /\ D[c].free = B[c].free
                                    /\ c # b => D[c].size = B[c].size
             /\ \A c \in DOMAIN B : c # b /\ D[c].next # b /\ CanMerge(D, c) => CanMerge(B, c)
             /\ CanMerge(D, rest) => CanMerge(B, b)
      BY <2>1 DEF Halved
    <2>3. b \in DOMAIN D /\ b # rest /\ ListOK(h, D)
      BY <2>2
    <2>4. Marked(h, D, b, C)
      <3>1. \E f \in BOOLEAN : C = Mark(D, b, f)
        BY <1>1
      <3> QED BY <2>3, <3>1, MarkList
    <2>5. ~ C[b].free
      BY <1>1, <2>3, Fields, MarkValue
    <2>6. ASSUME NEW c \in DOMAIN C, CanMerge(C, c) PROVE FALSE
      <3>1. c # b /\ C[c].next # b /\ c \in DOMAIN D /\ D[c].next = C[c].next
        BY <2>4, <2>5, <2>6 DEF Marked
      <3>2. CanMerge(D, c)
        BY <2>4, <2>6, <3>1 DEF Marked
      <3> QED BY <3>1, <3>2, <2>2
    <2>61. DOMAIN C = DOMAIN D
      BY <2>4 DEF Marked
    <2>62. \A c \in DOMAIN D : C[c].size = D[c].size
      BY <2>4 DEF Marked
    <2>63. \A c \in DOMAIN D : c # b => C[c].free = D[c].free
      BY <2>4 DEF Marked
    <2>7. \A c \in DOMAIN C : c \notin DOMAIN B => C[c].free
      <3>1. C[rest].free = D[rest].free /\ D[rest].free
        BY <2>2, <2>3, <2>63
      <3>2. \A c \in DOMAIN C : c \notin DOMAIN B => c = rest
        BY <2>2, <2>61
      <3> QED BY <3>1, <3>2
    <2>8. ASSUME NEW c \in DOMAIN B, c # b
          PROVE  C[c].free = B[c].free /\ C[c].size = B[c].size
      <3>1. c \in DOMAIN D /\ D[c].free = B[c].free /\ D[c].size = B[c].size
        BY <2>2, <2>8
      <3> QED BY <3>1, <2>8, <2>62, <2>63
    <2>9. C[b].size >= s
      <3>1. C[b].size = s
        BY <2>2, <2>3, <2>62
      <3>2. \A x \in Nat : x >= x
        OBVIOUS
      <3> QED BY <3>1, <3>2, Zenon
    <2>10. ListOK(h, C) /\ Covered(C) = Covered(B) /\ DOMAIN B \subseteq DOMAIN C
      BY <2>2, <2>4 DEF Marked
    <2> QED BY <2>5, <2>6, <2>7, <2>8, <2>9, <2>10
  <1> QED BY <1>2, <1>3

\* myfree marks its block and merges it with the next one.
MarkDone(h, B, b, C) ==
    /\ ListOK(h, C) /\ Covered(C) = Covered(B)
    /\ DOMAIN C \subseteq DOMAIN B /\ b \in DOMAIN C /\ C[b].free
    /\ \A c \in DOMAIN C : c # b => C[c].free = B[c].free /\ C[c].size = B[c].size
    /\ \A c \in DOMAIN B : c \notin DOMAIN C => B[c].free
    /\ \A c \in DOMAIN C : CanMerge(C, c) => C[c].next = b

LEMMA FreeResult ==
    ASSUME NEW h, NEW B, ListOK(h, B), NEW b \in DOMAIN B,
           \A c \in DOMAIN B : ~ CanMerge(B, c),
           NEW C, C = CoalesceWithNext(Mark(B, b, TRUE), b)
    PROVE  MarkDone(h, B, b, C)
  <1> USE DEF MarkDone
  <1> DEFINE D == Mark(B, b, TRUE)
  <1>1. D = Mark(B, b, TRUE) /\ C = CoalesceWithNext(D, b)
    OBVIOUS
  <1> HIDE DEF D
  <1>2. Marked(h, B, b, D)
    <2>1. \E f \in BOOLEAN : D = Mark(B, b, f)
      BY <1>1
    <2> QED BY <2>1, MarkList
  <1>3. b \in DOMAIN D /\ D[b].free /\ b # 0 /\ ListOK(h, D)
    BY <1>1, <1>2, Fields, MarkValue DEF Marked
  <1>4. \A c \in DOMAIN D : CanMerge(D, c) => c = b \/ D[c].next = b
    BY <1>2 DEF Marked
  <1>5. CASE ~ CanMerge(D, b)
    <2>1. C = D
      BY <1>1, <1>5 DEF CoalesceWithNext
    <2> QED BY <2>1, <1>2, <1>3, <1>4, <1>5 DEF Marked
  <1>6. CASE CanMerge(D, b)
    <2>0. Merged(h, D, b, C)
      BY <1>1, <1>3, <1>6, MergeList
    <2>1. /\ ListOK(h, C) /\ Covered(C) = Covered(D)
          /\ b \in DOMAIN C /\ DOMAIN C \subseteq DOMAIN D /\ C[b].free
          /\ \A c \in DOMAIN C : C[c].free = D[c].free /\ (c # b => C[c].size = D[c].size)
          /\ \A c \in DOMAIN D : c \notin DOMAIN C => D[c].free
          /\ \A c \in DOMAIN C : c # b /\ CanMerge(C, c) => CanMerge(D, c) /\ C[c].next = D[c].next
          /\ CanMerge(C, b) => CanMerge(D, D[b].next) /\ D[D[b].next].next # b
      BY <2>0 DEF Merged
    <2>2. D[b].next \in DOMAIN D /\ D[b].next # b
      <3>1. D[b].next # 0
        BY <1>6 DEF CanMerge
      <3>2. D[b].next \in DOMAIN D /\ b < D[b].next
        BY <3>1, <1>3 DEF ListOK
      <3>3. b \in Nat
        BY Fields
      <3> QED BY <3>2, <3>3
    <2>3. ~ CanMerge(C, b)
      BY <2>1, <2>2, <1>4
    <2>4. \A c \in DOMAIN C : CanMerge(C, c) => C[c].next = b
      BY <2>1, <2>3, <1>4
    <2>5. \A c \in DOMAIN C : c # b => C[c].free = B[c].free /\ C[c].size = B[c].size
      BY <2>1, <1>2 DEF Marked
    <2>6. \A c \in DOMAIN B : c \notin DOMAIN C => B[c].free
      BY <2>1, <1>2 DEF Marked
    <2> QED BY <2>1, <2>4, <2>5, <2>6, <1>2 DEF Marked
  <1> QED BY <1>5, <1>6

\* myfree merges the block with the one before it.
PrevDone(h, B, C) ==
    /\ ListOK(h, C) /\ Covered(C) = Covered(B) /\ DOMAIN C \subseteq DOMAIN B
    /\ \A c \in DOMAIN C : C[c].free = B[c].free /\ (~ B[c].free => C[c].size = B[c].size)
    /\ \A c \in DOMAIN B : c \notin DOMAIN C => B[c].free
    /\ \A c \in DOMAIN C : ~ CanMerge(C, c)

LEMMA FreePrevResult ==
    ASSUME NEW h, NEW B, ListOK(h, B), NEW b \in DOMAIN B,
           \A c \in DOMAIN B : CanMerge(B, c) => B[c].next = b,
           NEW C, C = CoalesceWithNext(B, B[b].prev)
    PROVE  PrevDone(h, B, C)
  <1> USE DEF PrevDone
  <1> DEFINE p == B[b].prev
  <1>1. \A c \in DOMAIN B : CanMerge(B, c) => c = p /\ c # 0
    <2> SUFFICES ASSUME NEW c \in DOMAIN B, CanMerge(B, c) PROVE c = p /\ c # 0
      OBVIOUS
    <2>1. B[c].next = b /\ B[c].next # 0
      BY DEF CanMerge
    <2>2. B[B[c].next].prev = c
      BY <2>1 DEF ListOK
    <2> QED BY <2>1, <2>2, Fields
  <1>2. p = 0 \/ p \in DOMAIN B
    BY DEF ListOK
  <1>3. C = CoalesceWithNext(B, p)
    OBVIOUS
  <1>4. CASE p = 0 \/ ~ CanMerge(B, p)
    <2>1. C = B
      BY <1>3, <1>4 DEF CoalesceWithNext
    <2> HIDE DEF p
    <2>2. \A c \in DOMAIN B : ~ CanMerge(B, c)
      BY <1>1, <1>4
    <2> QED BY <2>1, <2>2
  <1>5. CASE p # 0 /\ CanMerge(B, p)
    <2>1. p \in DOMAIN B /\ B[p].next = b /\ CanMerge(B, p)
      BY <1>2, <1>5
    <2>2. ~ CanMerge(B, b)
      <3>1. p < b
        BY <1>5 DEF ListOK
      <3>2. b \in Nat
        BY Fields
      <3> QED BY <3>1, <3>2, <1>1
    <2> HIDE DEF p
    <2>3. /\ ListOK(h, C) /\ Covered(C) = Covered(B)
          /\ DOMAIN C \subseteq DOMAIN B /\ C[p].free /\ p \in DOMAIN C
          /\ \A c \in DOMAIN C : C[c].free = B[c].free /\ (c # p => C[c].size = B[c].size)
          /\ \A c \in DOMAIN B : c \notin DOMAIN C => B[c].free
          /\ \A c \in DOMAIN C : c # p /\ CanMerge(C, c) => CanMerge(B, c) /\ C[c].next = B[c].next
          /\ CanMerge(C, p) => CanMerge(B, B[p].next) /\ B[B[p].next].next # p
      BY <2>1, <1>3, MergeList DEF Merged
    <2>4. \A c \in DOMAIN C : ~ CanMerge(C, c)
      BY <2>1, <2>2, <2>3, <1>1
    <2> QED BY <2>3, <2>4
  <1> QED BY <1>4, <1>5

\* extend_heap puts a chunk below all blocks in front of the list and merges it.
ExtendDone(B, a, len, D, C) ==
    /\ D[a].prev = 0
    /\ ListOK(a, C) /\ \A y : y \in Covered(C) <=> y \in Covered(B) \/ y \in Bytes(a, len)
    /\ DOMAIN C \subseteq DOMAIN B \cup {a} /\ a \in DOMAIN C /\ a \notin DOMAIN B
    /\ C[a].free /\ C[a].size >= len - HDR
    /\ \A c \in DOMAIN C : c # a => C[c].free = B[c].free /\ C[c].size = B[c].size
    /\ \A c \in DOMAIN B : c \notin DOMAIN C => B[c].free
    /\ \A c \in DOMAIN C : ~ CanMerge(C, c)

LEMMA ExtendResult ==
    ASSUME NEW h, NEW B, ListOK(h, B), NEW a \in Nat \ {0}, NEW len \in Nat,
           len >= HDR, a + len <= WORD, a % ALIGN = 0, \A b \in DOMAIN B : a + len <= b,
           \A c \in DOMAIN B : ~ CanMerge(B, c),
           NEW D, D = InsertBlock(h, B, a, len - HDR),
           NEW C, C = CoalesceWithNext(CoalesceWithNext(D, 0), a)
    PROVE  ExtendDone(B, a, len, D, C)
  <1> USE DEF ExtendDone
  <1>1. /\ ListOK(a, D) /\ D[a].prev = 0 /\ D[a].size = len - HDR /\ D[a].free
        /\ a \notin DOMAIN B /\ DOMAIN D = DOMAIN B \cup {a}
        /\ \A y : y \in Covered(D) <=> y \in Covered(B) \/ y \in Bytes(a, len)
        /\ \A c \in DOMAIN B : /\ D[c].size = B[c].size /\ D[c].free = B[c].free
                               /\ D[c].next = B[c].next
        /\ \A c \in DOMAIN B : CanMerge(D, c) => CanMerge(B, c)
    <2>1. Inserted(B, a, len, D)
      BY InsertList
    <2> QED BY <2>1 DEF Inserted
  <1>2. C = CoalesceWithNext(D, a)
    BY DEF CoalesceWithNext
  <1>3. a \in DOMAIN D /\ len - HDR \in Nat
    BY <1>1, Sizes
  <1>4. \A c \in DOMAIN D : CanMerge(D, c) => c = a
    BY <1>1
  <1>5. CASE ~ CanMerge(D, a)
    <2>1. C = D
      BY <1>2, <1>5 DEF CoalesceWithNext
    <2>2. C[a].size >= len - HDR
      BY <2>1, <1>1, <1>3
    <2> QED BY <2>1, <2>2, <1>1, <1>3, <1>4, <1>5
  <1>6. CASE CanMerge(D, a)
    <2>1. /\ ListOK(a, C) /\ Covered(C) = Covered(D)
          /\ a \in DOMAIN C /\ DOMAIN C \subseteq DOMAIN D /\ C[a].free
          /\ C[a].size >= D[a].size
          /\ \A c \in DOMAIN C : C[c].free = D[c].free /\ (c # a => C[c].size = D[c].size)
          /\ \A c \in DOMAIN D : c \notin DOMAIN C => D[c].free
          /\ \A c \in DOMAIN C : c # a /\ CanMerge(C, c) => CanMerge(D, c) /\ C[c].next = D[c].next
          /\ CanMerge(C, a) => CanMerge(D, D[a].next) /\ D[D[a].next].next # a
      <3>1. ListOK(a, D)
        BY <1>1
      <3>2. Merged(a, D, a, C)
        BY <3>1, <1>2, <1>3, <1>6, MergeList
      <3> QED BY <3>2 DEF Merged
    <2>2. D[a].next \in DOMAIN D /\ D[a].next # a
      <3>1. D[a].next # 0
        BY <1>6 DEF CanMerge
      <3>2. D[a].next \in DOMAIN D /\ a < D[a].next
        BY <3>1, <1>1, <1>3 DEF ListOK
      <3> QED BY <3>2
    <2>3. \A c \in DOMAIN C : ~ CanMerge(C, c)
      BY <2>1, <2>2, <1>4
    <2>4. \A c \in DOMAIN C : c # a => C[c].free = B[c].free /\ C[c].size = B[c].size
      BY <2>1, <1>1
    <2>5. \A c \in DOMAIN B : c \notin DOMAIN C => B[c].free
      BY <2>1, <1>1
    <2>6. C[a].size >= len - HDR
      BY <2>1, <1>1
    <2> QED BY <2>1, <2>3, <2>4, <2>5, <2>6, <1>1
  <1> QED BY <1>5, <1>6

----------------------------------------------------------------------------
(* The invariant holds initially and every step keeps it.                  *)

LEMMA TypeFromList ==
    ASSUME NEW h, NEW B, ListOK(h, B)
    PROVE  h \in 0 .. WORD /\ DOMAIN B \subseteq 1 .. WORD /\ Range(B) \subseteq Headers
  <1>1. DOMAIN B \subseteq 1 .. WORD
    BY Sizes DEF ListOK
  <1>2. h \in 0 .. WORD
    <2>1. h = 0 \/ h \in DOMAIN B
      BY DEF ListOK
    <2>2. \A b \in DOMAIN B : b \in Nat /\ b < WORD
      BY Fields
    <2> QED BY <2>1, <2>2, Sizes
  <1>3. Range(B) \subseteq Headers
    BY DEF ListOK, Range
  <1> QED BY <1>1, <1>2, <1>3

LEMMA InitInv == Init => Inv
  <1> SUFFICES ASSUME Init PROVE Inv
    OBVIOUS
  <1>1. DOMAIN block = {} /\ DOMAIN regions = {} /\ DOMAIN live = {} /\ head = 0
        /\ block \in [DOMAIN block -> Headers]
    BY DEF Init
  <1>2. ListOK(head, block)
    BY <1>1 DEF ListOK
  <1>3. TypeOK
    <2>1. head \in 0 .. WORD /\ DOMAIN block \subseteq 1 .. WORD /\ Range(block) \subseteq Headers
      BY <1>2, TypeFromList
    <2>2. /\ lock \in Thread \cup {NoThread}
          /\ pc \in [Thread -> {"idle", "m_lock", "m_find", "m_extend", "m_split", "m_unlock",
                                "f_lock", "f_mark", "f_prev", "f_unlock"}]
          /\ req \in [Thread -> 0 .. WORD - 1] /\ blk \in [Thread -> 0 .. WORD]
      BY Sizes DEF Init
    <2>3. mallocs \in 0 .. MaxMallocs
      BY MymallocAssumption DEF Init
    <2> QED BY <2>1, <2>2, <2>3 DEF TypeOK
  <1>4. RegionsOK /\ UseOK /\ MergeOK
    BY <1>1 DEF RegionsOK, UseOK, MergeOK, Holds, Init
  <1>5. Covered(block) = Memory
    BY <1>1 DEF Covered, Memory
  <1>6. LockOK
    BY MymallocAssumption DEF LockOK, Knows, Critical, Init
  <1> QED BY <1>2, <1>3, <1>4, <1>5, <1>6 DEF Inv

\* The heap is as it was.
LEMMA HeapKept ==
    ASSUME Inv, UNCHANGED heap
    PROVE  /\ head' = head /\ block' = block /\ regions' = regions
           /\ ListOK(head', block') /\ RegionsOK' /\ Covered(block') = Memory'
           /\ head' \in 0 .. WORD /\ DOMAIN block' \subseteq 1 .. WORD /\ Range(block') \subseteq Headers
  <1>1. head' = head /\ block' = block /\ regions' = regions
    BY DEF heap
  <1>2. ListOK(head, block) /\ Covered(block) = Memory /\ RegionsOK
    BY DEF Inv
  <1>3. RegionsOK'
    BY <1>1, <1>2 DEF RegionsOK
  <1>4. Memory' = Memory
    BY <1>1 DEF Memory
  <1>5. ListOK(head', block') /\ Covered(block') = Memory'
    BY <1>1, <1>2, <1>4
  <1> QED BY <1>1, <1>3, <1>5, TypeFromList

\* A thread other than the one in myfree takes a step that does not touch the heap.
LEMMA MergeKept ==
    ASSUME Inv, NEW t \in Thread, pc[t] # "f_prev", block' = block,
           \A u \in Thread \ {t} : pc'[u] = pc[u] /\ blk'[u] = blk[u]
    PROVE  MergeOK'
  <1> SUFFICES ASSUME NEW b \in DOMAIN block, CanMerge(block, b)
               PROVE  \E u \in Thread : pc'[u] = "f_prev" /\ blk'[u] = block[b].next
    BY DEF MergeOK
  <1>1. PICK u \in Thread : pc[u] = "f_prev" /\ blk[u] = block[b].next
    BY DEF Inv, MergeOK
  <1> QED BY <1>1

\* Who has a block keeps it.
LEMMA UseKept ==
    ASSUME Inv, block' = block, live' = live,
           \A u \in Thread : /\ Holds(u)' <=> Holds(u)
                             /\ Holds(u) => blk'[u] = blk[u] /\ req'[u] = req[u]
                             /\ pc'[u] = "m_unlock" => pc[u] = "m_unlock"
    PROVE  UseOK'
  <1> USE DEF Inv
  <1>1. \A p \in DOMAIN live' :
           /\ p - HDR \in DOMAIN block' /\ ~ block'[p - HDR].free
           /\ live'[p] \in Nat /\ block'[p - HDR].size >= live'[p]
           /\ p \in Nat
    BY DEF UseOK
  <1>2. ASSUME NEW u \in Thread, Holds(u)'
        PROVE  /\ blk'[u] \in DOMAIN block' /\ ~ block'[blk'[u]].free /\ blk'[u] + HDR \notin DOMAIN live'
               /\ \A v \in Thread : Holds(v)' /\ blk'[v] = blk'[u] => v = u
               /\ pc'[u] = "m_unlock" => block'[blk'[u]].size >= req'[u]
    BY <1>2 DEF UseOK
  <1>3. ASSUME NEW b \in DOMAIN block', ~ block'[b].free
        PROVE  b + HDR \in DOMAIN live' \/ \E u \in Thread : Holds(u)' /\ blk'[u] = b
    BY <1>3 DEF UseOK
  <1> QED BY <1>1, <1>2, <1>3 DEF UseOK

\* The lock keeps the others out.
LEMMA OthersOut ==
    ASSUME Inv, NEW t \in Thread, pc[t] \in Critical
    PROVE  lock = t /\ \A u \in Thread : u # t => pc[u] \notin Critical
  BY DEF Inv, LockOK, Knows

LEMMA NoneMergeable ==
    ASSUME Inv, \A u \in Thread : pc[u] # "f_prev"
    PROVE  \A b \in DOMAIN block : ~ CanMerge(block, b)
  BY DEF Inv, MergeOK

LEMMA MallocStep ==
    ASSUME Inv, NEW t \in Thread, NEW n \in Requests, Malloc(t, n)
    PROVE  Inv'
  <1>1. /\ pc[t] = "idle" /\ pc' = [pc EXCEPT ![t] = "m_lock"]
        /\ mallocs < MaxMallocs /\ mallocs' = mallocs + 1
        /\ req' = [req EXCEPT ![t] = n]
        /\ UNCHANGED heap /\ lock' = lock /\ blk' = blk /\ live' = live
    BY DEF Malloc, Goto
  <1>2. TypeOK /\ LockOK /\ UseOK
    BY DEF Inv
  <1>3. /\ head' = head /\ block' = block /\ regions' = regions
        /\ ListOK(head', block') /\ RegionsOK' /\ Covered(block') = Memory'
        /\ head' \in 0 .. WORD /\ DOMAIN block' \subseteq 1 .. WORD /\ Range(block') \subseteq Headers
    BY <1>1, HeapKept
  <1>4. \A u \in Thread : u # t => pc'[u] = pc[u] /\ req'[u] = req[u]
    BY <1>1, <1>2 DEF TypeOK
  <1>5. pc'[t] = "m_lock" /\ req'[t] = n
    BY <1>1, <1>2 DEF TypeOK
  <1>6. TypeOK'
    <2>1. mallocs' \in 0 .. MaxMallocs
      BY <1>1, <1>2, MymallocAssumption DEF TypeOK
    <2>2. req' \in [Thread -> 0 .. WORD - 1]
      BY <1>1, <1>2, MymallocAssumption DEF TypeOK
    <2> QED BY <1>1, <1>2, <1>3, <2>1, <2>2 DEF TypeOK
  <1>7. LockOK'
    <2> SUFFICES ASSUME NEW u \in Thread PROVE Knows(u)'
      BY DEF LockOK
    <2> USE DEF Knows
    <2>1. CASE u = t
      BY <2>1, <1>1, <1>2, <1>5 DEF LockOK, Critical
    <2>2. CASE u # t
      BY <2>2, <1>1, <1>2, <1>3, <1>4 DEF LockOK
    <2> QED BY <2>1, <2>2
  <1>8. UseOK'
    <2>1. \A u \in Thread : /\ Holds(u)' <=> Holds(u)
                            /\ Holds(u) => blk'[u] = blk[u] /\ req'[u] = req[u]
                            /\ pc'[u] = "m_unlock" => pc[u] = "m_unlock"
      BY <1>1, <1>4, <1>5 DEF Holds
    <2> QED BY <1>1, <1>3, <2>1, UseKept
  <1>9. MergeOK'
    BY <1>1, <1>3, <1>4, MergeKept
  <1> QED BY <1>3, <1>6, <1>7, <1>8, <1>9 DEF Inv

LEMMA FreeStep ==
    ASSUME Inv, NEW t \in Thread, NEW p \in DOMAIN live, Free(t, p)
    PROVE  Inv'
  <1>1. /\ pc[t] = "idle" /\ pc' = [pc EXCEPT ![t] = "f_lock"]
        /\ blk' = [blk EXCEPT ![t] = p - HDR]
        /\ live' = Restrict(live, DOMAIN live \ {p})
        /\ UNCHANGED heap /\ lock' = lock /\ req' = req /\ mallocs' = mallocs
    BY DEF Free, Goto
  <1>2. TypeOK /\ LockOK /\ UseOK
    BY DEF Inv
  <1>3. /\ head' = head /\ block' = block /\ regions' = regions
        /\ ListOK(head', block') /\ RegionsOK' /\ Covered(block') = Memory'
        /\ head' \in 0 .. WORD /\ DOMAIN block' \subseteq 1 .. WORD /\ Range(block') \subseteq Headers
    BY <1>1, HeapKept
  <1>4. \A u \in Thread : u # t => pc'[u] = pc[u] /\ blk'[u] = blk[u]
    BY <1>1, <1>2 DEF TypeOK
  <1>5. pc'[t] = "f_lock" /\ blk'[t] = p - HDR
    BY <1>1, <1>2 DEF TypeOK
  <1>6. p \in Nat /\ p - HDR \in DOMAIN block /\ ~ block[p - HDR].free /\ (p - HDR) + HDR = p
    <2>1. p \in Nat /\ p - HDR \in DOMAIN block /\ ~ block[p - HDR].free
      BY <1>2 DEF UseOK
    <2> QED BY <2>1, Sizes
  <1>7. TypeOK'
    <2>1. blk' \in [Thread -> 0 .. WORD]
      <3>1. p - HDR \in 0 .. WORD
        BY <1>2, <1>6 DEF TypeOK
      <3> QED BY <3>1, <1>1, <1>2 DEF TypeOK
    <2> QED BY <1>1, <1>2, <1>3, <2>1 DEF TypeOK
  <1>8. LockOK'
    <2> SUFFICES ASSUME NEW u \in Thread PROVE Knows(u)'
      BY DEF LockOK
    <2> USE DEF Knows
    <2>1. CASE u = t
      BY <2>1, <1>1, <1>2, <1>5 DEF LockOK, Critical
    <2>2. CASE u # t
      BY <2>2, <1>1, <1>2, <1>3, <1>4 DEF LockOK
    <2> QED BY <2>1, <2>2
  <1>9. UseOK'
    <2>1. DOMAIN live' = DOMAIN live \ {p} /\ \A q \in DOMAIN live' : live'[q] = live[q]
      BY <1>1 DEF Restrict
    <2>2. ~ Holds(t) /\ Holds(t)' /\ \A u \in Thread : u # t => (Holds(u)' <=> Holds(u))
      BY <1>1, <1>4, <1>5 DEF Holds
    <2>3. \A q \in DOMAIN live' :
             /\ q - HDR \in DOMAIN block' /\ ~ block'[q - HDR].free
             /\ live'[q] \in Nat /\ block'[q - HDR].size >= live'[q]
             /\ q \in Nat
      BY <1>2, <1>3, <2>1 DEF UseOK
    <2>4. \A u \in Thread : Holds(u) => blk[u] # p - HDR
      BY <1>2, <1>6 DEF UseOK
    <2>5. ASSUME NEW u \in Thread, Holds(u)'
          PROVE  /\ blk'[u] \in DOMAIN block' /\ ~ block'[blk'[u]].free /\ blk'[u] + HDR \notin DOMAIN live'
                 /\ \A v \in Thread : Holds(v)' /\ blk'[v] = blk'[u] => v = u
                 /\ pc'[u] = "m_unlock" => block'[blk'[u]].size >= req'[u]
      <3>1. CASE u = t
        <4>1. \A v \in Thread : Holds(v)' /\ blk'[v] = blk'[u] => v = u
          BY <3>1, <1>4, <1>5, <2>2, <2>4
        <4> QED BY <3>1, <4>1, <1>3, <1>5, <1>6, <2>1
      <3>2. CASE u # t
        <4>1. Holds(u) /\ blk'[u] = blk[u] /\ pc'[u] = pc[u]
          BY <3>2, <2>2, <2>5, <1>4
        <4>2. /\ blk[u] \in DOMAIN block /\ ~ block[blk[u]].free /\ blk[u] + HDR \notin DOMAIN live
              /\ \A v \in Thread : Holds(v) /\ blk[v] = blk[u] => v = u
              /\ pc[u] = "m_unlock" => block[blk[u]].size >= req[u]
          BY <4>1, <1>2 DEF UseOK
        <4>3. \A v \in Thread : Holds(v)' /\ blk'[v] = blk'[u] => v = u
          BY <4>1, <4>2, <1>4, <1>5, <2>2, <2>4
        <4> QED BY <4>1, <4>2, <4>3, <1>1, <1>3, <2>1
      <3> QED BY <3>1, <3>2
    <2>6. ASSUME NEW b \in DOMAIN block', ~ block'[b].free
          PROVE  b + HDR \in DOMAIN live' \/ \E u \in Thread : Holds(u)' /\ blk'[u] = b
      <3>1. b + HDR \in DOMAIN live \/ \E u \in Thread : Holds(u) /\ blk[u] = b
        BY <2>6, <1>2, <1>3 DEF UseOK
      <3>2. CASE b + HDR = p
        <4>1. b = p - HDR
          <5>1. b \in Nat
            BY <1>2, <1>3 DEF TypeOK
          <5> QED BY <3>2, <5>1, <1>6, Sizes
        <4> QED BY <4>1, <1>5, <2>2
      <3>3. CASE b + HDR # p
        BY <3>1, <3>3, <2>1, <2>2, <1>4
      <3> QED BY <3>2, <3>3
    <2> QED BY <2>3, <2>5, <2>6 DEF UseOK
  <1>10. MergeOK'
    BY <1>1, <1>3, <1>4, MergeKept
  <1> QED BY <1>3, <1>7, <1>8, <1>9, <1>10 DEF Inv

LEMMA SpinLockStep ==
    ASSUME Inv, NEW t \in Thread, SpinLock(t)
    PROVE  Inv'
  <1>1. /\ \/ pc[t] = "m_lock" /\ pc' = [pc EXCEPT ![t] = "m_find"]
           \/ pc[t] = "f_lock" /\ pc' = [pc EXCEPT ![t] = "f_mark"]
        /\ lock = NoThread /\ lock' = t
        /\ UNCHANGED heap /\ blk' = blk /\ req' = req /\ live' = live /\ mallocs' = mallocs
    BY DEF SpinLock, Goto
  <1>2. TypeOK /\ LockOK /\ UseOK
    BY DEF Inv
  <1>3. /\ head' = head /\ block' = block /\ regions' = regions
        /\ ListOK(head', block') /\ RegionsOK' /\ Covered(block') = Memory'
        /\ head' \in 0 .. WORD /\ DOMAIN block' \subseteq 1 .. WORD /\ Range(block') \subseteq Headers
    BY <1>1, HeapKept
  <1>4. \A u \in Thread : u # t => pc'[u] = pc[u]
    BY <1>1, <1>2 DEF TypeOK
  <1>5. \/ pc[t] = "m_lock" /\ pc'[t] = "m_find"
        \/ pc[t] = "f_lock" /\ pc'[t] = "f_mark"
    BY <1>1, <1>2 DEF TypeOK
  <1>6. TypeOK'
    <2>1. pc' \in [Thread -> {"idle", "m_lock", "m_find", "m_extend", "m_split", "m_unlock",
                              "f_lock", "f_mark", "f_prev", "f_unlock"}]
      BY <1>1, <1>2 DEF TypeOK
    <2> QED BY <1>1, <1>2, <1>3, <2>1 DEF TypeOK
  <1>7. LockOK'
    <2> SUFFICES ASSUME NEW u \in Thread PROVE Knows(u)'
      BY DEF LockOK
    <2> USE DEF Knows
    <2>1. CASE u = t
      <3>1. pc[t] = "m_lock" => req[t] \in Requests
        BY <1>2 DEF LockOK
      <3> QED BY <2>1, <3>1, <1>1, <1>5 DEF Critical
    <2>2. CASE u # t
      <3>1. pc[u] \notin Critical
        BY <1>1, <1>2, MymallocAssumption DEF LockOK
      <3> QED BY <2>2, <3>1, <1>1, <1>2, <1>3, <1>4 DEF LockOK
    <2> QED BY <2>1, <2>2
  <1>8. UseOK'
    <2>1. \A u \in Thread : /\ Holds(u)' <=> Holds(u)
                            /\ Holds(u) => blk'[u] = blk[u] /\ req'[u] = req[u]
                            /\ pc'[u] = "m_unlock" => pc[u] = "m_unlock"
      BY <1>1, <1>4, <1>5 DEF Holds
    <2> QED BY <1>1, <1>3, <2>1, UseKept
  <1>9. MergeOK'
    BY <1>1, <1>3, <1>4, <1>5, MergeKept
  <1> QED BY <1>3, <1>6, <1>7, <1>8, <1>9 DEF Inv

LEMMA FindStep ==
    ASSUME Inv, NEW t \in Thread, Find(t)
    PROVE  Inv'
  <1> DEFINE b == FindFreeBlock(RequestSize(req[t]))
  <1>1. /\ pc[t] = "m_find" /\ pc' = [pc EXCEPT ![t] = IF b = 0 THEN "m_extend" ELSE "m_split"]
        /\ blk' = [blk EXCEPT ![t] = b]
        /\ UNCHANGED heap /\ lock' = lock /\ req' = req /\ live' = live /\ mallocs' = mallocs
    BY DEF Find, Goto
  <1>2. TypeOK /\ LockOK /\ UseOK /\ ListOK(head, block)
    BY DEF Inv
  <1>3. /\ head' = head /\ block' = block /\ regions' = regions
        /\ ListOK(head', block') /\ RegionsOK' /\ Covered(block') = Memory'
        /\ head' \in 0 .. WORD /\ DOMAIN block' \subseteq 1 .. WORD /\ Range(block') \subseteq Headers
    BY <1>1, HeapKept
  <1>4. b # 0 => b \in DOMAIN block /\ block[b].free /\ block[b].size >= RequestSize(req[t])
    BY <1>2, Found
  <1> HIDE DEF b
  <1>5. \A u \in Thread : u # t => pc'[u] = pc[u] /\ blk'[u] = blk[u]
    BY <1>1, <1>2 DEF TypeOK
  <1>6. /\ blk'[t] = b /\ (b = 0 => pc'[t] = "m_extend") /\ (b # 0 => pc'[t] = "m_split")
    BY <1>1, <1>2 DEF TypeOK
  <1>7. TypeOK'
    <2>1. blk' \in [Thread -> 0 .. WORD]
      <3>1. b \in 0 .. WORD
        BY <1>2, <1>4, Sizes DEF TypeOK
      <3> QED BY <3>1, <1>1, <1>2 DEF TypeOK
    <2>2. pc' \in [Thread -> {"idle", "m_lock", "m_find", "m_extend", "m_split", "m_unlock",
                              "f_lock", "f_mark", "f_prev", "f_unlock"}]
      BY <1>1, <1>2 DEF TypeOK
    <2> QED BY <1>1, <1>2, <1>3, <2>1, <2>2 DEF TypeOK
  <1>8. LockOK'
    <2> SUFFICES ASSUME NEW u \in Thread PROVE Knows(u)'
      BY DEF LockOK
    <2> USE DEF Knows
    <2>1. CASE u = t
      <3>1. lock = t /\ req[t] \in Requests
        BY <1>1, <1>2 DEF LockOK, Critical
      <3> QED BY <2>1, <3>1, <1>1, <1>3, <1>4, <1>6 DEF Critical
    <2>2. CASE u # t
      BY <2>2, <1>1, <1>2, <1>3, <1>5 DEF LockOK
    <2> QED BY <2>1, <2>2
  <1>9. UseOK'
    <2>1. \A u \in Thread : /\ Holds(u)' <=> Holds(u)
                            /\ Holds(u) => blk'[u] = blk[u] /\ req'[u] = req[u]
                            /\ pc'[u] = "m_unlock" => pc[u] = "m_unlock"
      BY <1>1, <1>5, <1>6 DEF Holds
    <2> QED BY <1>1, <1>3, <2>1, UseKept
  <1>10. MergeOK'
    BY <1>1, <1>3, <1>5, MergeKept
  <1> QED BY <1>3, <1>7, <1>8, <1>9, <1>10 DEF Inv

LEMMA FreeReturnStep ==
    ASSUME Inv, NEW t \in Thread, FreeReturn(t)
    PROVE  Inv'
  <1>1. /\ pc[t] = "f_unlock" /\ pc' = [pc EXCEPT ![t] = "idle"]
        /\ blk' = [blk EXCEPT ![t] = 0] /\ lock' = NoThread
        /\ UNCHANGED heap /\ req' = req /\ live' = live /\ mallocs' = mallocs
    BY DEF FreeReturn, Goto
  <1>2. TypeOK /\ LockOK /\ UseOK
    BY DEF Inv
  <1>3. /\ head' = head /\ block' = block /\ regions' = regions
        /\ ListOK(head', block') /\ RegionsOK' /\ Covered(block') = Memory'
        /\ head' \in 0 .. WORD /\ DOMAIN block' \subseteq 1 .. WORD /\ Range(block') \subseteq Headers
    BY <1>1, HeapKept
  <1>5. \A u \in Thread : u # t => pc'[u] = pc[u] /\ blk'[u] = blk[u]
    BY <1>1, <1>2 DEF TypeOK
  <1>6. blk'[t] = 0 /\ pc'[t] = "idle"
    BY <1>1, <1>2 DEF TypeOK
  <1>7. TypeOK'
    <2>1. blk' \in [Thread -> 0 .. WORD]
      BY <1>1, <1>2, Sizes DEF TypeOK
    <2>2. pc' \in [Thread -> {"idle", "m_lock", "m_find", "m_extend", "m_split", "m_unlock",
                              "f_lock", "f_mark", "f_prev", "f_unlock"}]
      BY <1>1, <1>2 DEF TypeOK
    <2> QED BY <1>1, <1>2, <1>3, <2>1, <2>2 DEF TypeOK
  <1>8. LockOK'
    <2> SUFFICES ASSUME NEW u \in Thread PROVE Knows(u)'
      BY DEF LockOK
    <2> USE DEF Knows
    <2>0. lock' # u
      BY <1>1, MymallocAssumption
    <2>1. CASE u = t
      BY <2>0, <2>1, <1>6 DEF Critical
    <2>2. CASE u # t
      <3>1. pc[u] \notin Critical
        BY <2>2, <1>1, OthersOut DEF Critical
      <3> QED BY <2>0, <2>2, <3>1, <1>1, <1>2, <1>3, <1>5 DEF LockOK
    <2> QED BY <2>1, <2>2
  <1>9. UseOK'
    <2>1. \A u \in Thread : /\ Holds(u)' <=> Holds(u)
                            /\ Holds(u) => blk'[u] = blk[u] /\ req'[u] = req[u]
                            /\ pc'[u] = "m_unlock" => pc[u] = "m_unlock"
      BY <1>1, <1>5, <1>6 DEF Holds
    <2> QED BY <1>1, <1>3, <2>1, UseKept
  <1>10. MergeOK'
    BY <1>1, <1>3, <1>5, MergeKept
  <1> QED BY <1>3, <1>7, <1>8, <1>9, <1>10 DEF Inv

LEMMA MallocReturnStep ==
    ASSUME Inv, NEW t \in Thread, MallocReturn(t)
    PROVE  Inv'
  <1>1. /\ pc[t] = "m_unlock" /\ pc' = [pc EXCEPT ![t] = "idle"]
        /\ lock' = NoThread
        /\ live' = IF blk[t] = 0 THEN live ELSE Write(live, blk[t] + HDR, req[t])
        /\ req' = [req EXCEPT ![t] = 0] /\ blk' = [blk EXCEPT ![t] = 0]
        /\ UNCHANGED heap /\ mallocs' = mallocs
    BY DEF MallocReturn, Goto
  <1>2. TypeOK /\ LockOK /\ UseOK
    BY DEF Inv
  <1>3. /\ head' = head /\ block' = block /\ regions' = regions
        /\ ListOK(head', block') /\ RegionsOK' /\ Covered(block') = Memory'
        /\ head' \in 0 .. WORD /\ DOMAIN block' \subseteq 1 .. WORD /\ Range(block') \subseteq Headers
    BY <1>1, HeapKept
  <1>4. \A u \in Thread : u # t => pc'[u] = pc[u] /\ blk'[u] = blk[u] /\ req'[u] = req[u]
    BY <1>1, <1>2 DEF TypeOK
  <1>5. blk'[t] = 0 /\ pc'[t] = "idle"
    BY <1>1, <1>2 DEF TypeOK
  <1>6. TypeOK'
    <2>1. blk' \in [Thread -> 0 .. WORD] /\ req' \in [Thread -> 0 .. WORD - 1]
      BY <1>1, <1>2, Sizes DEF TypeOK
    <2>2. pc' \in [Thread -> {"idle", "m_lock", "m_find", "m_extend", "m_split", "m_unlock",
                              "f_lock", "f_mark", "f_prev", "f_unlock"}]
      BY <1>1, <1>2 DEF TypeOK
    <2> QED BY <1>1, <1>2, <1>3, <2>1, <2>2 DEF TypeOK
  <1>7. LockOK'
    <2> SUFFICES ASSUME NEW u \in Thread PROVE Knows(u)'
      BY DEF LockOK
    <2> USE DEF Knows
    <2>0. lock' # u
      BY <1>1, MymallocAssumption
    <2>1. CASE u = t
      BY <2>0, <2>1, <1>5 DEF Critical
    <2>2. CASE u # t
      <3>1. pc[u] \notin Critical
        BY <2>2, <1>1, OthersOut DEF Critical
      <3> QED BY <2>0, <2>2, <3>1, <1>1, <1>2, <1>3, <1>4 DEF LockOK
    <2> QED BY <2>1, <2>2
  <1>8. ~ Holds(t)' /\ \A u \in Thread : u # t => (Holds(u)' <=> Holds(u))
    BY <1>4, <1>5 DEF Holds
  <1>9. UseOK'
    <2>1. CASE blk[t] = 0
      <3>1. ~ Holds(t) /\ live' = live
        BY <2>1, <1>1 DEF Holds
      <3>2. \A u \in Thread : /\ Holds(u)' <=> Holds(u)
                              /\ Holds(u) => blk'[u] = blk[u] /\ req'[u] = req[u]
                              /\ pc'[u] = "m_unlock" => pc[u] = "m_unlock"
        BY <3>1, <1>4, <1>5, <1>8
      <3> QED BY <3>1, <3>2, <1>3, UseKept
    <2>2. CASE blk[t] # 0
      <3> DEFINE p == blk[t] + HDR
      <3>1. Holds(t)
        BY <2>2, <1>1 DEF Holds
      <3>2. /\ blk[t] \in DOMAIN block /\ ~ block[blk[t]].free /\ p \notin DOMAIN live
            /\ \A u \in Thread : Holds(u) /\ blk[u] = blk[t] => u = t
            /\ block[blk[t]].size >= req[t]
        BY <3>1, <1>1, <1>2 DEF UseOK
      <3>3. blk[t] \in Nat /\ req[t] \in Nat
        BY <1>2, Sizes DEF TypeOK
      <3>4. p \in Nat /\ p - HDR = blk[t]
        BY <3>3, Sizes
      <3>5. DOMAIN live' = DOMAIN live \cup {p} /\ live'[p] = req[t]
            /\ \A q \in DOMAIN live : live'[q] = live[q]
        <4>1. live' = Write(live, p, req[t])
          BY <1>1, <2>2
        <4> HIDE DEF p
        <4> QED BY <4>1, <3>2 DEF Write
      <3> HIDE DEF p
      <3>6. ASSUME NEW q \in DOMAIN live'
            PROVE  /\ q - HDR \in DOMAIN block' /\ ~ block'[q - HDR].free
                   /\ live'[q] \in Nat /\ block'[q - HDR].size >= live'[q]
                   /\ q \in Nat
        <4>1. CASE q = p
          BY <4>1, <3>2, <3>3, <3>4, <3>5, <1>3
        <4>2. CASE q # p
          BY <4>2, <3>5, <1>2, <1>3 DEF UseOK
        <4> QED BY <4>1, <4>2
      <3>7. ASSUME NEW u \in Thread, Holds(u)'
            PROVE  /\ blk'[u] \in DOMAIN block' /\ ~ block'[blk'[u]].free
                   /\ blk'[u] + HDR \notin DOMAIN live'
                   /\ \A v \in Thread : Holds(v)' /\ blk'[v] = blk'[u] => v = u
                   /\ pc'[u] = "m_unlock" => block'[blk'[u]].size >= req'[u]
        <4>1. u # t /\ Holds(u) /\ blk'[u] = blk[u] /\ pc'[u] = pc[u] /\ req'[u] = req[u]
          BY <3>7, <1>4, <1>8
        <4>2. /\ blk[u] \in DOMAIN block /\ ~ block[blk[u]].free /\ blk[u] + HDR \notin DOMAIN live
              /\ \A v \in Thread : Holds(v) /\ blk[v] = blk[u] => v = u
              /\ pc[u] = "m_unlock" => block[blk[u]].size >= req[u]
          BY <4>1, <1>2 DEF UseOK
        <4>3. \A v \in Thread : Holds(v)' /\ blk'[v] = blk'[u] => v = u
          BY <4>1, <4>2, <1>4, <1>8
        <4>4. blk[u] + HDR # p
          <5>1. blk[u] # blk[t] /\ blk[u] \in Nat
            BY <4>1, <3>1, <3>2, <1>2 DEF TypeOK
          <5> QED BY <5>1, <3>3, Sizes DEF p
        <4> QED BY <4>1, <4>2, <4>3, <4>4, <3>5, <1>3
      <3>8. ASSUME NEW b \in DOMAIN block', ~ block'[b].free
            PROVE  b + HDR \in DOMAIN live' \/ \E u \in Thread : Holds(u)' /\ blk'[u] = b
        <4>1. b + HDR \in DOMAIN live \/ \E u \in Thread : Holds(u) /\ blk[u] = b
          BY <3>8, <1>2, <1>3 DEF UseOK
        <4>2. CASE b = blk[t]
          BY <4>2, <3>5 DEF p
        <4>3. CASE b # blk[t]
          BY <4>1, <4>3, <3>5, <1>4, <1>8
        <4> QED BY <4>2, <4>3
      <3> QED BY <3>6, <3>7, <3>8 DEF UseOK
    <2> QED BY <2>1, <2>2
  <1>10. MergeOK'
    BY <1>1, <1>3, <1>4, MergeKept
  <1> QED BY <1>3, <1>6, <1>7, <1>9, <1>10 DEF Inv

\* A step of thread t that changes the heap but no block in use other than x, which
\* only t may have before or after it.
Carried(t, x) ==
    /\ live' = live /\ req' = req
    /\ \A u \in Thread : u # t => pc'[u] = pc[u] /\ blk'[u] = blk[u]
    /\ \A u \in Thread : u # t /\ Holds(u) => blk[u] # x
    /\ \A p \in DOMAIN live : p - HDR # x
    /\ Holds(t) => blk[t] = x
    /\ Holds(t)' => /\ blk'[t] = x /\ x \in DOMAIN block' /\ ~ block'[x].free
                    /\ x + HDR \notin DOMAIN live /\ block'[x].size >= req[t]
    /\ x \in DOMAIN block' /\ ~ block'[x].free => Holds(t)' /\ blk'[t] = x
    /\ \A c \in DOMAIN block : c # x /\ ~ block[c].free =>
          c \in DOMAIN block' /\ ~ block'[c].free /\ block'[c].size = block[c].size
    /\ \A c \in DOMAIN block' : c # x /\ ~ block'[c].free => c \in DOMAIN block /\ ~ block[c].free

LEMMA UseCarried ==
    ASSUME Inv, NEW t \in Thread, NEW x, Carried(t, x)
    PROVE  UseOK'
  <1> USE DEF Carried
  <1>1. UseOK
    BY DEF Inv
  <1>2. \A u \in Thread : u # t => (Holds(u)' <=> Holds(u))
    BY DEF Holds
  <1>3. ASSUME NEW p \in DOMAIN live'
        PROVE  /\ p - HDR \in DOMAIN block' /\ ~ block'[p - HDR].free
               /\ live'[p] \in Nat /\ block'[p - HDR].size >= live'[p]
               /\ p \in Nat
    <2>1. /\ p - HDR \in DOMAIN block /\ ~ block[p - HDR].free
          /\ live[p] \in Nat /\ block[p - HDR].size >= live[p] /\ p \in Nat /\ p - HDR # x
      BY <1>1 DEF UseOK
    <2> QED BY <2>1
  <1>4. ASSUME NEW u \in Thread, Holds(u)'
        PROVE  /\ blk'[u] \in DOMAIN block' /\ ~ block'[blk'[u]].free
               /\ blk'[u] + HDR \notin DOMAIN live'
               /\ \A v \in Thread : Holds(v)' /\ blk'[v] = blk'[u] => v = u
               /\ pc'[u] = "m_unlock" => block'[blk'[u]].size >= req'[u]
    <2>1. CASE u = t
      <3>1. /\ blk'[t] = x /\ x \in DOMAIN block' /\ ~ block'[x].free
            /\ x + HDR \notin DOMAIN live /\ block'[x].size >= req[t]
        BY <1>4, <2>1
      <3>2. \A v \in Thread : Holds(v)' /\ blk'[v] = blk'[u] => v = u
        BY <2>1, <3>1, <1>2
      <3> QED BY <2>1, <3>1, <3>2
    <2>2. CASE u # t
      <3>1. Holds(u) /\ blk'[u] = blk[u] /\ pc'[u] = pc[u] /\ blk[u] # x
        BY <2>2, <1>2, <1>4
      <3>2. /\ blk[u] \in DOMAIN block /\ ~ block[blk[u]].free /\ blk[u] + HDR \notin DOMAIN live
            /\ \A v \in Thread : Holds(v) /\ blk[v] = blk[u] => v = u
            /\ pc[u] = "m_unlock" => block[blk[u]].size >= req[u]
        BY <3>1, <1>1 DEF UseOK
      <3>3. \A v \in Thread : Holds(v)' /\ blk'[v] = blk'[u] => v = u
        BY <3>1, <3>2, <1>2
      <3>4. /\ blk[u] \in DOMAIN block' /\ ~ block'[blk[u]].free
            /\ block'[blk[u]].size = block[blk[u]].size
        BY <3>1, <3>2
      <3> QED BY <3>1, <3>2, <3>3, <3>4
    <2> QED BY <2>1, <2>2
  <1>5. ASSUME NEW b \in DOMAIN block', ~ block'[b].free
        PROVE  b + HDR \in DOMAIN live' \/ \E u \in Thread : Holds(u)' /\ blk'[u] = b
    <2>1. CASE b = x
      BY <1>5, <2>1
    <2>2. CASE b # x
      <3>1. b \in DOMAIN block /\ ~ block[b].free
        BY <1>5, <2>2
      <3>2. b + HDR \in DOMAIN live \/ \E u \in Thread : Holds(u) /\ blk[u] = b
        BY <3>1, <1>1 DEF UseOK
      <3> QED BY <3>2, <2>2, <1>2
    <2> QED BY <2>1, <2>2
  <1> QED BY <1>3, <1>4, <1>5 DEF UseOK

\* The threads outside the critical section know nothing that a step inside changes.
LEMMA KnowsKept ==
    ASSUME Inv, NEW t \in Thread, pc[t] \in Critical, NEW u \in Thread, u # t,
           lock' = lock, req' = req, pc'[u] = pc[u]
    PROVE  Knows(u)'
  <1>1. pc[u] \notin Critical /\ lock = t
    BY OthersOut
  <1>2. Knows(u)
    BY DEF Inv, LockOK
  <1> QED BY <1>1, <1>2 DEF Knows, Critical

LEMMA SplitMarkStep ==
    ASSUME Inv, Sensible, NEW t \in Thread, SplitMark(t)
    PROVE  Inv'
  <1> DEFINE x == blk[t]
  <1> DEFINE s == RequestSize(req[t])
  <1>1. /\ pc[t] = "m_split" /\ pc' = [pc EXCEPT ![t] = "m_unlock"]
        /\ block' = Mark(SplitBlock(block, x, s), x, FALSE)
        /\ head' = head /\ regions' = regions /\ lock' = lock /\ req' = req /\ blk' = blk
        /\ live' = live /\ mallocs' = mallocs
    BY DEF SplitMark, Goto, Mark
  <1>2. TypeOK /\ LockOK /\ UseOK /\ ListOK(head, block) /\ RegionsOK /\ Covered(block) = Memory
    BY DEF Inv
  <1>3. lock = t /\ \A u \in Thread : u # t => pc[u] \notin Critical
    BY <1>1, OthersOut DEF Critical
  <1>4. x \in DOMAIN block /\ block[x].free /\ block[x].size >= s /\ req[t] \in Requests
    BY <1>1, <1>2 DEF LockOK, Knows
  <1>5. req[t] \in Nat /\ s \in Nat /\ req[t] <= s /\ s % ALIGN = 0 /\ s + HDR + MIN_PAYLOAD < WORD
    BY <1>4, SizeOfRequest
  <1>6. \A c \in DOMAIN block : ~ CanMerge(block, c)
    BY <1>1, <1>3, NoneMergeable DEF Critical
  <1> HIDE DEF s, x
  <1>7. /\ ListOK(head, block') /\ Covered(block') = Covered(block)
        /\ DOMAIN block \subseteq DOMAIN block' /\ ~ block'[x].free /\ block'[x].size >= s
        /\ \A c \in DOMAIN block : c # x =>
              block'[c].free = block[c].free /\ block'[c].size = block[c].size
        /\ \A c \in DOMAIN block' : c \notin DOMAIN block => block'[c].free
        /\ \A c \in DOMAIN block' : ~ CanMerge(block', c)
    <2>1. HDR % ALIGN = 0
      BY DEF Sensible
    <2>2. SplitDone(head, block, x, s, block')
      BY <1>1, <1>2, <1>4, <1>5, <1>6, <2>1, SplitResult
    <2> QED BY <2>2 DEF SplitDone
  <1>8. pc'[t] = "m_unlock" /\ \A u \in Thread : u # t => pc'[u] = pc[u] /\ blk'[u] = blk[u]
    BY <1>1, <1>2 DEF TypeOK
  <1>9. TypeOK'
    <2>1. head' \in 0 .. WORD /\ DOMAIN block' \subseteq 1 .. WORD /\ Range(block') \subseteq Headers
      BY <1>1, <1>7, TypeFromList
    <2>2. pc' \in [Thread -> {"idle", "m_lock", "m_find", "m_extend", "m_split", "m_unlock",
                              "f_lock", "f_mark", "f_prev", "f_unlock"}]
      BY <1>1, <1>2 DEF TypeOK
    <2> QED BY <1>1, <1>2, <2>1, <2>2 DEF TypeOK
  <1>10. LockOK'
    <2> SUFFICES ASSUME NEW u \in Thread PROVE Knows(u)'
      BY DEF LockOK
    <2>1. CASE u = t
      BY <2>1, <1>1, <1>3, <1>4, <1>8 DEF Knows, Critical
    <2>2. CASE u # t
      BY <2>2, <1>1, <1>8, KnowsKept DEF Critical
    <2> QED BY <2>1, <2>2
  <1>11. UseOK'
    <2>1. ~ Holds(t)
      BY <1>1 DEF Holds
    <2>2. \A u \in Thread : u # t /\ Holds(u) => blk[u] # x
      BY <1>2, <1>4 DEF UseOK
    <2>3. \A p \in DOMAIN live : p \in Nat /\ p - HDR # x
      BY <1>2, <1>4 DEF UseOK
    <2>4. x \in Nat \ {0} /\ (x + HDR) - HDR = x
      BY <1>2, <1>4, Sizes, Fields
    <2>5. x + HDR \notin DOMAIN live
      BY <2>3, <2>4
    <2>6. block'[x].size >= req[t]
      <3>1. x \in DOMAIN block' /\ block'[x].size \in Nat
        BY <1>4, <1>7, Fields
      <3>2. block'[x].size >= s
        BY <1>7
      <3> QED BY <3>1, <3>2, <1>5
    <2>7. Holds(t)' /\ blk'[t] = x
      BY <1>1, <1>8, <2>4 DEF Holds, x
    <2>8. \A c \in DOMAIN block : c # x /\ ~ block[c].free =>
             c \in DOMAIN block' /\ ~ block'[c].free /\ block'[c].size = block[c].size
      BY <1>7
    <2>9. \A c \in DOMAIN block' : c # x /\ ~ block'[c].free => c \in DOMAIN block /\ ~ block[c].free
      BY <1>7
    <2>10. x \in DOMAIN block' /\ ~ block'[x].free
      BY <1>4, <1>7
    <2>11. Carried(t, x)
      BY <1>1, <1>8, <2>1, <2>2, <2>3, <2>5, <2>6, <2>7, <2>8, <2>9, <2>10 DEF Carried
    <2> QED BY <2>11, UseCarried
  <1>12. MergeOK'
    BY <1>7 DEF MergeOK
  <1>13. RegionsOK' /\ Covered(block') = Memory' /\ ListOK(head', block')
    BY <1>1, <1>2, <1>7 DEF RegionsOK, Memory
  <1> QED BY <1>9, <1>10, <1>11, <1>12, <1>13 DEF Inv

LEMMA FreeMarkStep ==
    ASSUME Inv, NEW t \in Thread, FreeMark(t)
    PROVE  Inv'
  <1> DEFINE x == blk[t]
  <1>1. /\ pc[t] = "f_mark" /\ pc' = [pc EXCEPT ![t] = "f_prev"]
        /\ block' = CoalesceWithNext(Mark(block, x, TRUE), x)
        /\ head' = head /\ regions' = regions /\ lock' = lock /\ req' = req /\ blk' = blk
        /\ live' = live /\ mallocs' = mallocs
    BY DEF FreeMark, Goto, Mark
  <1>2. TypeOK /\ LockOK /\ UseOK /\ ListOK(head, block) /\ RegionsOK /\ Covered(block) = Memory
    BY DEF Inv
  <1>3. lock = t /\ \A u \in Thread : u # t => pc[u] \notin Critical
    BY <1>1, OthersOut DEF Critical
  <1>4. Holds(t)
    BY <1>1 DEF Holds
  <1>5. /\ x \in DOMAIN block /\ ~ block[x].free /\ x + HDR \notin DOMAIN live
        /\ \A u \in Thread : Holds(u) /\ blk[u] = x => u = t
    BY <1>2, <1>4 DEF UseOK
  <1>6. \A c \in DOMAIN block : ~ CanMerge(block, c)
    BY <1>1, <1>3, NoneMergeable DEF Critical
  <1> HIDE DEF x
  <1>7. /\ ListOK(head, block') /\ Covered(block') = Covered(block)
        /\ DOMAIN block' \subseteq DOMAIN block /\ x \in DOMAIN block' /\ block'[x].free
        /\ \A c \in DOMAIN block' : c # x =>
              block'[c].free = block[c].free /\ block'[c].size = block[c].size
        /\ \A c \in DOMAIN block : c \notin DOMAIN block' => block[c].free
        /\ \A c \in DOMAIN block' : CanMerge(block', c) => block'[c].next = x
    <2>1. MarkDone(head, block, x, block')
      BY <1>1, <1>2, <1>5, <1>6, FreeResult
    <2> QED BY <2>1 DEF MarkDone
  <1>8. pc'[t] = "f_prev" /\ \A u \in Thread : u # t => pc'[u] = pc[u] /\ blk'[u] = blk[u]
    BY <1>1, <1>2 DEF TypeOK
  <1>9. TypeOK'
    <2>1. head' \in 0 .. WORD /\ DOMAIN block' \subseteq 1 .. WORD /\ Range(block') \subseteq Headers
      BY <1>1, <1>7, TypeFromList
    <2>2. pc' \in [Thread -> {"idle", "m_lock", "m_find", "m_extend", "m_split", "m_unlock",
                              "f_lock", "f_mark", "f_prev", "f_unlock"}]
      BY <1>1, <1>2 DEF TypeOK
    <2> QED BY <1>1, <1>2, <2>1, <2>2 DEF TypeOK
  <1>10. LockOK'
    <2> SUFFICES ASSUME NEW u \in Thread PROVE Knows(u)'
      BY DEF LockOK
    <2>1. CASE u = t
      BY <2>1, <1>1, <1>3, <1>7, <1>8 DEF Knows, Critical, x
    <2>2. CASE u # t
      BY <2>2, <1>1, <1>8, KnowsKept DEF Critical
    <2> QED BY <2>1, <2>2
  <1>11. UseOK'
    <2>1. ~ Holds(t)' /\ blk[t] = x
      BY <1>8 DEF Holds, x
    <2>2. \A u \in Thread : u # t /\ Holds(u) => blk[u] # x
      BY <1>5
    <2>3. \A p \in DOMAIN live : p - HDR # x
      <3>1. x \in Nat
        BY <1>2, <1>5, Fields
      <3>2. \A p \in DOMAIN live : p \in Nat /\ p # x + HDR
        BY <1>2, <1>5 DEF UseOK
      <3> QED BY <3>1, <3>2, Sizes
    <2>4. \A c \in DOMAIN block : c # x /\ ~ block[c].free =>
             c \in DOMAIN block' /\ ~ block'[c].free /\ block'[c].size = block[c].size
      BY <1>7
    <2>5. \A c \in DOMAIN block' : c # x /\ ~ block'[c].free => c \in DOMAIN block /\ ~ block[c].free
      BY <1>7
    <2>6. block'[x].free
      BY <1>7
    <2>7. Carried(t, x)
      BY <1>1, <1>8, <2>1, <2>2, <2>3, <2>4, <2>5, <2>6 DEF Carried
    <2> QED BY <2>7, UseCarried
  <1>12. MergeOK'
    BY <1>1, <1>7, <1>8 DEF MergeOK, x
  <1>13. RegionsOK' /\ Covered(block') = Memory' /\ ListOK(head', block')
    BY <1>1, <1>2, <1>7 DEF RegionsOK, Memory
  <1> QED BY <1>9, <1>10, <1>11, <1>12, <1>13 DEF Inv

LEMMA FreePrevStep ==
    ASSUME Inv, NEW t \in Thread, FreePrev(t)
    PROVE  Inv'
  <1> DEFINE x == blk[t]
  <1>1. /\ pc[t] = "f_prev" /\ pc' = [pc EXCEPT ![t] = "f_unlock"]
        /\ block' = CoalesceWithNext(block, block[x].prev)
        /\ head' = head /\ regions' = regions /\ lock' = lock /\ req' = req /\ blk' = blk
        /\ live' = live /\ mallocs' = mallocs
    BY DEF FreePrev, Goto
  <1>2. TypeOK /\ LockOK /\ UseOK /\ MergeOK /\ ListOK(head, block) /\ RegionsOK
        /\ Covered(block) = Memory
    BY DEF Inv
  <1>3. lock = t /\ \A u \in Thread : u # t => pc[u] \notin Critical
    BY <1>1, OthersOut DEF Critical
  <1>4. x \in DOMAIN block /\ block[x].free
    BY <1>1, <1>2 DEF LockOK, Knows
  <1>5. \A c \in DOMAIN block : CanMerge(block, c) => block[c].next = x
    BY <1>2, <1>3 DEF MergeOK, Critical
  <1> HIDE DEF x
  <1>6. /\ ListOK(head, block') /\ Covered(block') = Covered(block) /\ DOMAIN block' \subseteq DOMAIN block
        /\ \A c \in DOMAIN block' : /\ block'[c].free = block[c].free
                                    /\ ~ block[c].free => block'[c].size = block[c].size
        /\ \A c \in DOMAIN block : c \notin DOMAIN block' => block[c].free
        /\ \A c \in DOMAIN block' : ~ CanMerge(block', c)
    <2>1. PrevDone(head, block, block')
      BY <1>1, <1>2, <1>4, <1>5, FreePrevResult
    <2> QED BY <2>1 DEF PrevDone
  <1>8. pc'[t] = "f_unlock" /\ \A u \in Thread : u # t => pc'[u] = pc[u] /\ blk'[u] = blk[u]
    BY <1>1, <1>2 DEF TypeOK
  <1>9. TypeOK'
    <2>1. head' \in 0 .. WORD /\ DOMAIN block' \subseteq 1 .. WORD /\ Range(block') \subseteq Headers
      BY <1>1, <1>6, TypeFromList
    <2>2. pc' \in [Thread -> {"idle", "m_lock", "m_find", "m_extend", "m_split", "m_unlock",
                              "f_lock", "f_mark", "f_prev", "f_unlock"}]
      BY <1>1, <1>2 DEF TypeOK
    <2> QED BY <1>1, <1>2, <2>1, <2>2 DEF TypeOK
  <1>10. LockOK'
    <2> SUFFICES ASSUME NEW u \in Thread PROVE Knows(u)'
      BY DEF LockOK
    <2>1. CASE u = t
      BY <2>1, <1>1, <1>3, <1>8 DEF Knows, Critical
    <2>2. CASE u # t
      BY <2>2, <1>1, <1>8, KnowsKept DEF Critical
    <2> QED BY <2>1, <2>2
  <1>11. UseOK'
    <2>1. ~ Holds(t)' /\ ~ Holds(t)
      BY <1>1, <1>8 DEF Holds
    <2>2. 0 \notin DOMAIN block /\ 0 \notin DOMAIN block'
      BY <1>2, <1>6, Fields
    <2>3. \A u \in Thread : u # t /\ Holds(u) => blk[u] # 0
      BY <1>2, <2>2 DEF UseOK
    <2>4. \A p \in DOMAIN live : p - HDR # 0
      BY <1>2, <2>2 DEF UseOK
    <2>5. \A c \in DOMAIN block : c # 0 /\ ~ block[c].free =>
             c \in DOMAIN block' /\ ~ block'[c].free /\ block'[c].size = block[c].size
      BY <1>6
    <2>6. \A c \in DOMAIN block' : c # 0 /\ ~ block'[c].free => c \in DOMAIN block /\ ~ block[c].free
      BY <1>6
    <2>7. Carried(t, 0)
      BY <1>1, <1>8, <2>1, <2>2, <2>3, <2>4, <2>5, <2>6 DEF Carried
    <2> QED BY <2>7, UseCarried
  <1>12. MergeOK'
    BY <1>6 DEF MergeOK
  <1>13. RegionsOK' /\ Covered(block') = Memory' /\ ListOK(head', block')
    BY <1>1, <1>2, <1>6 DEF RegionsOK, Memory
  <1> QED BY <1>9, <1>10, <1>11, <1>12, <1>13 DEF Inv

LEMMA PageAligned ==
    ASSUME Sensible, NEW a \in Nat, a % PAGE_SIZE = 0
    PROVE  a % ALIGN = 0
  <1>1. \A x \in Nat, d \in Nat \ {0} : x % d = 0 => x = d * (x \div d) /\ x \div d \in Nat
    OBVIOUS
  <1>2. PICK k \in Nat : a = PAGE_SIZE * k
    BY <1>1, Sizes
  <1>3. PICK j \in Nat : PAGE_SIZE = ALIGN * j
    BY <1>1, Sizes DEF Sensible
  <1>4. a = ALIGN * (j * k) /\ j * k \in Nat
    BY <1>2, <1>3, Sizes
  <1> QED BY <1>4, Multiple, Sizes

\* A chunk that vmalloc places lies below all blocks.
LEMMA PlacedBelow ==
    ASSUME Inv, Sensible, NEW len \in Nat \ {0}, NEW a \in VmallocPlaces(len)
    PROVE  /\ a \in Nat \ {0} /\ a + len <= WORD /\ a % ALIGN = 0
           /\ \A r \in DOMAIN regions : a + len <= r
           /\ \A b \in DOMAIN block : a + len <= b
  <1>1. a \in Nat \ {0} /\ a + len <= WORD /\ a % PAGE_SIZE = 0
    BY Sizes DEF VmallocPlaces
  <1>2. \A r \in DOMAIN regions : a + len <= r
    BY DEF VmallocPlaces, Sensible
  <1>3. ListOK(head, block) /\ RegionsOK /\ Covered(block) = Memory
    BY DEF Inv
  <1>4. ASSUME NEW b \in DOMAIN block PROVE a + len <= b
    <2>1. b \in Nat /\ block[b].size \in Nat
      BY <1>3, Fields
    <2>2. b \in Covered(block)
      <3>1. b \in Int /\ b <= b /\ b < b + HDR + block[b].size
        BY <2>1, Sizes
      <3> QED BY <3>1, <1>3, CoveredBytes
    <2>3. PICK r \in DOMAIN regions : b \in Bytes(r, regions[r])
      BY <2>2, <1>3 DEF Memory
    <2>4. r \in Nat /\ r <= b
      BY <2>3, <1>3 DEF RegionsOK, Bytes
    <2> QED BY <2>1, <2>4, <1>1, <1>2
  <1>5. a % ALIGN = 0
    BY <1>1, PageAligned
  <1> QED BY <1>1, <1>2, <1>4, <1>5

LEMMA ExtendHeapStep ==
    ASSUME Inv, Sensible, NEW t \in Thread, ExtendHeap(t)
    PROVE  Inv'
  <1> DEFINE len == ChunkSize(req[t])
  <1> DEFINE D(a) == InsertBlock(head, block, a, len - HDR)
  <1>1. /\ pc[t] = "m_extend" /\ lock' = lock /\ req' = req /\ live' = live /\ mallocs' = mallocs
        /\ \/ /\ pc' = [pc EXCEPT ![t] = "m_split"]
              /\ \E a \in VmallocPlaces(len) :
                    LET prev == D(a)[a].prev
                        b == IF prev # 0 THEN prev ELSE a
                    IN  /\ regions' = Write(regions, a, len)
                        /\ head' = IF prev = 0 THEN a ELSE head
                        /\ block' = CoalesceWithNext(CoalesceWithNext(D(a), prev), b)
                        /\ blk' = [blk EXCEPT ![t] = b]
           \/ /\ pc' = [pc EXCEPT ![t] = "m_unlock"]
              /\ UNCHANGED heap /\ blk' = blk
    BY DEF ExtendHeap, Goto, ChunkSize
  <1>2. TypeOK /\ LockOK /\ UseOK /\ ListOK(head, block) /\ RegionsOK /\ Covered(block) = Memory
    BY DEF Inv
  <1>3. lock = t /\ \A u \in Thread : u # t => pc[u] \notin Critical
    BY <1>1, OthersOut DEF Critical
  <1>4. req[t] \in Requests /\ blk[t] = 0
    BY <1>1, <1>2 DEF LockOK, Knows
  <1>5. \A c \in DOMAIN block : ~ CanMerge(block, c)
    BY <1>1, <1>3, NoneMergeable DEF Critical
  <1>6. len \in Nat \ {0} /\ HDR + RequestSize(req[t]) <= len /\ RequestSize(req[t]) \in Nat
    BY <1>4, SizeOfChunk, SizeOfRequest, Sizes
  <1>7. CASE pc' = [pc EXCEPT ![t] = "m_unlock"] /\ UNCHANGED heap /\ blk' = blk
    <2>1. /\ head' = head /\ block' = block /\ regions' = regions
          /\ ListOK(head', block') /\ RegionsOK' /\ Covered(block') = Memory'
          /\ head' \in 0 .. WORD /\ DOMAIN block' \subseteq 1 .. WORD /\ Range(block') \subseteq Headers
      BY <1>7, HeapKept
    <2>2. pc'[t] = "m_unlock" /\ \A u \in Thread : u # t => pc'[u] = pc[u]
      BY <1>2, <1>7 DEF TypeOK
    <2>3. TypeOK'
      <3>1. pc' \in [Thread -> {"idle", "m_lock", "m_find", "m_extend", "m_split", "m_unlock",
                                "f_lock", "f_mark", "f_prev", "f_unlock"}]
        BY <1>2, <1>7 DEF TypeOK
      <3> QED BY <1>1, <1>2, <1>7, <2>1, <3>1 DEF TypeOK
    <2>4. LockOK'
      <3> SUFFICES ASSUME NEW u \in Thread PROVE Knows(u)'
        BY DEF LockOK
      <3>1. CASE u = t
        BY <3>1, <1>1, <1>3, <1>4, <2>2 DEF Knows, Critical
      <3>2. CASE u # t
        BY <3>2, <1>1, <2>2, KnowsKept DEF Critical
      <3> QED BY <3>1, <3>2
    <2>5. UseOK'
      <3>1. ~ Holds(t) /\ ~ Holds(t)'
        BY <1>1, <1>4, <1>7, <2>2 DEF Holds
      <3>2. \A u \in Thread : u # t => (Holds(u)' <=> Holds(u))
        BY <1>7, <2>2 DEF Holds
      <3>3. \A u \in Thread : u # t => pc'[u] # "m_unlock"
        BY <1>3, <2>2 DEF Critical
      <3>4. Carried(t, 0)
        <4>1. 0 \notin DOMAIN block
          BY <1>2, Fields
        <4>2. \A u \in Thread : u # t /\ Holds(u) => blk[u] # 0
          BY <1>2, <4>1 DEF UseOK
        <4>3. \A p \in DOMAIN live : p - HDR # 0
          BY <1>2, <4>1 DEF UseOK
        <4> QED BY <1>1, <1>7, <2>1, <2>2, <3>1, <4>1, <4>2, <4>3 DEF Carried
      <3> QED BY <3>4, UseCarried
    <2>6. MergeOK'
      BY <1>5, <2>1 DEF MergeOK
    <2> QED BY <2>1, <2>3, <2>4, <2>5, <2>6 DEF Inv
  <1>8. ASSUME pc' = [pc EXCEPT ![t] = "m_split"], NEW a \in VmallocPlaces(len),
               regions' = Write(regions, a, len),
               head' = IF D(a)[a].prev = 0 THEN a ELSE head,
               block' = CoalesceWithNext(CoalesceWithNext(D(a), D(a)[a].prev),
                                         IF D(a)[a].prev # 0 THEN D(a)[a].prev ELSE a),
               blk' = [blk EXCEPT ![t] = IF D(a)[a].prev # 0 THEN D(a)[a].prev ELSE a]
        PROVE  Inv'
    <2> DEFINE E == D(a)
    <2> DEFINE C == CoalesceWithNext(CoalesceWithNext(E, 0), a)
    <2>1. E = InsertBlock(head, block, a, len - HDR) /\ C = CoalesceWithNext(CoalesceWithNext(E, 0), a)
      OBVIOUS
    <2>2. /\ head' = IF E[a].prev = 0 THEN a ELSE head
          /\ block' = CoalesceWithNext(CoalesceWithNext(E, E[a].prev),
                                       IF E[a].prev # 0 THEN E[a].prev ELSE a)
          /\ blk' = [blk EXCEPT ![t] = IF E[a].prev # 0 THEN E[a].prev ELSE a]
      BY <1>8
    <2> HIDE DEF len, D, E
    <2>3. /\ a \in Nat \ {0} /\ a + len <= WORD /\ a % ALIGN = 0
          /\ \A r \in DOMAIN regions : a + len <= r
          /\ \A b \in DOMAIN block : a + len <= b
      BY <1>6, PlacedBelow
    <2>4. len \in Nat /\ len >= HDR
      BY <1>6, Sizes
    <2>5. ExtendDone(block, a, len, E, C)
      <3> HIDE DEF C
      <3> QED BY <1>2, <1>5, <2>1, <2>3, <2>4, ExtendResult
    <2>6. E[a].prev = 0
      BY <2>5 DEF ExtendDone
    <2>7. head' = a /\ block' = C /\ blk' = [blk EXCEPT ![t] = a]
      BY <2>2, <2>6
    <2> HIDE DEF C
    <2>8. /\ ListOK(a, block')
          /\ \A y : y \in Covered(block') <=> y \in Covered(block) \/ y \in Bytes(a, len)
          /\ DOMAIN block' \subseteq DOMAIN block \cup {a} /\ a \in DOMAIN block' /\ a \notin DOMAIN block
          /\ block'[a].free /\ block'[a].size >= len - HDR
          /\ \A c \in DOMAIN block' : c # a =>
                block'[c].free = block[c].free /\ block'[c].size = block[c].size
          /\ \A c \in DOMAIN block : c \notin DOMAIN block' => block[c].free
          /\ \A c \in DOMAIN block' : ~ CanMerge(block', c)
      BY <2>5, <2>7 DEF ExtendDone
    <2>9. /\ pc'[t] = "m_split" /\ blk'[t] = a
          /\ \A u \in Thread : u # t => pc'[u] = pc[u] /\ blk'[u] = blk[u]
      BY <1>2, <1>8, <2>7 DEF TypeOK
    <2>10. TypeOK'
      <3>1. head' \in 0 .. WORD /\ DOMAIN block' \subseteq 1 .. WORD /\ Range(block') \subseteq Headers
        BY <2>7, <2>8, TypeFromList
      <3>2. pc' \in [Thread -> {"idle", "m_lock", "m_find", "m_extend", "m_split", "m_unlock",
                                "f_lock", "f_mark", "f_prev", "f_unlock"}]
        BY <1>2, <1>8 DEF TypeOK
      <3>3. blk' \in [Thread -> 0 .. WORD]
        <4>1. a \in 0 .. WORD
          BY <3>1, <2>7
        <4> QED BY <4>1, <1>2, <2>7 DEF TypeOK
      <3> QED BY <1>1, <1>2, <3>1, <3>2, <3>3 DEF TypeOK
    <2>11. LockOK'
      <3> SUFFICES ASSUME NEW u \in Thread PROVE Knows(u)'
        BY DEF LockOK
      <3>1. CASE u = t
        <4>1. block'[a].size >= RequestSize(req[t])
          <5>1. block'[a].size \in Nat
            BY <2>8, Fields
          <5>2. block'[a].size >= len - HDR
            BY <2>8
          <5> QED BY <5>1, <5>2, <1>6, Sizes
        <4> QED BY <3>1, <4>1, <1>1, <1>3, <1>4, <2>8, <2>9 DEF Knows, Critical
      <3>2. CASE u # t
        BY <3>2, <1>1, <2>9, KnowsKept DEF Critical
      <3> QED BY <3>1, <3>2
    <2>12. UseOK'
      <3>1. ~ Holds(t) /\ ~ Holds(t)'
        BY <1>1, <2>9 DEF Holds
      <3>2. \A u \in Thread : u # t /\ Holds(u) => blk[u] # a
        BY <1>2, <2>8 DEF UseOK
      <3>3. \A p \in DOMAIN live : p - HDR # a
        BY <1>2, <2>8 DEF UseOK
      <3>4. \A c \in DOMAIN block : c # a /\ ~ block[c].free =>
               c \in DOMAIN block' /\ ~ block'[c].free /\ block'[c].size = block[c].size
        BY <2>8
      <3>5. \A c \in DOMAIN block' : c # a /\ ~ block'[c].free => c \in DOMAIN block /\ ~ block[c].free
        BY <2>8
      <3>6. block'[a].free
        BY <2>8
      <3>7. Carried(t, a)
        BY <1>1, <2>9, <3>1, <3>2, <3>3, <3>4, <3>5, <3>6 DEF Carried
      <3> QED BY <3>7, UseCarried
    <2>13. MergeOK'
      BY <2>8 DEF MergeOK
    <2>14. a \notin DOMAIN regions
      BY <1>2, <1>6, <2>3 DEF RegionsOK
    <2>15. DOMAIN regions' = DOMAIN regions \cup {a} /\ regions'[a] = len
           /\ \A r \in DOMAIN regions : regions'[r] = regions[r]
      BY <1>8, <2>14 DEF Write
    <2>16. RegionsOK'
      BY <1>2, <2>3, <2>4, <2>15 DEF RegionsOK
    <2>17. Covered(block') = Memory'
      <3>1. \A y : y \in Memory <=> \E r \in DOMAIN regions : y \in Bytes(r, regions[r])
        BY DEF Memory
      <3>2. \A y : y \in Memory' <=> \E r \in DOMAIN regions' : y \in Bytes(r, regions'[r])
        BY DEF Memory, Bytes
      <3>3. \A y : y \in Memory' <=> y \in Memory \/ y \in Bytes(a, len)
        BY <3>1, <3>2, <2>15
      <3>4. \A y : y \in Covered(block') <=> y \in Memory \/ y \in Bytes(a, len)
        BY <1>2, <2>8
      <3> QED BY <3>3, <3>4
    <2>18. ListOK(head', block')
      BY <2>7, <2>8
    <2> QED BY <2>10, <2>11, <2>12, <2>13, <2>16, <2>17, <2>18 DEF Inv
  <1> QED BY <1>1, <1>7, <1>8

LEMMA NextInv ==
    ASSUME Inv, Sensible, [Next]_vars
    PROVE  Inv'
  <1>1. CASE UNCHANGED vars
    <2>1. /\ UNCHANGED heap /\ lock' = lock /\ pc' = pc /\ req' = req /\ blk' = blk
          /\ live' = live /\ mallocs' = mallocs
      BY <1>1 DEF vars
    <2>2. head' = head /\ block' = block /\ regions' = regions
      BY <2>1 DEF heap
    <2> QED BY <2>1, <2>2 DEF Inv, TypeOK, RegionsOK, Memory, LockOK, Knows, UseOK, Holds, MergeOK
  <1>2. CASE Next
    BY <1>2, MallocStep, FreeStep, SpinLockStep, FindStep, ExtendHeapStep, SplitMarkStep,
       MallocReturnStep, FreeMarkStep, FreePrevStep, FreeReturnStep DEF Next
  <1> QED BY <1>1, <1>2

\* The inductive invariant holds in every state: the headers form one list in the
\* order of the addresses that covers what vmalloc returned, the blocks in use are
\* those callers have or threads are about to return or to free, and only the block
\* that myfree is about to merge may touch a free block before it.
THEOREM Invariance ==
    ASSUME Sensible
    PROVE  Spec => []Inv
  <1>1. Init => Inv
    BY InitInv
  <1>2. Inv /\ [Next]_vars => Inv'
    BY NextInv
  <1> QED BY <1>1, <1>2, PTL DEF Spec

----------------------------------------------------------------------------
(* What follows for the callers.                                           *)

\* Where a live allocation lies.
LEMMA LivePlace ==
    ASSUME Inv, NEW p \in DOMAIN live, NEW b, b = p - HDR
    PROVE  /\ p \in Nat /\ live[p] \in Nat /\ b \in DOMAIN block /\ b \in Nat
           /\ block[b].size \in Nat /\ live[p] <= block[b].size /\ p = b + HDR
  <1>1. /\ p \in Nat /\ live[p] \in Nat /\ b \in DOMAIN block /\ block[b].size >= live[p]
    BY DEF Inv, UseOK
  <1>2. b \in Nat /\ block[b].size \in Nat
    BY <1>1, Fields DEF Inv
  <1> QED BY <1>1, <1>2, Sizes

LEMMA DisjointLive ==
    ASSUME Inv
    PROVE  LiveDisjoint
  <1> SUFFICES ASSUME NEW p \in DOMAIN live
               PROVE  /\ \A q \in DOMAIN live : p # q => Bytes(p, live[p]) \cap Bytes(q, live[q]) = {}
                      /\ \A b \in DOMAIN block : Bytes(p, live[p]) \cap Bytes(b, HDR) = {}
                      /\ Bytes(p, live[p]) \subseteq Memory
    BY AllListed DEF LiveDisjoint, Memory, Inv
  <1> DEFINE c == p - HDR
  <1>1. /\ p \in Nat /\ live[p] \in Nat /\ c \in DOMAIN block /\ c \in Nat
        /\ block[c].size \in Nat /\ live[p] <= block[c].size /\ p = c + HDR
    BY LivePlace
  <1>2. \A b, d \in DOMAIN block : b < d => b + HDR + block[b].size <= d
    BY Fields DEF Inv, ListOK
  <1>3. \A b \in DOMAIN block : b \in Nat /\ block[b].size \in Nat
    BY Fields DEF Inv
  <1>4. ASSUME NEW q \in DOMAIN live, p # q
        PROVE  Bytes(p, live[p]) \cap Bytes(q, live[q]) = {}
    <2> DEFINE d == q - HDR
    <2>1. /\ q \in Nat /\ live[q] \in Nat /\ d \in DOMAIN block /\ d \in Nat
          /\ block[d].size \in Nat /\ live[q] <= block[d].size /\ q = d + HDR
      BY LivePlace
    <2>2. c # d
      BY <1>1, <1>4, <2>1
    <2> HIDE DEF c, d
    <2>3. CASE c < d
      <3>1. c + HDR + block[c].size <= d
        BY <1>1, <1>2, <2>1, <2>3
      <3>2. p + live[p] <= q
        BY <3>1, <1>1, <2>1, Sizes
      <3> QED BY <3>2, <1>1, <2>1 DEF Bytes
    <2>4. CASE d < c
      <3>1. d + HDR + block[d].size <= c
        BY <1>1, <1>2, <2>1, <2>4
      <3>2. q + live[q] <= p
        BY <3>1, <1>1, <2>1, Sizes
      <3> QED BY <3>2, <1>1, <2>1 DEF Bytes
    <2> QED BY <2>2, <2>3, <2>4, <1>1, <2>1
  <1> HIDE DEF c
  <1>5. ASSUME NEW b \in DOMAIN block
        PROVE  Bytes(p, live[p]) \cap Bytes(b, HDR) = {}
    <2>1. b \in Nat /\ block[b].size \in Nat
      BY <1>3
    <2>2. CASE b <= c
      <3>1. b + HDR <= p
        BY <1>1, <2>1, <2>2, Sizes
      <3> QED BY <3>1, <1>1, <2>1, Sizes DEF Bytes
    <2>3. CASE c < b
      <3>1. c + HDR + block[c].size <= b
        BY <1>1, <1>2, <2>3
      <3>2. p + live[p] <= b
        BY <3>1, <1>1, <2>1, Sizes
      <3> QED BY <3>2, <1>1, <2>1, Sizes DEF Bytes
    <2> QED BY <2>1, <2>2, <2>3, <1>1
  <1>6. ASSUME NEW y \in Bytes(p, live[p]) PROVE y \in Memory
    <2>1. y \in Int /\ p <= y /\ y < p + live[p]
      BY <1>1 DEF Bytes
    <2>2. c <= y /\ y < c + HDR + block[c].size
      BY <1>1, <2>1, Sizes
    <2>3. ListOK(head, block) /\ Covered(block) = Memory
      BY DEF Inv
    <2>4. y \in Covered(block)
      BY <1>1, <2>1, <2>2, <2>3, CoveredBytes
    <2> QED BY <2>3, <2>4
  <1> QED BY <1>4, <1>5, <1>6

\* What callers hold is theirs alone and as large as they asked, for any number of
\* threads, any requests and any sizes of headers, pages and chunks, as long as every
\* chunk comes to lie below the earlier ones.
THEOREM LiveSoundTheorem ==
    ASSUME Sensible
    PROVE  Spec => []LiveSound
  <1>1. Inv => LiveSound
    <2> SUFFICES ASSUME Inv PROVE LiveSound
      OBVIOUS
    <2>1. LiveDisjoint
      BY DisjointLive
    <2>2. ASSUME NEW p \in DOMAIN live
          PROVE  p % ALIGN = 0 /\ p - HDR \in DOMAIN block /\ block[p - HDR].size >= live[p]
      <3>1. p - HDR \in DOMAIN block /\ block[p - HDR].size >= live[p] /\ p \in Nat
        BY DEF Inv, UseOK
      <3>2. p - HDR \in Nat /\ (p - HDR) % ALIGN = 0
        BY <3>1, Fields DEF Inv, ListOK
      <3>3. HDR % ALIGN = 0
        BY DEF Sensible
      <3>4. ((p - HDR) + HDR) % ALIGN = 0
        BY <3>2, <3>3, SumAligned, Sizes
      <3>5. (p - HDR) + HDR = p
        BY <3>1, Sizes
      <3> QED BY <3>1, <3>4, <3>5
    <2> QED BY <2>1, <2>2 DEF LiveSound, PayloadFits
  <1> QED BY <1>1, Invariance, PTL

LEMMA TiledHeap ==
    ASSUME Inv
    PROVE  HeapTiles
  <1> SUFFICES ASSUME lock = NoThread
               PROVE  /\ \A b \in DOMAIN block :
                            /\ block[b].next # 0 => /\ b < block[b].next
                                                    /\ block[block[b].next].prev = b
                            /\ block[b].prev = 0 <=> b = head
                      /\ \A b, c \in DOMAIN block : b < c => BlockEnd(block, b) <= c
                      /\ Covered(block) = Memory
                      /\ {b \in DOMAIN block : ~ block[b].free}
                            = {p - HDR : p \in DOMAIN live}
                                 \cup {blk[t] : t \in {u \in Thread : pc[u] = "f_lock"}}
    <2>1. InList(head, block) = DOMAIN block
      BY AllListed DEF Inv
    <2> QED BY <2>1 DEF HeapTiles, Covered, Memory
  <1>1. ListOK(head, block) /\ UseOK /\ LockOK /\ Covered(block) = Memory
    BY DEF Inv
  <1>2. \A u \in Thread : Holds(u) <=> pc[u] = "f_lock"
    BY <1>1, MymallocAssumption DEF LockOK, Knows, Critical, Holds
  <1>3. ASSUME NEW b \in DOMAIN block, ~ block[b].free
        PROVE  \/ \E p \in DOMAIN live : b = p - HDR
               \/ \E u \in Thread : pc[u] = "f_lock" /\ blk[u] = b
    <2>1. b + HDR \in DOMAIN live \/ \E u \in Thread : Holds(u) /\ blk[u] = b
      BY <1>1, <1>3 DEF UseOK
    <2>2. b = (b + HDR) - HDR
      BY <1>1, Fields, Sizes
    <2> QED BY <2>1, <2>2, <1>2
  <1>4. \A p \in DOMAIN live : p - HDR \in DOMAIN block /\ ~ block[p - HDR].free
    BY <1>1 DEF UseOK
  <1>5. \A u \in Thread : pc[u] = "f_lock" => blk[u] \in DOMAIN block /\ ~ block[blk[u]].free
    BY <1>1, <1>2 DEF UseOK
  <1>6. {b \in DOMAIN block : ~ block[b].free}
           = {p - HDR : p \in DOMAIN live} \cup {blk[t] : t \in {u \in Thread : pc[u] = "f_lock"}}
    BY <1>3, <1>4, <1>5
  <1>7. \A b \in DOMAIN block : /\ block[b].next # 0 => /\ b < block[b].next
                                                        /\ block[block[b].next].prev = b
                                /\ block[b].prev = 0 <=> b = head
    BY <1>1 DEF ListOK
  <1>8. \A b, c \in DOMAIN block : b < c => BlockEnd(block, b) <= c
    BY <1>1 DEF ListOK
  <1> QED BY <1>1, <1>6, <1>7, <1>8

\* With the lock free, the list holds every block in the order of the addresses,
\* covers every byte of the memory that vmalloc returned exactly once, knows who uses
\* what, and has no two free blocks side by side.
THEOREM HeapInOrderTheorem ==
    ASSUME Sensible
    PROVE  Spec => []HeapInOrder
  <1>1. Inv => HeapInOrder
    <2> SUFFICES ASSUME Inv PROVE HeapInOrder
      OBVIOUS
    <2>1. HeapTiles
      BY TiledHeap
    <2>2. ASSUME lock = NoThread
          PROVE  \A b \in InList(head, block) : ~ CanMerge(block, b)
      <3>1. InList(head, block) = DOMAIN block
        BY AllListed DEF Inv
      <3>2. \A u \in Thread : pc[u] # "f_prev"
        BY <2>2, MymallocAssumption DEF Inv, LockOK, Knows, Critical
      <3> QED BY <3>1, <3>2, NoneMergeable
    <2>3. TypeOK
      BY DEF Inv
    <2> QED BY <2>1, <2>2, <2>3 DEF HeapInOrder, NoAdjacentFree
  <1> QED BY <1>1, Invariance, PTL
=============================================================================
