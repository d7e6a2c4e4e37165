------------------------------ MODULE Mymalloc ------------------------------
(***************************************************************************)
(* The allocator (m5/mymalloc.c): a doubly linked list of block headers in *)
(* address order, each header followed by its payload, guarded by one      *)
(* spinlock.  Addresses and sizes are numbers modulo WORD, the size of     *)
(* size_t; the sizes of headers, pages and chunks are constants.           *)
(***************************************************************************)
EXTENDS Integers, FiniteSets, FiniteSetsExt, Functions

CONSTANTS Thread,
          WORD, PAGE_SIZE, CHUNK_SIZE, MIN_PAYLOAD, ALIGN,
          HDR,            \* sizeof(block_t)
          Requests,       \* the sizes callers ask for
          Placement,      \* "below": vmalloc places every chunk below all
                          \* earlier ones; "anywhere": wherever there is room
          NoThread,
          MaxMallocs      \* bound on the calls of mymalloc

ASSUME MymallocAssumption ==
    /\ NoThread \notin Thread
    /\ {PAGE_SIZE, CHUNK_SIZE, MIN_PAYLOAD, ALIGN, HDR, WORD} \subseteq Nat \ {0}
    /\ Placement \in {"below", "anywhere"}
    /\ Requests \subseteq 0 .. WORD - 1 /\ MaxMallocs \in Nat

VARIABLES head,       \* heap_head, 0 for none
          block,      \* the headers: address -> size, free, prev, next
          regions,    \* what vmalloc has returned: address -> length
          lock,       \* heap_lock
          pc, req, blk,   \* thread -> step, size asked for, local block
          live,       \* address of payload -> size asked for
          mallocs

heap == <<head, block, regions>>
vars == <<heap, lock, pc, req, blk, live, mallocs>>

AlignUp(x, a) == (((x + a - 1) % WORD) \div a) * a

RequestSize(n)  == AlignUp(IF n < MIN_PAYLOAD THEN MIN_PAYLOAD ELSE n, ALIGN)
PageRound(n)    == AlignUp(n, PAGE_SIZE)
BlockEnd(B, b)  == b + HDR + B[b].size

Next0(B, b) == IF b = 0 THEN 0 ELSE B[b].next

\* The list as a function from positions to addresses, 0 beyond its end.
List(h, B) ==
    LET at[i \in 0 .. Cardinality(DOMAIN B)] ==
            IF i = 0 THEN h ELSE Next0(B, at[i - 1])
    IN  at

InList(h, B) == {List(h, B)[i] : i \in DOMAIN List(h, B)} \ {0}

\* Faulty variant: the flag of the block is not tested.
FindAnyBlock(size) ==
    LET at  == List(head, block)
        fit == {i \in DOMAIN at : at[i] # 0 /\ block[at[i]].size >= size}
    IN  IF fit = {} THEN 0 ELSE at[Min(fit)]

\* find_free_block: the first block of the list that is free and large enough.
FindFreeBlock(size) ==
    LET at  == List(head, block)
        fit == {i \in DOMAIN at : at[i] # 0 /\ block[at[i]].free
                                  /\ block[at[i]].size >= size}
    IN  IF fit = {} THEN 0 ELSE at[Min(fit)]

\* A header is written at b, whatever was there before.
Write(B, b, r) == [a \in DOMAIN B \cup {b} |-> IF a = b THEN r ELSE B[a]]

LinkPrev(B, b, x) == IF b = 0 THEN B ELSE [B EXCEPT ![b].prev = x]
LinkNext(B, b, x) == IF b = 0 THEN B ELSE [B EXCEPT ![b].next = x]

\* insert_block: behind the last block that is below the new one.
InsertBlock(h, B, b, size) ==
    LET at   == List(h, B)
        last == {i \in DOMAIN at : /\ at[i] # 0
                                   /\ Next0(B, at[i]) = 0 \/ ~ (Next0(B, at[i]) < b)}
        cur  == at[Min(last)]
        prev == IF h = 0 \/ b < h THEN 0 ELSE cur
        next == IF h = 0 \/ b < h THEN h ELSE B[cur].next
        new  == [size |-> size, free |-> TRUE, prev |-> prev, next |-> next]
    IN  LinkNext(LinkPrev(Write(B, b, new), next, b), prev, b)

CanMerge(B, b) ==
    LET n == B[b].next
    IN  n # 0 /\ B[b].free /\ B[n].free /\ BlockEnd(B, b) = n

\* coalesce_with_next; the header of the second block becomes payload.
CoalesceWithNext(B, b) ==
    IF b = 0 \/ ~ CanMerge(B, b) THEN B
    ELSE LET n == B[b].next
             M == [B EXCEPT ![b].size = @ + HDR + B[n].size, ![b].next = B[n].next]
         IN  Restrict(LinkPrev(M, B[n].next, b), DOMAIN B \ {n})

RoomToSplit(B, b, size) ==
    ~ (B[b].size < (size + HDR + MIN_PAYLOAD) % WORD)

SplitBlock(B, b, size) ==
    IF ~ RoomToSplit(B, b, size) THEN B
    ELSE LET rest == (b + HDR + size) % WORD
             r == [size |-> (B[b].size - size - HDR) % WORD, free |-> TRUE,
                   prev |-> b, next |-> B[b].next]
             M == LinkPrev(Write(B, rest, r), B[b].next, rest)
         IN  [M EXCEPT ![b].size = size, ![b].next = rest]

----------------------------------------------------------------------------

Headers == [size : 0 .. WORD - 1, free : BOOLEAN, prev : 0 .. WORD, next : 0 .. WORD]

\* The values of the variables; sizes and addresses fit in a word.
TypeOK ==
    /\ head \in 0 .. WORD
    /\ DOMAIN block \subseteq 1 .. WORD /\ Range(block) \subseteq Headers
    /\ lock \in Thread \cup {NoThread}
    /\ pc \in [Thread -> {"idle", "m_lock", "m_find", "m_extend", "m_split", "m_unlock",
                          "f_lock", "f_mark", "f_prev", "f_unlock"}]
    /\ req \in [Thread -> 0 .. WORD - 1] /\ blk \in [Thread -> 0 .. WORD]
    /\ mallocs \in 0 .. MaxMallocs

Init ==
    /\ head = 0 /\ block = << >> /\ regions = << >>
    /\ lock = NoThread
    /\ pc = [t \in Thread |-> "idle"]
    /\ req = [t \in Thread |-> 0]
    /\ blk = [t \in Thread |-> 0]
    /\ live = << >>
    /\ mallocs = 0

Goto(t, from, to) == /\ pc[t] = from
                     /\ pc' = [pc EXCEPT ![t] = to]

Malloc(t, n) ==
    /\ Goto(t, "idle", "m_lock")
    /\ mallocs < MaxMallocs /\ mallocs' = mallocs + 1
    /\ req' = [req EXCEPT ![t] = n]
    /\ UNCHANGED <<heap, lock, blk, live>>

\* A caller frees a pointer it got from mymalloc, once.
Free(t, p) ==
    /\ Goto(t, "idle", "f_lock")
    /\ blk' = [blk EXCEPT ![t] = p - HDR]
    /\ live' = Restrict(live, DOMAIN live \ {p})
    /\ UNCHANGED <<heap, lock, req, mallocs>>

SpinLock(t) ==
    /\ Goto(t, "m_lock", "m_find") \/ Goto(t, "f_lock", "f_mark")
    /\ lock = NoThread
    /\ lock' = t
    /\ UNCHANGED <<heap, req, blk, live, mallocs>>

Find(t) ==
    LET b == FindFreeBlock(RequestSize(req[t]))
    IN  /\ Goto(t, "m_find", IF b = 0 THEN "m_extend" ELSE "m_split")
        /\ blk' = [blk EXCEPT ![t] = b]
        /\ UNCHANGED <<heap, lock, req, live, mallocs>>

\* vmalloc: fresh pages, where the kernel puts them.
VmallocPlaces(len) ==
    { a \in 1 .. WORD - len :
        /\ a % PAGE_SIZE = 0
        /\ \A r \in DOMAIN regions :
              a + len <= r \/ (Placement = "anywhere" /\ r + regions[r] <= a) }

\* extend_heap.  Whenever the new block has a predecessor, that predecessor is
\* what is returned.
ExtendHeap(t) ==
    LET rounded == PageRound((HDR + RequestSize(req[t])) % WORD)
        bytes   == IF rounded < CHUNK_SIZE THEN CHUNK_SIZE ELSE rounded
    IN  /\ \/ /\ Goto(t, "m_extend", "m_split")
              /\ \E a \in VmallocPlaces(bytes) :
                    LET B == InsertBlock(head, block, a, bytes - HDR)
                        prev == B[a].prev
                        b == IF prev # 0 THEN prev ELSE a
                    IN  /\ regions' = Write(regions, a, bytes)
                        /\ head' = IF prev = 0 THEN a ELSE head
                        /\ block' = CoalesceWithNext(CoalesceWithNext(B, prev), b)
                        /\ blk' = [blk EXCEPT ![t] = b]
           \/ /\ Goto(t, "m_extend", "m_unlock")
              /\ UNCHANGED <<heap, blk>>
        /\ UNCHANGED <<lock, req, live, mallocs>>

SplitMark(t) ==
    /\ Goto(t, "m_split", "m_unlock")
    /\ LET B == SplitBlock(block, blk[t], RequestSize(req[t]))
       IN  block' = [B EXCEPT ![blk[t]].free = FALSE]
    /\ UNCHANGED <<head, regions, lock, req, blk, live, mallocs>>

\* spin_unlock and return of the payload, or of 0 when vmalloc failed.
MallocReturn(t) ==
    /\ Goto(t, "m_unlock", "idle")
    /\ lock' = NoThread
    /\ live' = IF blk[t] = 0 THEN live ELSE Write(live, blk[t] + HDR, req[t])
    /\ req' = [req EXCEPT ![t] = 0] /\ blk' = [blk EXCEPT ![t] = 0]
    /\ UNCHANGED <<heap, mallocs>>

FreeMark(t) ==
    /\ Goto(t, "f_mark", "f_prev")
    /\ block' = CoalesceWithNext([block EXCEPT ![blk[t]].free = TRUE], blk[t])
    /\ UNCHANGED <<head, regions, lock, req, blk, live, mallocs>>

\* Faulty variant: the predecessor is not looked at.
FreePrevSkipped(t) ==
    /\ Goto(t, "f_prev", "f_unlock")
    /\ UNCHANGED <<heap, lock, req, blk, live, mallocs>>

FreePrev(t) ==
    /\ Goto(t, "f_prev", "f_unlock")
    /\ block' = CoalesceWithNext(block, block[blk[t]].prev)
    /\ UNCHANGED <<head, regions, lock, req, blk, live, mallocs>>

FreeReturn(t) ==
    /\ Goto(t, "f_unlock", "idle")
    /\ lock' = NoThread
    /\ blk' = [blk EXCEPT ![t] = 0]
    /\ UNCHANGED <<heap, req, live, mallocs>>

Next == \E t \in Thread :
           \/ \E n \in Requests : Malloc(t, n)
           \/ \E p \in DOMAIN live : Free(t, p)
           \/ SpinLock(t) \/ Find(t) \/ ExtendHeap(t) \/ SplitMark(t)
           \/ MallocReturn(t) \/ FreeMark(t) \/ FreePrev(t) \/ FreeReturn(t)

Spec == Init /\ [][Next]_vars

----------------------------------------------------------------------------
(* Properties.                                                             *)

Bytes(a, len) == a .. a + len - 1

\* No two live allocations share a byte, none reaches out of the memory vmalloc
\* returned, and none covers the header of a block: between mymalloc and myfree
\* the caller owns what it asked for.
LiveDisjoint ==
    \A p \in DOMAIN live :
        /\ \A q \in DOMAIN live : p # q => Bytes(p, live[p]) \cap Bytes(q, live[q]) = {}
        /\ \A b \in InList(head, block) : Bytes(p, live[p]) \cap Bytes(b, HDR) = {}
        /\ Bytes(p, live[p]) \subseteq UNION {Bytes(r, regions[r]) : r \in DOMAIN regions}

\* What mymalloc returns is aligned and its block is as large as the caller asked, for
\* sizes that RequestSize can round up without a wrap.
PayloadFits ==
    \A p \in DOMAIN live :
        /\ p % ALIGN = 0
        /\ p - HDR \in DOMAIN block /\ block[p - HDR].size >= live[p]

\* What callers hold is theirs alone and as large as they asked, whatever is
\* allocated, split, given back and merged around it.
LiveSound == LiveDisjoint /\ PayloadFits

\* With the lock free, the blocks of the list are in address order, linked both
\* ways, cover every byte of the memory vmalloc returned exactly once, and the
\* ones in use are those callers have or are about to free.
HeapTiles ==
    lock = NoThread =>
        LET L == InList(head, block)
        IN  /\ DOMAIN block = L
            /\ \A b \in L : /\ block[b].next # 0 => /\ b < block[b].next
                                                    /\ block[block[b].next].prev = b
                            /\ block[b].prev = 0 <=> b = head
            /\ \A b, c \in L : b < c => BlockEnd(block, b) <= c
            /\ UNION {Bytes(b, HDR + block[b].size) : b \in L}
                  = UNION {Bytes(r, regions[r]) : r \in DOMAIN regions}
            /\ {b \in L : ~ block[b].free}
                  = {p - HDR : p \in DOMAIN live}
                       \cup {blk[t] : t \in {u \in Thread : pc[u] = "f_lock"}}

\* With the lock free no two adjacent blocks are both free: memory that was
\* given back is available for larger requests.
NoAdjacentFree ==
    lock = NoThread => \A b \in InList(head, block) : ~ CanMerge(block, b)

\* The whole heap between two calls: its list, its free memory, and the fields
\* of every header.
HeapInOrder == TypeOK /\ HeapTiles /\ NoAdjacentFree
=============================================================================
