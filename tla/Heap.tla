-------------------------------- MODULE Heap --------------------------------
(***************************************************************************)
(* The kernel's only allocator.  main hands the memory behind the kernel   *)
(* to SQLite's memsys5, a buddy allocator, and l_alloc, Lua's allocation   *)
(* function, passes every request on to it.                                *)
(*                                                                         *)
(* memsys5 divides the pool into nBlock atoms of szAtom bytes.  A block is *)
(* a run of 2^k atoms that starts at a multiple of 2^k.  The control byte  *)
(* of a block's first atom holds k and whether the block is free; those of *)
(* the other atoms hold whatever an earlier block, or the memory before    *)
(* the start, left there.  The free blocks of each size are on a list      *)
(* whose links are stored in the blocks.  Each loop of the C code advances *)
(* by one step per iteration, so that what holds inside it is visible.     *)
(*                                                                         *)
(* The contents of memory are kept per atom, as the allocation that wrote  *)
(* it (0: a link, or nobody).  The caller fills what it is given.          *)
(***************************************************************************)
EXTENDS Integers, Sequences

CONSTANTS LOGMAX,      \* the largest block has 2^LOGMAX atoms
          szAtom,      \* bytes per atom (64: sizeof(Mem5Link) and mnReq)
          AllocLimit,  \* largest request memsys5 accepts (0x40000000)
          IntLimit,    \* 2^31: sqlite3_realloc takes an int
          Ids,         \* the allocations Lua may hold
          Sizes,       \* the sizes Lua asks for, each a size_t
          HeapSizes,   \* the sizes of the memory main hands over
          Garbage      \* control bytes found in the memory at the start

\* 1 << k
Size(k) == 2 ^ k

Logs == 0 .. LOGMAX

Ctrl == [free : BOOLEAN, log : Logs]

\* The pool's atoms: each takes szAtom bytes and a control byte behind them.
\* Mutant: the control bytes are forgotten.
AtomsAlone(nByte) == nByte \div szAtom

AtomsIn(nByte) == nByte \div (szAtom + 1)

ASSUME LimitsAssumption ==
    /\ LOGMAX \in Nat
    /\ szAtom \in Nat \ {0}
    /\ {AllocLimit, IntLimit} \subseteq Nat /\ AllocLimit < IntLimit
    /\ AllocLimit <= szAtom * Size(LOGMAX)
    /\ Ids \subseteq Nat \ {0}
    /\ Sizes \subseteq Nat \ {0}
    /\ HeapSizes \subseteq Nat
    /\ \A n \in HeapSizes : AtomsIn(n) < 2 * Size(LOGMAX)
    /\ Garbage \subseteq Ctrl

\* What the proofs need to know of the powers of two.
ASSUME PowersAssumption ==
    Size(0) = 1 /\ \A k \in Logs : Size(k + 1) = 2 * Size(k)

VARIABLES
    nBlock,      \* number of atoms in the pool
    aCtrl,       \* aCtrl[b]: the control byte of atom b
    aiFreelist,  \* aiFreelist[k]: the list of the free blocks of 2^k atoms
    cell,        \* cell[b]: who wrote atom b
    ptr,         \* ptr[i]: where Lua believes allocation i to be, or NULL
    asked,       \* asked[i]: the size Lua asked for
    hpc,         \* "off", "init", "idle", "split", "merge" or "dangling"
    cur, bin,    \* the block in hand and its size: locals of the loops
    call,        \* the call being served: whose, and the size asked for
    blocks       \* history: the blocks <<first atom, k>> the pool consists of

heap_vars == <<nBlock, aCtrl, aiFreelist, cell, ptr, asked, hpc, cur, bin,
               call, blocks>>

NULL == -1

Atoms == 0 .. nBlock - 1

\* A block of 2^k atoms at b lies in the pool.
\* Mutant: off by one.
FitsNearly(b, k) == b + Size(k) <= nBlock + 1

Fits(b, k) == b + Size(k) <= nBlock

\* memsys5Link and memsys5Unlink: the lists are doubly linked, a block is
\* put in front and taken out wherever it is.
\* Mutant: the link to the old first block is not stored.
LinkAlone(lists, b, k) == [lists EXCEPT ![k] = <<b>>]

Link(lists, b, k) == [lists EXCEPT ![k] = <<b>> \o @]

Without(s, b) ==
    LET p == CHOOSE n \in DOMAIN s : s[n] = b
    IN  [n \in 1 .. Len(s) - 1 |-> IF n < p THEN s[n] ELSE s[n + 1]]

Unlink(lists, b, k) == [lists EXCEPT ![k] = Without(@, b)]

\* The smallest k with szAtom * 2^k >= n.  Mutant: one too small.
LogTooSmall(n) ==
    CHOOSE k \in Logs : /\ n < szAtom * Size(k + 1)
                        /\ \A j \in 0 .. k - 1 : szAtom * Size(j + 1) <= n

LogOf(n) ==
    CHOOSE k \in Logs : /\ n <= szAtom * Size(k)
                        /\ \A j \in 0 .. k - 1 : szAtom * Size(j) < n

\* The int that l_alloc makes of a size_t: its low 32 bits, as a signed number.
ToInt(n) ==
    LET low == n % (2 * IntLimit)
    IN  IF low >= IntLimit THEN low - 2 * IntLimit ELSE low

BlockSize(b) == Size(aCtrl[b].log)

-----------------------------------------------------------------------------
HeapInit ==
    /\ nBlock = 0
    /\ aCtrl = [b \in Atoms |-> [free |-> FALSE, log |-> 0]]
    /\ aiFreelist = [k \in Logs |-> <<>>]
    /\ cell = [b \in Atoms |-> 0]
    /\ ptr = [i \in Ids |-> NULL]
    /\ asked = [i \in Ids |-> 0]
    /\ hpc = "off"
    /\ cur = 0
    /\ bin = 0
    /\ call = [id |-> 0, n |-> 0]
    /\ blocks = {}

\* memsys5Init up to its loop.
Memsys5Init(nByte) ==
    /\ hpc = "off"
    /\ nBlock' = AtomsIn(nByte)
    /\ aCtrl' \in [0 .. nBlock' - 1 -> Garbage]
    /\ cell' = [b \in 0 .. nBlock' - 1 |-> 0]
    /\ hpc' = "init"
    /\ cur' = 0
    /\ bin' = LOGMAX
    /\ UNCHANGED <<aiFreelist, ptr, asked, call, blocks>>

\* One size of the loop that divides the pool, from the largest down.
Divide ==
    /\ hpc = "init"
    /\ IF Fits(cur, bin)
       THEN /\ aCtrl' = [aCtrl EXCEPT ![cur] = [free |-> TRUE, log |-> bin]]
            /\ aiFreelist' = Link(aiFreelist, cur, bin)
            /\ blocks' = blocks \cup {<<cur, bin>>}
            /\ cur' = cur + Size(bin)
       ELSE UNCHANGED <<aCtrl, aiFreelist, blocks, cur>>
    /\ IF bin = 0 THEN hpc' = "idle" /\ bin' = 0
                  ELSE hpc' = "init" /\ bin' = bin - 1
    /\ UNCHANGED <<nBlock, cell, ptr, asked, call>>

\* Some free block has at least 2^k atoms.
Available(k) == \E b \in k .. LOGMAX : aiFreelist[b] # <<>>

\* memsys5MallocUnsafe: take the first block of the first list that has one.
StartMalloc(k) ==
    \E b \in k .. LOGMAX :
        /\ aiFreelist[b] # <<>>
        /\ \A j \in k .. b - 1 : aiFreelist[j] = <<>>
        /\ cur' = Head(aiFreelist[b])
        /\ bin' = b
        /\ aiFreelist' = [aiFreelist EXCEPT ![b] = Tail(@)]
        /\ hpc' = "split"
        /\ UNCHANGED <<nBlock, aCtrl, cell, ptr, asked, blocks>>

\* memsys5FreeUnsafe up to its loop: the control bytes of the block's first
\* and last atom.  What a freed block held is not kept.
FreedCtrl(ctrl, b) ==
    LET k == ctrl[b].log
    IN  [[ctrl EXCEPT ![b + Size(k) - 1].free = TRUE]
             EXCEPT ![b] = [free |-> TRUE, log |-> k]]

Erased(cells, b, k) ==
    [a \in Atoms |-> IF a \in b .. b + Size(k) - 1 THEN 0 ELSE cells[a]]

StartFree(b) ==
    /\ aCtrl' = FreedCtrl(aCtrl, b)
    /\ cell' = Erased(cell, b, aCtrl[b].log)
    /\ cur' = b
    /\ bin' = aCtrl[b].log
    /\ hpc' = "merge"
    /\ UNCHANGED <<nBlock, aiFreelist, call, blocks>>

-----------------------------------------------------------------------------
\* Lua may call.  Once it was given a block for the low bits of 2^32 bytes or
\* more it writes behind that block, which is not followed any further.
Ready == hpc = "idle" /\ \A i \in Ids : asked[i] < 2 * IntLimit

\* l_alloc(ptr, 0): sqlite3_free.
Free(i) ==
    /\ Ready
    /\ ptr[i] # NULL
    /\ StartFree(ptr[i])
    /\ ptr' = [ptr EXCEPT ![i] = NULL]
    /\ asked' = [asked EXCEPT ![i] = 0]

\* The block Lua has is already large enough: sqlite3Realloc finds the same
\* rounded size, or memsys5Realloc a smaller one, and gives the block back.
\* Mutant: only the same size is recognised.
InPlaceIfEqual(i, bytes) ==
    ptr[i] # NULL /\ bytes <= AllocLimit /\ LogOf(bytes) = aCtrl[ptr[i]].log

InPlace(i, bytes) ==
    ptr[i] # NULL /\ bytes <= AllocLimit /\ LogOf(bytes) <= aCtrl[ptr[i]].log

\* sqlite3Malloc and sqlite3Realloc: the request is refused for its size, or
\* for want of a free block.
Refused(bytes) == bytes <= AllocLimit => ~Available(LogOf(bytes))

\* l_alloc(ptr, n) gives a block back unchanged.
KeepBlock(i, n) ==
    /\ Ready
    /\ ToInt(n) > 0
    /\ InPlace(i, ToInt(n))
    /\ asked' = [asked EXCEPT ![i] = n]
    /\ UNCHANGED <<nBlock, aCtrl, aiFreelist, cell, ptr, hpc, cur, bin, call,
                   blocks>>

\* l_alloc(ptr, n) returns NULL, and Lua goes on with what it has.
Refuses(i, n) ==
    \/ ToInt(n) <= 0 /\ ptr[i] = NULL
    \/ ToInt(n) > 0 /\ Refused(ToInt(n)) /\ ~InPlace(i, ToInt(n))

Refuse(i, n) == Ready /\ Refuses(i, n) /\ UNCHANGED heap_vars

\* l_alloc(ptr, n) for an n whose int is negative or 0, as from 2^31 on:
\* sqlite3_realloc makes it 0, and sqlite3Realloc frees the block and returns
\* NULL.  Lua goes on with a block that is no longer its own; that is not
\* followed any further.
FreeInstead(i, n) ==
    /\ Ready
    /\ ToInt(n) <= 0
    /\ ptr[i] # NULL
    /\ aCtrl' = FreedCtrl(aCtrl, ptr[i])
    /\ cell' = Erased(cell, ptr[i], aCtrl[ptr[i]].log)
    /\ hpc' = "dangling"
    /\ UNCHANGED <<nBlock, aiFreelist, ptr, asked, cur, bin, call, blocks>>

\* l_alloc(ptr, n) needs another block.
Grow(i, n) ==
    /\ Ready
    /\ ToInt(n) > 0
    /\ ~Refused(ToInt(n)) /\ ~InPlace(i, ToInt(n))
    /\ StartMalloc(LogOf(ToInt(n)))
    /\ call' = [id |-> i, n |-> n]

\* Where the loop of memsys5MallocUnsafe puts the half it cuts off.
UpperHalf(b, k) == b + Size(k)

\* One iteration of the loop of memsys5MallocUnsafe: the upper half of the
\* block in hand becomes a free block.
Split ==
    /\ hpc = "split"
    /\ bin > LogOf(ToInt(call.n))
    /\ LET k == bin - 1
           b == UpperHalf(cur, k)
       IN  /\ aCtrl' = [aCtrl EXCEPT ![b] = [free |-> TRUE, log |-> k]]
           /\ aiFreelist' = Link(aiFreelist, b, k)
           /\ cell' = [cell EXCEPT ![b] = 0]
           /\ bin' = k
           /\ blocks' = (blocks \ {<<cur, bin>>}) \cup {<<cur, k>>, <<b, k>>}
    /\ UNCHANGED <<nBlock, ptr, asked, hpc, cur, call>>

\* What memcpy finds in the old block.  Mutant: it is freed, and its first
\* atom holds a link.
CopiedLate(old, d) == IF d = 0 THEN 0 ELSE cell[old + d]

Copied(old, d) == cell[old + d]

\* What the new block holds: the old block's contents, then what Lua writes.
Filled(i, old, new, k) ==
    [a \in Atoms |->
        IF a \notin new .. new + Size(k) - 1 THEN cell[a]
        ELSE IF old # NULL /\ a - new < BlockSize(old)
             THEN Copied(old, a - new)
             ELSE i]

\* The end of memsys5Malloc: Lua has its block.  memsys5Realloc copies the
\* old block first and then frees it.
FinishMalloc ==
    /\ hpc = "split"
    /\ bin = LogOf(ToInt(call.n))
    /\ LET i    == call.id
           old  == ptr[i]
           ctrl == [aCtrl EXCEPT ![cur] = [free |-> FALSE, log |-> bin]]
           data == Filled(i, old, cur, bin)
       IN  /\ ptr' = [ptr EXCEPT ![i] = cur]
           /\ asked' = [asked EXCEPT ![i] = call.n]
           /\ IF old = NULL
              THEN /\ aCtrl' = ctrl
                   /\ cell' = data
                   /\ hpc' = "idle" /\ cur' = 0 /\ bin' = 0
              ELSE /\ aCtrl' = FreedCtrl(ctrl, old)
                   /\ cell' = Erased(data, old, aCtrl[old].log)
                   /\ hpc' = "merge" /\ cur' = old /\ bin' = aCtrl[old].log
    /\ call' = [id |-> 0, n |-> 0]
    /\ UNCHANGED <<nBlock, aiFreelist, blocks>>

\* The other half of the block of twice the size.
\* Mutant: the neighbour above, whatever the parity of the block.
NeighbourAbove(b, k) == b + Size(k)

Buddy(b, k) == IF (b \div Size(k)) % 2 = 1 THEN b - Size(k) ELSE b + Size(k)

\* The test of the loop of memsys5FreeUnsafe.
FreeBuddy(b, k) ==
    /\ k < LOGMAX
    /\ Fits(Buddy(b, k), k)
    /\ aCtrl[Buddy(b, k)] = [free |-> TRUE, log |-> k]

\* One iteration of that loop: both halves become one block in hand.
Merge ==
    /\ hpc = "merge"
    /\ FreeBuddy(cur, bin)
    /\ LET other == Buddy(cur, bin)
           low   == IF other < cur THEN other ELSE cur
           high  == IF other < cur THEN cur ELSE other
       IN  /\ aiFreelist' = Unlink(aiFreelist, other, bin)
           /\ aCtrl' = [[aCtrl EXCEPT ![high] = [free |-> FALSE, log |-> 0]]
                            EXCEPT ![low] = [free |-> TRUE, log |-> bin + 1]]
           /\ cur' = low
           /\ bin' = bin + 1
           /\ blocks' = (blocks \ {<<low, bin>>, <<high, bin>>})
                            \cup {<<low, bin + 1>>}
    /\ UNCHANGED <<nBlock, cell, ptr, asked, hpc, call>>

FinishFree ==
    /\ hpc = "merge"
    /\ ~FreeBuddy(cur, bin)
    /\ aiFreelist' = Link(aiFreelist, cur, bin)
    /\ cell' = [cell EXCEPT ![cur] = 0]
    /\ hpc' = "idle" /\ cur' = 0 /\ bin' = 0
    /\ UNCHANGED <<nBlock, aCtrl, ptr, asked, call, blocks>>

LAlloc(i, n) == KeepBlock(i, n) \/ Refuse(i, n) \/ FreeInstead(i, n) \/ Grow(i, n)

UseHeap ==
    \/ \E i \in Ids : Free(i)
    \/ \E i \in Ids, n \in Sizes : LAlloc(i, n)
    \/ Divide \/ Split \/ FinishMalloc \/ Merge \/ FinishFree

HeapNext == UseHeap \/ \E n \in HeapSizes : Memsys5Init(n)

HeapSpec == HeapInit /\ [][HeapNext]_heap_vars

-----------------------------------------------------------------------------
Elems(s) == {s[n] : n \in DOMAIN s}

FreeBlocks(k) == Elems(aiFreelist[k])

\* Type invariant: in particular every list of free blocks and every pointer
\* Lua holds stays inside the pool.
HeapTypeOK ==
    /\ nBlock \in Nat
    /\ aCtrl \in [Atoms -> Ctrl]
    /\ aiFreelist \in [Logs -> Seq(Atoms)]
    /\ cell \in [Atoms -> Ids \cup {0}]
    /\ ptr \in [Ids -> Atoms \cup {NULL}]
    /\ asked \in [Ids -> Sizes \cup {0}]
    /\ hpc \in {"off", "init", "idle", "split", "merge", "dangling"}
    /\ cur \in 0 .. nBlock
    /\ bin \in Logs
    /\ call \in [id : Ids \cup {0}, n : Sizes \cup {0}]
    /\ blocks \subseteq Atoms \X Logs

\* What Lua stored in a block is there for as long as it holds the block:
\* no other block overlaps it, the allocator stores no link in it, and
\* memsys5Realloc moves all of it before it frees the old place.  A block that
\* is asked to grow to 2^31 bytes or more may be lost (FreeInstead), and all of
\* this holds until Lua writes behind a block it takes for larger (Ready).
DataIntact ==
    hpc # "dangling" => \A i \in Ids : ptr[i] # NULL =>
        \A a \in ptr[i] .. ptr[i] + BlockSize(ptr[i]) - 1 : cell[a] = i

\* Between calls every block of the pool is either free and on the list of
\* its size or held by Lua: memsys5FreeUnsafe and the failure paths of
\* memsys5Realloc leak nothing, and no block is on two lists.
PoolAccounted ==
    hpc = "idle" => \A x \in blocks :
        \/ /\ x[1] \in FreeBlocks(x[2])
           /\ \A k \in Logs \ {x[2]} : x[1] \notin FreeBlocks(k)
           /\ \A i \in Ids : ptr[i] # x[1]
        \/ /\ \A k \in Logs : x[1] \notin FreeBlocks(k)
           /\ \E i \in Ids : ptr[i] = x[1] /\ aCtrl[x[1]].log = x[2]

\* Between calls no two free blocks are the halves of one block: the loop of
\* memsys5FreeUnsafe joins all it can, so that once everything is freed the
\* largest blocks are available again.
Coalesced ==
    hpc = "idle" => \A k \in 0 .. LOGMAX - 1 : \A b \in FreeBlocks(k) :
        Buddy(b, k) \notin FreeBlocks(k)

\* A block has at least the bytes Lua last asked for modulo 2^32, also after it
\* was kept for a smaller request and then grew again.  So it is large enough
\* for every size below 2^32, and for a larger one never: l_alloc should have
\* returned NULL then.
AsLargeAsAsked ==
    \A i \in Ids : ptr[i] # NULL =>
        asked[i] % (2 * IntLimit) <= szAtom * BlockSize(ptr[i])

\* A block can always be kept for a smaller size, however full the heap is.
\* lmem.c:38 relies on it: "any reallocation to an equal or smaller size
\* cannot fail!"
ShrinkNeverFails ==
    Ready => \A i \in Ids, n \in Sizes :
        ptr[i] # NULL /\ n <= asked[i] => ~Refuses(i, n)
=============================================================================
