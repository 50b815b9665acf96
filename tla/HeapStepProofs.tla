--------------------------- MODULE HeapStepProofs ---------------------------
(***************************************************************************)
(* The invariant of HeapFacts under the steps of memsys5Malloc and         *)
(* memsys5Realloc up to the hand-over, and under those of                  *)
(* memsys5FreeUnsafe.                                                      *)
(***************************************************************************)
EXTENDS HeapFacts

(* Splitting the block in hand.                                            *)
LEMMA SplitStep == HeapInv /\ Split => HeapInv'
<1> SUFFICES ASSUME HeapInv, Split PROVE HeapInv'
  BY Zenon
<1> DEFINE k == bin - 1
           b == cur + Size(k)
           hand == <<cur, bin>>
<1>0. /\ HeapTypeOK /\ Core /\ hpc = "split" /\ InHand /\ hand \in blocks
      /\ bin > LogOf(ToInt(call.n)) /\ LogOf(ToInt(call.n)) <= bin /\ ToInt(call.n) \in Nat
      /\ ToInt(call.n) <= AllocLimit
      /\ aCtrl' = [aCtrl EXCEPT ![b] = [free |-> TRUE, log |-> k]]
      /\ aiFreelist' = Link(aiFreelist, b, k)
      /\ cell' = [cell EXCEPT ![b] = 0]
      /\ bin' = k
      /\ blocks' = (blocks \ {hand}) \cup {<<cur, k>>, <<b, k>>}
      /\ UNCHANGED <<nBlock, ptr, asked, hpc, cur, call>>
  BY Zenon, LimitFacts DEF HeapInv, Split, InHand, Core, LoopsOK, UpperHalf
<1>1. /\ bin \in Logs /\ k \in Logs /\ k + 1 = bin /\ LogOf(ToInt(call.n)) <= k
      /\ Size(k) \in Nat \ {0} /\ Size(bin) = 2 * Size(k) /\ k # bin
  <2>1. bin \in Logs /\ LogOf(ToInt(call.n)) \in Logs
    BY Zenon, <1>0, LogOfFits DEF HeapTypeOK
  <2>2. bin \in 0 .. LOGMAX /\ LogOf(ToInt(call.n)) \in 0 .. LOGMAX /\ LOGMAX \in Nat
    BY Zenon, <2>1, SizeFacts DEF Logs
  <2>3. k \in Logs /\ k + 1 = bin /\ LogOf(ToInt(call.n)) <= k
    BY <1>0, <2>2 DEF Logs
  <2> QED BY <2>1, <2>3, SizeFacts DEF Logs
<1>2. /\ nBlock \in Nat /\ Tiling(blocks, nBlock) /\ blocks \subseteq Nat \X Logs
      /\ \A x, y \in blocks : x[1] = y[1] => x = y
  BY Zenon, <1>0, DividedFacts
<1>3. /\ cur \in Atoms /\ cur \in Nat /\ b \in Atoms /\ b \in Nat /\ b # cur
      /\ cur + Size(bin) <= nBlock /\ Aligned(cur, k + 1)
  BY <1>0, <1>1, <1>2 DEF Tiling, Atoms
<1>4. ASSUME NEW x \in blocks, Covers(x, b) PROVE x = hand
  BY <1>0, <1>1, <1>2, <1>3, <1>4, SharedAtom DEF Covers
<1>5. \A x \in blocks : x[1] # b
  <2>1. ASSUME NEW x \in blocks, x[1] = b PROVE FALSE
    BY <1>0, <1>3, <1>4, <2>1, BlockFacts DEF Covers
  <2> QED BY Zenon, <2>1
<1>6. /\ aCtrl' \in [Atoms -> Ctrl]
      /\ aCtrl'[b] = [free |-> TRUE, log |-> k]
      /\ \A a \in Atoms : a # b => aCtrl'[a] = aCtrl[a] /\ cell'[a] = cell[a]
      /\ cell' \in [Atoms -> Ids \cup {0}]
  <2>1. aCtrl \in [Atoms -> Ctrl] /\ cell \in [Atoms -> Ids \cup {0}]
    BY Zenon, <1>0 DEF HeapTypeOK
  <2> HIDE DEF b, k
  <2> QED BY Zenon, <1>0, <1>1, <1>3, <2>1 DEF Ctrl
<1>7. /\ aiFreelist' \in [Logs -> Seq(Atoms)]
      /\ \A j \in Logs : Distinct(aiFreelist'[j])
      /\ b \in Elems(aiFreelist'[k])
      /\ \A x \in FreeBlocks(k) : x \in Elems(aiFreelist'[k])
      /\ \A x \in Elems(aiFreelist'[k]) : x # b => x \in FreeBlocks(k)
      /\ \A j \in Logs \ {k} : aiFreelist'[j] = aiFreelist[j]
  <2>1. b \notin FreeBlocks(k)
    BY Zenon, <1>0, <1>1, <1>5 DEF Core, ListsOK
  <2> QED BY Zenon, <1>0, <1>1, <1>3, <2>1, LinkStep DEF Core
<1> HIDE DEF b, k, hand
<1>8. ASSUME NEW j \in Logs, NEW c \in Elems(aiFreelist'[j])
      PROVE  \/ c = b /\ j = k
             \/ /\ c \in FreeBlocks(j) /\ c # b /\ c # cur /\ c \in Atoms
                /\ <<c, j>> \in blocks /\ aCtrl[c] = [free |-> TRUE, log |-> j]
  <2>1. CASE c = b /\ j = k
    BY Zenon, <2>1
  <2>2. CASE ~(c = b /\ j = k)
    BY <1>0, <1>5, <1>7, <1>8, <2>2 DEF FreeBlocks, Core, ListsOK, HeapTypeOK
  <2> QED BY Zenon, <2>1, <2>2
<1>9. InHand' /\ ListsOK'
  <2>1. ASSUME NEW j \in Logs, NEW c \in Elems(aiFreelist'[j])
        PROVE  <<c, j>> \in blocks' /\ aCtrl'[c] = [free |-> TRUE, log |-> j] /\ c # cur
    <3>1. CASE c = b /\ j = k
      BY Zenon, <1>0, <1>3, <1>6, <3>1
    <3>2. CASE ~(c = b /\ j = k)
      BY Zenon, <1>0, <1>6, <1>8, <2>1, <3>2 DEF hand
    <3> QED BY Zenon, <3>1, <3>2
  <2> QED BY Zenon, <1>0, <1>7, <2>1 DEF ListsOK, FreeBlocks, InHand
<1>10. ASSUME NEW i \in Ids, ptr[i] # NULL
       PROVE  /\ ptr[i] \in Atoms /\ ptr[i] # b /\ ptr[i] # cur
              /\ aCtrl'[ptr[i]] = aCtrl[ptr[i]]
              /\ <<ptr[i], aCtrl[ptr[i]].log>> \in blocks \ {hand}
  BY <1>0, <1>5, <1>6, <1>10, DividedFacts DEF Core, HeldOK, hand
<1>11. HeldOK'
  <2>1. ASSUME NEW i \in Ids, ptr[i] # NULL
        PROVE  /\ <<ptr[i], aCtrl'[ptr[i]].log>> \in blocks' /\ ~aCtrl'[ptr[i]].free
               /\ \A j \in Ids \ {i} : ptr[j] # ptr[i]
               /\ ptr[i] # cur
    <3>1. aCtrl'[ptr[i]] = aCtrl[ptr[i]] /\ <<ptr[i], aCtrl[ptr[i]].log>> \in blocks' /\ ptr[i] # cur
      BY Zenon, <1>0, <1>10, <2>1
    <3> QED BY Zenon, <1>0, <2>1, <3>1 DEF Core, HeldOK
  <2> QED BY Zenon, <1>0, <2>1 DEF HeldOK, NULL
<1>12. AccountedOK'
  <2>1. ASSUME NEW x \in blocks'
        PROVE  \/ x[1] \in Elems(aiFreelist'[x[2]])
               \/ \E i \in Ids : ptr[i] = x[1] /\ aCtrl'[x[1]].log = x[2]
               \/ x = <<cur, k>>
    <3>1. CASE x = <<cur, k>> \/ x = <<b, k>>
      BY <1>7, <3>1
    <3>2. CASE x \in blocks \ {hand}
      <4>1. x[1] \in Atoms /\ x[2] \in Logs /\ x[1] # b
        BY Zenon, <1>0, <1>5, <3>2, BlockFacts
      <4>2. \/ x[1] \in FreeBlocks(x[2])
            \/ \E i \in Ids : ptr[i] = x[1] /\ aCtrl[x[1]].log = x[2]
        BY Zenon, <1>0, <3>2 DEF Core, AccountedOK, hand
      <4> QED BY Zenon, <1>6, <1>7, <4>1, <4>2 DEF FreeBlocks
    <3> QED BY Zenon, <1>0, <2>1, <3>1, <3>2
  <2> QED BY Zenon, <1>0, <1>9, <2>1 DEF AccountedOK, FreeBlocks
<1>13. JoinedOK'
  <2>1. ASSUME NEW j \in 0 .. LOGMAX - 1, NEW c \in Elems(aiFreelist'[j]),
               Buddy(c, j) \in Elems(aiFreelist'[j])
        PROVE  FALSE
    <3>0. j \in Logs /\ Buddy(b, k) = cur
      BY <1>1, <1>3, LimitsAssumption, HalvesAreBuddies DEF Logs, b
    <3>1. ~(c = b /\ j = k)
      BY Zenon, <1>0, <1>9, <2>1, <3>0 DEF ListsOK, FreeBlocks
    <3>2. c \in FreeBlocks(j) /\ c # cur /\ <<c, j>> \in blocks
      BY Zenon, <1>8, <2>1, <3>0, <3>1
    <3>3. CASE Buddy(c, j) = b /\ j = k
      BY Zenon, <1>1, <1>2, <3>0, <3>2, <3>3, BuddyHalves DEF Tiling
    <3>4. CASE ~(Buddy(c, j) = b /\ j = k)
      BY Zenon, <1>0, <1>8, <2>1, <3>0, <3>2, <3>4 DEF Core, JoinedOK
    <3> QED BY Zenon, <3>3, <3>4
  <2> QED BY Zenon, <2>1 DEF JoinedOK, FreeBlocks, Buddy
<1>14. LoopsOK' /\ Tiling(blocks, Extent)'
  <2>1. Tiling(blocks', nBlock)
    BY Zenon, <1>0, <1>1, <1>2, SplitTiling DEF hand, b
  <2>2. <<cur, k>> \in blocks' /\ call' = call
    BY Zenon, <1>0
  <2>3. ToInt(call.n)' = ToInt(call.n) /\ LogOf(ToInt(call.n))' = LogOf(ToInt(call.n))
    BY Zenon, <2>2 DEF LogOf, ToInt
  <2> QED BY Zenon, <1>0, <1>1, <2>1, <2>2, <2>3 DEF LoopsOK, InHand, Core, Tiling, Extent
<1>15. DataIntact'
  <2>1. ASSUME NEW i \in Ids, ptr[i] # NULL,
               NEW a \in ptr[i] .. ptr[i] + BlockSize(ptr[i]) - 1
        PROVE  cell'[a] = i
    <3>1. /\ ptr[i] \in Nat /\ BlockSize(ptr[i]) \in Nat /\ ptr[i] + BlockSize(ptr[i]) <= nBlock
      BY Zenon, <1>0, <2>1, DividedFacts
    <3>2. a \in Atoms /\ Covers(<<ptr[i], aCtrl[ptr[i]].log>>, a)
      BY <1>2, <3>1 DEF Atoms, Covers, BlockSize
    <3>3. a # b
      BY Zenon, <1>4, <1>10, <2>1, <3>2
    <3> QED BY Zenon, <1>0, <1>6, <2>1, <3>2, <3>3 DEF Core, DataIntact
  <2> QED BY Zenon, <1>0, <1>10, <2>1 DEF DataIntact, NULL, BlockSize
<1>16. HeapTypeOK'
  <2>1. blocks' \subseteq Atoms \X Logs
    BY <1>0, <1>1, <1>3 DEF HeapTypeOK
  <2>2. Atoms' = Atoms
    BY Zenon, <1>0 DEF Atoms
  <2> QED BY Zenon, <1>0, <1>1, <1>6, <1>7, <2>1, <2>2 DEF HeapTypeOK
<1> QED BY Zenon, <1>0, <1>9, <1>10, <1>11, <1>12, <1>13, <1>14, <1>15, <1>16 DEF HeapInv, Core,
  SizesOK, AsLargeAsAsked, BlockSize, NULL

(* Taking the first free block that is large enough.                       *)
LEMMA GrowStep ==
  ASSUME NEW i \in Ids, NEW n \in Sizes, HeapInv, Grow(i, n)
  PROVE  HeapInv'
<1>0. /\ HeapTypeOK /\ Core /\ hpc = "idle" /\ ~InHand
      /\ n \in Nat /\ ToInt(n) = n % (2 * IntLimit) /\ ToInt(n) \in Nat
      /\ ToInt(n) <= AllocLimit /\ LogOf(ToInt(n)) \in Logs
      /\ StartMalloc(LogOf(ToInt(n))) /\ call' = [id |-> i, n |-> n]
  BY Zenon, LimitFacts, LogOfFits, IntFacts DEF HeapInv, Grow, Ready, InHand, Refused
<1>1. PICK k \in LogOf(ToInt(n)) .. LOGMAX :
        /\ aiFreelist[k] # <<>>
        /\ cur' = Head(aiFreelist[k])
        /\ bin' = k
        /\ aiFreelist' = [aiFreelist EXCEPT ![k] = Tail(@)]
        /\ hpc' = "split"
        /\ UNCHANGED <<nBlock, aCtrl, cell, ptr, asked, blocks>>
  BY Zenon, <1>0 DEF StartMalloc
<1>2. k \in Logs /\ LogOf(ToInt(n)) <= k
  BY <1>0, <1>1, SizeFacts DEF Logs
<1>3. /\ aiFreelist' \in [Logs -> Seq(Atoms)]
      /\ \A j \in Logs : Distinct(aiFreelist'[j])
      /\ cur' \in FreeBlocks(k)
      /\ cur' \notin Elems(aiFreelist'[k])
      /\ \A x \in FreeBlocks(k) : x # cur' => x \in Elems(aiFreelist'[k])
      /\ \A x \in Elems(aiFreelist'[k]) : x \in FreeBlocks(k)
      /\ \A j \in Logs \ {k} : aiFreelist'[j] = aiFreelist[j]
  BY Zenon, <1>0, <1>1, <1>2, TakeStep DEF Core
<1>4. /\ <<cur', k>> \in blocks /\ aCtrl[cur'] = [free |-> TRUE, log |-> k]
      /\ cur' \in Atoms
  BY <1>0, <1>2, <1>3 DEF Core, ListsOK, HeapTypeOK
<1>5. /\ \A x, y \in blocks : x[1] = y[1] => x = y
      /\ Tiling(blocks, nBlock) /\ nBlock \in Nat
  BY Zenon, <1>0, DividedFacts
<1>6. InHand' /\ ListsOK'
  <2>1. ASSUME NEW j \in Logs, NEW c \in Elems(aiFreelist'[j])
        PROVE  <<c, j>> \in blocks /\ aCtrl[c] = [free |-> TRUE, log |-> j] /\ c # cur'
    <3>1. ASSUME NEW x \in FreeBlocks(j)
          PROVE  <<x, j>> \in blocks /\ aCtrl[x] = [free |-> TRUE, log |-> j]
      BY Zenon, <1>0, <3>1 DEF Core, ListsOK
    <3>2. c \in FreeBlocks(j) /\ (j = k => c # cur')
      BY Zenon, <1>1, <1>3, <2>1 DEF FreeBlocks
    <3>3. <<c, j>> \in blocks /\ aCtrl[c] = [free |-> TRUE, log |-> j]
      BY Zenon, <3>1, <3>2
    <3> QED BY <1>4, <1>5, <3>2, <3>3
  <2> QED BY Zenon, <1>1, <1>3, <2>1 DEF ListsOK, FreeBlocks, InHand
<1>7. HeldOK'
  <2>1. ASSUME NEW j \in Ids, ptr[j] # NULL PROVE ptr[j] # cur'
    BY <1>0, <1>4, <2>1 DEF Core, HeldOK
  <2> QED BY Zenon, <1>0, <1>1, <2>1 DEF Core, HeldOK, NULL
<1>8. AccountedOK'
  <2>1. ASSUME NEW x \in blocks
        PROVE  \/ x[1] \in Elems(aiFreelist'[x[2]])
               \/ \E j \in Ids : ptr[j] = x[1] /\ aCtrl[x[1]].log = x[2]
               \/ x = <<cur', k>>
    <3>1. \/ x[1] \in FreeBlocks(x[2])
          \/ \E j \in Ids : ptr[j] = x[1] /\ aCtrl[x[1]].log = x[2]
      BY Zenon, <1>0, <2>1 DEF Core, AccountedOK
    <3> QED BY Zenon, <1>0, <1>3, <3>1, BlockFacts DEF FreeBlocks
  <2> QED BY Zenon, <1>1, <1>6, <2>1 DEF AccountedOK, FreeBlocks
<1>9. JoinedOK'
  <2>1. ASSUME NEW j \in 0 .. LOGMAX - 1, NEW c \in Elems(aiFreelist'[j]),
               Buddy(c, j) \in Elems(aiFreelist'[j])
        PROVE  FALSE
    <3>1. j \in Logs
      BY SizeFacts DEF Logs
    <3> QED BY Zenon, <1>0, <1>3, <2>1, <3>1 DEF Core, JoinedOK, FreeBlocks
  <2> QED BY Zenon, <2>1 DEF JoinedOK, FreeBlocks, Buddy
<1>10. LoopsOK' /\ Tiling(blocks, Extent)'
  BY Zenon, <1>0, <1>1, <1>2, <1>4, <1>5 DEF Extent, LogOf, ToInt, LoopsOK, InHand, Tiling
<1>11. SizesOK'
  BY Zenon, <1>0, <1>1 DEF Core, SizesOK, AsLargeAsAsked, BlockSize, NULL
<1>12. DataIntact'
  BY Zenon, <1>0, <1>1 DEF Core, DataIntact, BlockSize, NULL
<1>13. HeapTypeOK'
  <2>1. cur' \in 0 .. nBlock
    BY <1>4, <1>5 DEF Atoms
  <2> QED BY Zenon, <1>0, <1>1, <1>2, <1>3, <2>1 DEF HeapTypeOK, Atoms
<1> QED BY Zenon, <1>6, <1>7, <1>8, <1>9, <1>10, <1>11, <1>12, <1>13 DEF HeapInv, Core

(* Keeping a block that is large enough.                                   *)
LEMMA KeepBlockStep ==
  ASSUME NEW i \in Ids, NEW n \in Sizes, HeapInv, KeepBlock(i, n)
  PROVE  HeapInv'
<1>0. /\ HeapTypeOK /\ Core /\ hpc = "idle" /\ ptr[i] # NULL
      /\ ToInt(n) \in Nat /\ ToInt(n) = n % (2 * IntLimit)
      /\ ToInt(n) <= AllocLimit /\ LogOf(ToInt(n)) <= aCtrl[ptr[i]].log
      /\ asked' = [asked EXCEPT ![i] = n]
      /\ UNCHANGED <<nBlock, aCtrl, aiFreelist, cell, ptr, hpc, cur, bin, call, blocks>>
  BY Zenon, LimitFacts, IntFacts DEF HeapInv, KeepBlock, Ready, InPlace
<1>1. /\ asked' \in [Ids -> Sizes \cup {0}] /\ asked'[i] = n
      /\ \A j \in Ids \ {i} : asked'[j] = asked[j]
  BY Zenon, <1>0 DEF HeapTypeOK
<1>2. HeapTypeOK'
  BY Zenon, <1>0, <1>1 DEF HeapTypeOK, Atoms
<1>3. SizesOK'
  BY Zenon, <1>0, <1>1, DividedFacts, LargeEnough DEF Core, SizesOK, AsLargeAsAsked, BlockSize, NULL
<1>4. \A k : FreeBlocks(k)' = FreeBlocks(k)
  BY Zenon, <1>0 DEF FreeBlocks
<1>5. ListsOK' /\ HeldOK' /\ AccountedOK' /\ Tiling(blocks, Extent)' /\ DataIntact' /\ LoopsOK'
  BY Zenon, <1>0, <1>4 DEF Core, ListsOK, HeldOK, AccountedOK, InHand, Extent, DataIntact, BlockSize,
                    NULL, LoopsOK, Tiling
<1> QED BY Zenon, <1>0, <1>2, <1>3, <1>4, <1>5 DEF HeapInv, Core, Buddy, JoinedOK

(* A call that loses a block: only the types are kept.                     *)
LEMMA FreeInsteadStep ==
  ASSUME NEW i \in Ids, NEW n \in Sizes, HeapInv, FreeInstead(i, n)
  PROVE  HeapInv'
<1> DEFINE p == ptr[i]
           k == aCtrl[p].log
<1>1. /\ HeapTypeOK /\ Core /\ hpc = "idle" /\ p # NULL
  BY Zenon DEF HeapInv, FreeInstead, Ready
<1>2. /\ p \in Atoms /\ p \in Nat /\ k \in Logs /\ p + Size(k) <= nBlock /\ nBlock \in Nat
  BY Zenon, <1>1, DividedFacts DEF BlockSize
<1>3. aCtrl \in [Atoms -> Ctrl] /\ cell \in [Atoms -> Ids \cup {0}]
  BY Zenon, <1>1 DEF HeapTypeOK
<1>4. aCtrl' \in [Atoms -> Ctrl]
  <2>1. aCtrl' = FreedCtrl(aCtrl, p)
    BY Zenon DEF FreeInstead
  <2> HIDE DEF p
  <2> QED BY Zenon, <1>2, <1>3, <2>1, FreedFacts
<1>5. cell' \in [Atoms -> Ids \cup {0}]
  <2>1. cell' = Erased(cell, p, k)
    BY Zenon DEF FreeInstead
  <2> HIDE DEF p, k
  <2> QED BY Zenon, <1>2, <1>3, <2>1, ErasedFacts
<1>6. hpc' = "dangling" /\ UNCHANGED <<nBlock, aiFreelist, ptr, asked, cur, bin, call, blocks>>
  BY Zenon DEF FreeInstead
<1> QED BY Zenon, <1>1, <1>4, <1>5, <1>6 DEF HeapInv, HeapTypeOK, Atoms

(* Freeing a block Lua holds.                                              *)
LEMMA FreeStep ==
  ASSUME NEW i \in Ids, HeapInv, Free(i)
  PROVE  HeapInv'
<1> DEFINE p == ptr[i]
           k == aCtrl[p].log
<1>0. /\ HeapTypeOK /\ Core /\ hpc = "idle" /\ p # NULL /\ ~InHand
      /\ aCtrl' = FreedCtrl(aCtrl, p) /\ cell' = Erased(cell, p, k)
      /\ cur' = p /\ bin' = k /\ hpc' = "merge"
      /\ ptr' = [ptr EXCEPT ![i] = NULL] /\ asked' = [asked EXCEPT ![i] = 0]
      /\ UNCHANGED <<nBlock, aiFreelist, call, blocks>>
  BY Zenon DEF HeapInv, Free, Ready, StartFree, InHand
<1>1. /\ p \in Atoms /\ p \in Nat /\ k \in Logs /\ p + Size(k) <= nBlock /\ nBlock \in Nat
      /\ <<p, k>> \in blocks /\ Tiling(blocks, nBlock) /\ blocks \subseteq Nat \X Logs
  BY Zenon, <1>0, DividedFacts DEF BlockSize
<1>2. aCtrl \in [Atoms -> Ctrl] /\ cell \in [Atoms -> Ids \cup {0}]
  BY Zenon, <1>0 DEF HeapTypeOK
<1> HIDE DEF p
<1>3. /\ aCtrl' \in [Atoms -> Ctrl] /\ aCtrl'[p] = [free |-> TRUE, log |-> k]
      /\ \A a \in Atoms : ~Covers(<<p, k>>, a) => aCtrl'[a] = aCtrl[a]
  BY Zenon, <1>0, <1>1, <1>2, FreedFacts
<1> HIDE DEF k
<1>4. /\ cell' \in [Atoms -> Ids \cup {0}]
      /\ \A a \in Atoms : ~Covers(<<p, k>>, a) => cell'[a] = cell[a]
  BY Zenon, <1>0, <1>1, <1>2, ErasedFacts
<1>5. /\ ptr' \in [Ids -> Atoms \cup {NULL}] /\ ptr'[i] = NULL
      /\ \A j \in Ids \ {i} : ptr'[j] = ptr[j]
      /\ asked' \in [Ids -> Sizes \cup {0}] /\ asked'[i] = 0
      /\ \A j \in Ids \ {i} : asked'[j] = asked[j]
  BY Zenon, <1>0 DEF HeapTypeOK
<1>6. ASSUME NEW x \in blocks, NEW a \in Nat, Covers(x, a), x # <<p, k>>
      PROVE  ~Covers(<<p, k>>, a)
  BY Zenon, <1>1, <1>6, SharedAtom
<1>7. ASSUME NEW x \in blocks, x # <<p, k>>
      PROVE  x[1] \in Atoms /\ x[1] # p /\ aCtrl'[x[1]] = aCtrl[x[1]]
  BY <1>0, <1>1, <1>3, <1>6, <1>7, BlockFacts, DividedFacts DEF Covers
<1>8. \A j \in Logs : FreeBlocks(j)' = FreeBlocks(j)
  BY Zenon, <1>0 DEF FreeBlocks
<1>9. InHand' /\ ListsOK'
  <2>1. ASSUME NEW j \in Logs, NEW c \in FreeBlocks(j)
        PROVE  <<c, j>> \in blocks /\ aCtrl'[c] = [free |-> TRUE, log |-> j] /\ c # p
    BY <1>0, <1>7, <2>1 DEF Core, ListsOK, HeldOK, p
  <2>2. \A j \in Logs : Distinct(aiFreelist[j])
    BY Zenon, <1>0 DEF Core, ListsOK
  <2> QED BY Zenon, <1>0, <1>8, <2>1, <2>2 DEF ListsOK, InHand
<1>10. ASSUME NEW j \in Ids, ptr'[j] # NULL
       PROVE  /\ j # i /\ ptr'[j] = ptr[j] /\ ptr[j] # NULL /\ ptr[j] # p
              /\ aCtrl'[ptr[j]] = aCtrl[ptr[j]]
              /\ <<ptr[j], aCtrl[ptr[j]].log>> \in blocks
              /\ <<ptr[j], aCtrl[ptr[j]].log>> # <<p, k>>
              /\ ~aCtrl[ptr[j]].free
  BY <1>0, <1>5, <1>7, <1>10 DEF Core, HeldOK, p
<1>11. HeldOK'
  <2>1. ASSUME NEW j \in Ids, ptr'[j] # NULL
        PROVE  /\ <<ptr'[j], aCtrl'[ptr'[j]].log>> \in blocks' /\ ~aCtrl'[ptr'[j]].free
               /\ \A m \in Ids \ {j} : ptr'[m] # ptr'[j]
               /\ ptr'[j] # cur'
    <3>1. ASSUME NEW m \in Ids \ {j} PROVE ptr'[m] # ptr'[j]
      <4>1. ptr[m] # ptr[j]
        BY Zenon, <1>0, <1>10, <2>1 DEF Core, HeldOK
      <4> QED BY <1>5, <1>10, <2>1, <4>1
    <3>2. /\ ptr'[j] = ptr[j] /\ aCtrl'[ptr[j]] = aCtrl[ptr[j]] /\ ptr[j] # cur'
          /\ <<ptr[j], aCtrl[ptr[j]].log>> \in blocks'
      BY Zenon, <1>0, <1>10, <2>1
    <3> QED BY Zenon, <1>10, <2>1, <3>1, <3>2
  <2> QED BY Zenon, <2>1 DEF HeldOK, NULL
<1>12. AccountedOK'
  <2>1. ASSUME NEW x \in blocks
        PROVE  \/ x[1] \in FreeBlocks(x[2])
               \/ \E j \in Ids : ptr'[j] = x[1] /\ aCtrl'[x[1]].log = x[2]
               \/ x = <<p, k>>
    <3>1. CASE x = <<p, k>>
      BY Zenon, <3>1
    <3>2. CASE x # <<p, k>>
      BY <1>0, <1>5, <1>7, <2>1, <3>2 DEF Core, AccountedOK, p
    <3> QED BY Zenon, <3>1, <3>2
  <2> QED BY Zenon, <1>0, <1>8, <1>9, <2>1, BlockFacts DEF AccountedOK
<1>13. JoinedOK'
  BY <1>0, <1>8, SizeFacts DEF Buddy, Logs, Core, JoinedOK
<1>14. LoopsOK' /\ Tiling(blocks, Extent)'
  BY Zenon, <1>0, <1>1, <1>3 DEF Extent, LoopsOK, InHand, Tiling
<1>15. SizesOK'
  <2>1. AsLargeAsAsked'
    <3>1. ASSUME NEW j \in Ids, ptr'[j] # NULL PROVE asked'[j] % (2 * IntLimit) <= szAtom * BlockSize(ptr[j])'
      BY Zenon, <1>0, <1>5, <1>10, <3>1 DEF Core, SizesOK, AsLargeAsAsked, BlockSize
    <3> QED BY Zenon, <3>1 DEF AsLargeAsAsked, NULL
  <2> QED BY <1>0, <1>5, <2>1, LimitFacts DEF SizesOK, Core
<1>16. DataIntact'
  <2>1. ASSUME NEW j \in Ids, ptr'[j] # NULL,
               NEW a \in ptr[j] .. ptr[j] + BlockSize(ptr[j]) - 1
        PROVE  cell'[a] = j
    <3>1. /\ ptr[j] \in Nat /\ BlockSize(ptr[j]) \in Nat /\ ptr[j] + BlockSize(ptr[j]) <= nBlock
      BY Zenon, <1>0, <1>10, <2>1, DividedFacts
    <3>2. a \in Atoms /\ a \in Nat /\ Covers(<<ptr[j], aCtrl[ptr[j]].log>>, a)
      BY <1>1, <3>1 DEF Atoms, Covers, BlockSize
    <3>3. cell[a] = j
      BY Zenon, <1>0, <1>10, <2>1 DEF Core, DataIntact
    <3> QED BY Zenon, <1>4, <1>6, <1>10, <2>1, <3>2, <3>3
  <2>2. \A j \in Ids : ptr'[j] # NULL => BlockSize(ptr[j])' = BlockSize(ptr[j])
    BY Zenon, <1>10 DEF BlockSize
  <2> QED BY Zenon, <1>10, <2>1, <2>2 DEF DataIntact, NULL
<1>17. HeapTypeOK'
  BY <1>0, <1>1, <1>3, <1>4, <1>5 DEF Atoms, NULL, HeapTypeOK
<1> QED BY Zenon, <1>9, <1>11, <1>12, <1>13, <1>14, <1>15, <1>16, <1>17 DEF HeapInv, Core

(* Joining the block in hand with its buddy.                               *)
LEMMA MergeStep == HeapInv /\ Merge => HeapInv'
<1> SUFFICES ASSUME HeapInv, Merge PROVE HeapInv'
  BY Zenon
<1> DEFINE other == Buddy(cur, bin)
           low == IF other < cur THEN other ELSE cur
           high == IF other < cur THEN cur ELSE other
           hand == <<cur, bin>>
           mate == <<other, bin>>
<1>0. /\ HeapTypeOK /\ Core /\ hpc = "merge" /\ InHand /\ hand \in blocks /\ bin \in Logs
      /\ bin < LOGMAX /\ other + Size(bin) <= nBlock
      /\ aCtrl[other] = [free |-> TRUE, log |-> bin]
      /\ aiFreelist' = Unlink(aiFreelist, other, bin)
      /\ aCtrl' = [[aCtrl EXCEPT ![high] = [free |-> FALSE, log |-> 0]]
                       EXCEPT ![low] = [free |-> TRUE, log |-> bin + 1]]
      /\ cur' = low
      /\ bin' = bin + 1
      /\ blocks' = (blocks \ {<<low, bin>>, <<high, bin>>}) \cup {<<low, bin + 1>>}
      /\ UNCHANGED <<nBlock, cell, ptr, asked, hpc, call>>
  BY Zenon DEF HeapInv, Merge, InHand, Core, LoopsOK, HeapTypeOK, FreeBuddy, Fits
<1>1. /\ nBlock \in Nat /\ Tiling(blocks, nBlock) /\ blocks \subseteq Nat \X Logs
      /\ \A x, y \in blocks : x[1] = y[1] => x = y
  BY Zenon, <1>0, DividedFacts
<1>2. /\ cur \in Nat /\ cur \in Atoms /\ Aligned(cur, bin) /\ bin + 1 \in Logs /\ bin \in Nat
      /\ Size(bin) \in Nat \ {0} /\ 0 \in Logs /\ bin + 1 # bin
  BY <1>0, <1>1, SizeFacts DEF Tiling, HeapTypeOK, Logs
<1>3. other \in Nat /\ other # cur
  BY Zenon, <1>0, <1>2, BuddyHalves
<1>4. PICK c \in Nat : /\ Aligned(c, bin + 1)
                       /\ \/ cur = c /\ other = c + Size(bin)
                          \/ cur = c + Size(bin) /\ other = c
  BY <1>0, <1>2, BuddyHalves
<1>5. low = c /\ high = c + Size(bin) /\ {low, high} = {cur, other}
  <2> HIDE DEF other
  <2> QED BY <1>2, <1>3, <1>4
<1>6. mate \in blocks /\ other \in FreeBlocks(bin) /\ other \in Atoms
  <2>1. PICK x \in blocks : x[1] = other
    BY <1>0, <1>1, BuddyIsABlock
  <2>2. x[2] \in Logs /\ x = <<x[1], x[2]>> /\ other \in Atoms
    BY Zenon, <1>0, <2>1, BlockFacts
  <2> HIDE DEF other
  <2>3. ~ \E i \in Ids : ptr[i] = x[1]
    <3>1. ASSUME NEW i \in Ids, ptr[i] = other PROVE FALSE
      <4>1. ptr[i] # NULL
        BY <1>3, <3>1 DEF NULL
      <4>2. ~aCtrl[other].free
        BY Zenon, <1>0, <3>1, <4>1 DEF Core, HeldOK
      <4> QED BY <1>0, <4>2
    <3> QED BY Zenon, <2>1, <3>1
  <2>4. other \in FreeBlocks(x[2])
    BY <1>0, <1>3, <2>1, <2>3 DEF Core, AccountedOK
  <2>5. aCtrl[other] = [free |-> TRUE, log |-> x[2]]
    BY Zenon, <1>0, <2>2, <2>4 DEF Core, ListsOK
  <2> QED BY <1>0, <2>1, <2>2, <2>4, <2>5
<1> HIDE DEF other
<1>7. /\ aiFreelist' \in [Logs -> Seq(Atoms)]
      /\ \A j \in Logs : Distinct(aiFreelist'[j])
      /\ other \notin Elems(aiFreelist'[bin])
      /\ \A x \in FreeBlocks(bin) : x # other => x \in Elems(aiFreelist'[bin])
      /\ \A x \in Elems(aiFreelist'[bin]) : x \in FreeBlocks(bin)
      /\ \A j \in Logs \ {bin} : aiFreelist'[j] = aiFreelist[j]
  BY Zenon, <1>0, <1>6, UnlinkStep DEF Core
<1> HIDE DEF low, high
<1>8. low \in Atoms /\ high \in Atoms /\ low # high
  BY <1>2, <1>4, <1>5, <1>6
<1>9. /\ aCtrl' \in [Atoms -> Ctrl] /\ aCtrl'[low] = [free |-> TRUE, log |-> bin + 1]
      /\ \A a \in Atoms : a # cur /\ a # other => aCtrl'[a] = aCtrl[a]
  <2> DEFINE one == [free |-> FALSE, log |-> 0]
             two == [free |-> TRUE, log |-> bin + 1]
  <2>1. one \in Ctrl /\ two \in Ctrl
    BY Zenon, <1>2 DEF Ctrl
  <2>2. aCtrl \in [Atoms -> Ctrl] /\ aCtrl' = [[aCtrl EXCEPT ![high] = one] EXCEPT ![low] = two]
    BY Zenon, <1>0 DEF HeapTypeOK
  <2> HIDE DEF one, two
  <2> QED BY Zenon, <1>5, <1>8, <2>1, <2>2 DEF two
<1>10. blocks' = (blocks \ {hand, mate}) \cup {<<low, bin + 1>>}
  BY Zenon, <1>0, <1>4, <1>5
<1>11. ASSUME NEW x \in blocks, x[1] # cur, x[1] # other
       PROVE  x \in blocks' /\ aCtrl'[x[1]] = aCtrl[x[1]] /\ x[1] # low
  BY <1>0, <1>5, <1>9, <1>10, <1>11, BlockFacts
<1>12. InHand' /\ ListsOK'
  <2>1. ASSUME NEW j \in Logs, NEW b \in Elems(aiFreelist'[j])
        PROVE  <<b, j>> \in blocks' /\ aCtrl'[b] = [free |-> TRUE, log |-> j] /\ b # low
    <3>1. b \in FreeBlocks(j)
      BY Zenon, <1>7, <2>1 DEF FreeBlocks
    <3>2. <<b, j>> \in blocks /\ aCtrl[b] = [free |-> TRUE, log |-> j] /\ b # cur
      BY Zenon, <1>0, <3>1 DEF Core, ListsOK
    <3>3. b # other
      <4>1. ASSUME b = other PROVE FALSE
        BY Zenon, <1>1, <1>6, <1>7, <2>1, <3>2, <4>1
      <4> QED BY Zenon, <4>1
    <3> QED BY Zenon, <1>11, <3>2, <3>3
  <2> QED BY Zenon, <1>0, <1>7, <2>1 DEF ListsOK, FreeBlocks, InHand
<1>13. ASSUME NEW i \in Ids, ptr[i] # NULL
       PROVE  /\ ptr[i] # cur /\ ptr[i] # other /\ ptr[i] # low
              /\ aCtrl'[ptr[i]] = aCtrl[ptr[i]] /\ ~aCtrl[ptr[i]].free
              /\ <<ptr[i], aCtrl[ptr[i]].log>> \in blocks'
  <2>1. /\ ptr[i] # cur /\ ~aCtrl[ptr[i]].free /\ <<ptr[i], aCtrl[ptr[i]].log>> \in blocks
    BY Zenon, <1>0, <1>13 DEF Core, HeldOK
  <2>2. ptr[i] # other
    BY <1>0, <2>1
  <2> QED BY Zenon, <1>11, <2>1, <2>2
<1>14. HeldOK'
  <2>1. ASSUME NEW i \in Ids, ptr[i] # NULL
        PROVE  /\ <<ptr[i], aCtrl'[ptr[i]].log>> \in blocks' /\ ~aCtrl'[ptr[i]].free
               /\ \A j \in Ids \ {i} : ptr[j] # ptr[i]
               /\ ptr[i] # low
    BY Zenon, <1>0, <1>13, <2>1 DEF Core, HeldOK
  <2> QED BY Zenon, <1>0, <2>1 DEF HeldOK, NULL
<1>15. AccountedOK'
  <2>1. ASSUME NEW x \in blocks'
        PROVE  \/ x[1] \in Elems(aiFreelist'[x[2]])
               \/ \E i \in Ids : ptr[i] = x[1] /\ aCtrl'[x[1]].log = x[2]
               \/ x = <<low, bin + 1>>
    <3>1. CASE x = <<low, bin + 1>>
      BY Zenon, <3>1
    <3>2. CASE x \in blocks /\ x # hand /\ x # mate
      <4>1. x[1] # cur /\ x[1] # other /\ x[2] \in Logs
        BY <1>0, <1>1, <1>6, <3>2, BlockFacts
      <4>2. aCtrl'[x[1]] = aCtrl[x[1]]
        BY <1>11, <3>2, <4>1
      <4>3. \/ x[1] \in FreeBlocks(x[2])
            \/ \E i \in Ids : ptr[i] = x[1] /\ aCtrl[x[1]].log = x[2]
        BY <1>0, <3>2 DEF Core, AccountedOK
      <4> QED BY <1>7, <4>1, <4>2, <4>3 DEF FreeBlocks
    <3> QED BY Zenon, <1>10, <2>1, <3>1, <3>2
  <2> QED BY Zenon, <1>0, <1>12, <2>1 DEF AccountedOK, FreeBlocks
<1>16. JoinedOK'
  <2>1. ASSUME NEW j \in 0 .. LOGMAX - 1, NEW b \in Elems(aiFreelist'[j]),
               Buddy(b, j) \in Elems(aiFreelist'[j])
        PROVE  FALSE
    <3>1. j \in Logs
      BY SizeFacts DEF Logs
    <3> QED BY Zenon, <1>0, <1>7, <2>1, <3>1 DEF Core, JoinedOK, FreeBlocks
  <2> QED BY Zenon, <2>1 DEF JoinedOK, FreeBlocks, Buddy
<1>17. LoopsOK' /\ Tiling(blocks, Extent)'
  <2>1. Tiling(blocks', nBlock)
    BY Zenon, <1>0, <1>1, <1>2, <1>4, <1>5, <1>6, JoinTiling
  <2>2. <<low, bin + 1>> \in blocks'
    BY Zenon, <1>0
  <2> QED BY Zenon, <1>0, <1>9, <2>1, <2>2 DEF LoopsOK, InHand, Tiling, Extent
<1>18. DataIntact'
  BY Zenon, <1>0, <1>13 DEF BlockSize, Core, DataIntact, NULL
<1>19. HeapTypeOK'
  <2>1. blocks' \subseteq Atoms \X Logs
    BY <1>0, <1>2, <1>8 DEF HeapTypeOK
  <2>2. Atoms' = Atoms /\ cur' \in 0 .. nBlock
    BY <1>0, <1>1, <1>8 DEF Atoms
  <2> QED BY Zenon, <1>0, <1>2, <1>7, <1>9, <2>1, <2>2 DEF HeapTypeOK
<1> QED BY Zenon, <1>0, <1>12, <1>13, <1>14, <1>15, <1>16, <1>17, <1>18, <1>19 DEF HeapInv, Core,
  SizesOK, AsLargeAsAsked, BlockSize, NULL

(* Putting the block in hand on its list.                                  *)
LEMMA FinishFreeStep == HeapInv /\ FinishFree => HeapInv'
<1> SUFFICES ASSUME HeapInv, FinishFree PROVE HeapInv'
  BY Zenon
<1>0. /\ HeapTypeOK /\ Core /\ hpc = "merge" /\ InHand /\ <<cur, bin>> \in blocks /\ bin \in Logs
      /\ aCtrl[cur] = [free |-> TRUE, log |-> bin] /\ ~FreeBuddy(cur, bin)
      /\ aiFreelist' = Link(aiFreelist, cur, bin)
      /\ cell' = [cell EXCEPT ![cur] = 0]
      /\ hpc' = "idle" /\ cur' = 0 /\ bin' = 0
      /\ UNCHANGED <<nBlock, aCtrl, ptr, asked, call, blocks>>
  BY Zenon DEF HeapInv, FinishFree, InHand, Core, LoopsOK, HeapTypeOK
<1>1. /\ nBlock \in Nat /\ Tiling(blocks, nBlock) /\ blocks \subseteq Nat \X Logs
      /\ cur \in Atoms /\ cur \in Nat /\ 0 \in Logs /\ Size(bin) \in Nat \ {0}
  <2>1. cur \in Atoms
    BY Zenon, <1>0 DEF HeapTypeOK
  <2> QED BY <1>0, <2>1, SizeFacts, DividedFacts DEF Logs, Atoms
<1>2. /\ aiFreelist' \in [Logs -> Seq(Atoms)]
      /\ \A j \in Logs : Distinct(aiFreelist'[j])
      /\ cur \in Elems(aiFreelist'[bin])
      /\ \A x \in FreeBlocks(bin) : x \in Elems(aiFreelist'[bin])
      /\ \A x \in Elems(aiFreelist'[bin]) : x # cur => x \in FreeBlocks(bin)
      /\ \A j \in Logs \ {bin} : aiFreelist'[j] = aiFreelist[j]
  BY Zenon, <1>0, <1>1, LinkStep DEF Core, ListsOK
<1>3. ~InHand' /\ ListsOK'
  <2>1. ASSUME NEW j \in Logs, NEW b \in Elems(aiFreelist'[j])
        PROVE  <<b, j>> \in blocks /\ aCtrl[b] = [free |-> TRUE, log |-> j]
    <3>1. CASE b = cur /\ j = bin
      BY Zenon, <1>0, <3>1
    <3>2. CASE ~(b = cur /\ j = bin)
      BY Zenon, <1>0, <1>2, <2>1, <3>2 DEF FreeBlocks, Core, ListsOK
    <3> QED BY Zenon, <3>1, <3>2
  <2> QED BY Zenon, <1>0, <1>2, <2>1 DEF ListsOK, FreeBlocks, InHand
<1>4. HeldOK'
  BY Zenon, <1>0, <1>3 DEF Core, HeldOK, NULL
<1>5. AccountedOK'
  <2>1. ASSUME NEW x \in blocks
        PROVE  \/ x[1] \in Elems(aiFreelist'[x[2]])
               \/ \E i \in Ids : ptr[i] = x[1] /\ aCtrl[x[1]].log = x[2]
    <3>1. CASE x = <<cur, bin>>
      BY Zenon, <1>2, <3>1
    <3>2. CASE x # <<cur, bin>>
      BY Zenon, <1>0, <1>2, <2>1, <3>2, BlockFacts DEF Core, AccountedOK, FreeBlocks
    <3> QED BY Zenon, <3>1, <3>2
  <2> QED BY Zenon, <1>0, <2>1 DEF AccountedOK, FreeBlocks
<1>6. JoinedOK'
  <2>1. Buddy(Buddy(cur, bin), bin) = cur /\ Buddy(cur, bin) # cur
    BY Zenon, <1>0, <1>1, BuddyHalves DEF Tiling
  <2>2. bin < LOGMAX => Buddy(cur, bin) \notin FreeBlocks(bin)
    <3>1. ASSUME bin < LOGMAX, Buddy(cur, bin) \in FreeBlocks(bin) PROVE FALSE
      <4>1. /\ <<Buddy(cur, bin), bin>> \in blocks
            /\ aCtrl[Buddy(cur, bin)] = [free |-> TRUE, log |-> bin]
        BY Zenon, <1>0, <3>1 DEF Core, ListsOK
      <4> QED BY Zenon, <1>0, <1>1, <3>1, <4>1 DEF FreeBuddy, Fits, Tiling
    <3> QED BY Zenon, <3>1
  <2>3. ASSUME NEW j \in 0 .. LOGMAX - 1, NEW b \in Elems(aiFreelist'[j]),
               Buddy(b, j) \in Elems(aiFreelist'[j])
        PROVE  FALSE
    <3>1. j \in Logs /\ j < LOGMAX
      BY SizeFacts DEF Logs
    <3>2. Buddy(b, j) \in FreeBlocks(j) \/ (Buddy(b, j) = cur /\ j = bin)
      BY Zenon, <1>2, <2>3, <3>1 DEF FreeBlocks
    <3>3. CASE b = cur /\ j = bin
      BY Zenon, <2>1, <2>2, <3>1, <3>2, <3>3
    <3>4. CASE b \in FreeBlocks(j) /\ Buddy(b, j) = cur /\ j = bin
      <4>1. <<b, bin>> \in blocks
        BY Zenon, <1>0, <3>4 DEF Core, ListsOK
      <4>2. Buddy(Buddy(b, bin), bin) = b
        BY Zenon, <1>0, <1>1, <4>1, BuddyHalves DEF Tiling
      <4> QED BY Zenon, <2>2, <3>1, <3>4, <4>2
    <3>5. CASE b \in FreeBlocks(j) /\ Buddy(b, j) \in FreeBlocks(j)
      BY Zenon, <1>0, <2>3, <3>5 DEF Core, JoinedOK
    <3> QED BY Zenon, <1>2, <2>3, <3>1, <3>2, <3>3, <3>4, <3>5 DEF FreeBlocks
  <2> QED BY Zenon, <2>3 DEF JoinedOK, FreeBlocks, Buddy
<1>7. LoopsOK' /\ Tiling(blocks, Extent)'
  BY Zenon, <1>0, <1>1, <1>3 DEF Extent, LoopsOK, Tiling
<1>8. cell' \in [Atoms -> Ids \cup {0}] /\ \A a \in Atoms : a # cur => cell'[a] = cell[a]
  BY Zenon, <1>0, <1>1 DEF HeapTypeOK
<1>9. DataIntact'
  <2>1. ASSUME NEW i \in Ids, ptr[i] # NULL,
               NEW a \in ptr[i] .. ptr[i] + BlockSize(ptr[i]) - 1
        PROVE  cell'[a] = i
    <3>1. /\ ptr[i] \in Nat /\ BlockSize(ptr[i]) \in Nat /\ ptr[i] + BlockSize(ptr[i]) <= nBlock
          /\ <<ptr[i], aCtrl[ptr[i]].log>> \in blocks
      BY Zenon, <1>0, <2>1, DividedFacts
    <3>2. a \in Atoms /\ Covers(<<ptr[i], aCtrl[ptr[i]].log>>, a)
      BY <1>1, <3>1 DEF Atoms, Covers, BlockSize
    <3>3. a # cur
      <4>1. ASSUME a = cur PROVE FALSE
        BY <1>0, <1>1, <2>1, <3>1, <3>2, <4>1, SharedAtom DEF Covers, Core, HeldOK
      <4> QED BY Zenon, <4>1
    <3> QED BY Zenon, <1>0, <1>8, <2>1, <3>2, <3>3 DEF Core, DataIntact
  <2> QED BY Zenon, <1>0, <2>1 DEF DataIntact, NULL, BlockSize
<1>10. HeapTypeOK'
  BY <1>0, <1>1, <1>2, <1>8 DEF Atoms, HeapTypeOK
<1> QED BY Zenon, <1>0, <1>3, <1>4, <1>5, <1>6, <1>7, <1>9, <1>10 DEF HeapInv, Core, SizesOK,
  AsLargeAsAsked, BlockSize, NULL

=============================================================================
