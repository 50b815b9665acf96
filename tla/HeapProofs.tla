----------------------------- MODULE HeapProofs -----------------------------
(***************************************************************************)
(* The invariant of HeapFacts under the hand-over of memsys5Malloc; it     *)
(* holds in every state, and what follows from it, for every pool, every   *)
(* limit and every set of sizes.  Then Memory: what main reads, the pool   *)
(* it hands over, for every boot information, and that the whole system    *)
(* uses the allocator as module Heap allows.                               *)
(***************************************************************************)
EXTENDS Memory, HeapStepProofs

(* Handing a block to Lua, and freeing the one it replaces.                *)
LEMMA FinishMallocStep == HeapInv /\ FinishMalloc => HeapInv'
<1> SUFFICES ASSUME HeapInv, FinishMalloc PROVE HeapInv'
  BY Zenon
<1> DEFINE i == call.id
           old == ptr[i]
           ko == aCtrl[old].log
           ctrl == [aCtrl EXCEPT ![cur] = [free |-> FALSE, log |-> bin]]
           data == Filled(i, old, cur, bin)
           hand == <<cur, bin>>
           left == <<old, ko>>
<1>0. /\ HeapTypeOK /\ Core /\ hpc = "split" /\ InHand /\ hand \in blocks /\ bin \in Logs
      /\ i \in Ids /\ call.n \in Sizes /\ ToInt(call.n) = call.n % (2 * IntLimit)
      /\ ToInt(call.n) \in Nat /\ ToInt(call.n) <= AllocLimit /\ bin = LogOf(ToInt(call.n))
  BY Zenon, LimitFacts DEF HeapInv, FinishMalloc, InHand, Core, LoopsOK, HeapTypeOK
<1>1. /\ ptr' = [ptr EXCEPT ![i] = cur] /\ asked' = [asked EXCEPT ![i] = call.n]
      /\ call' = [id |-> 0, n |-> 0] /\ UNCHANGED <<nBlock, aiFreelist, blocks>>
      /\ old = NULL => aCtrl' = ctrl /\ cell' = data /\ hpc' = "idle" /\ cur' = 0 /\ bin' = 0
      /\ old # NULL => /\ aCtrl' = FreedCtrl(ctrl, old) /\ cell' = Erased(data, old, ko)
                       /\ hpc' = "merge" /\ cur' = old /\ bin' = ko
  BY Zenon DEF FinishMalloc
<1>2. /\ nBlock \in Nat /\ Tiling(blocks, nBlock) /\ blocks \subseteq Nat \X Logs
      /\ \A x, y \in blocks : x[1] = y[1] => x = y
      /\ cur \in Atoms /\ cur \in Nat /\ 0 \in Logs /\ Size(bin) \in Nat \ {0}
      /\ cur + Size(bin) <= nBlock
  <2>1. /\ nBlock \in Nat /\ Tiling(blocks, nBlock) /\ blocks \subseteq Nat \X Logs
        /\ \A x, y \in blocks : x[1] = y[1] => x = y
    BY Zenon, <1>0, DividedFacts
  <2>2. cur \in Atoms
    BY Zenon, <1>0 DEF HeapTypeOK
  <2> QED BY <1>0, <2>1, <2>2, SizeFacts DEF Logs, Atoms, Tiling
<1> HIDE DEF i
<1>3. old # NULL => /\ old \in Atoms /\ old \in Nat /\ ko \in Logs /\ left \in blocks
                    /\ old + Size(ko) <= nBlock /\ old # cur /\ Size(ko) \in Nat
  <2>1. ASSUME old # NULL PROVE old # cur
    BY Zenon, <1>0, <2>1 DEF Core, HeldOK
  <2> QED BY Zenon, <1>0, <2>1, DividedFacts DEF BlockSize
<1>4. /\ ptr' \in [Ids -> Atoms \cup {NULL}] /\ ptr'[i] = cur
      /\ \A j \in Ids \ {i} : ptr'[j] = ptr[j]
      /\ asked' \in [Ids -> Sizes \cup {0}] /\ asked'[i] = call.n
      /\ \A j \in Ids \ {i} : asked'[j] = asked[j]
  BY Zenon, <1>0, <1>1, <1>2 DEF HeapTypeOK
<1>5. ctrl \in [Atoms -> Ctrl] /\ ctrl[cur] = [free |-> FALSE, log |-> bin]
      /\ \A a \in Atoms : a # cur => ctrl[a] = aCtrl[a]
  BY Zenon, <1>0, <1>2 DEF Ctrl, HeapTypeOK
<1>6. /\ data \in [Atoms -> Ids \cup {0}]
      /\ \A a \in Atoms : ~Covers(hand, a) => data[a] = cell[a]
      /\ \A a \in Atoms : Covers(hand, a) => data[a] = i
  <2> DEFINE d(a) == IF a \notin cur .. cur + Size(bin) - 1 THEN cell[a]
                     ELSE IF old # NULL /\ a - cur < BlockSize(old)
                          THEN cell[old + (a - cur)]
                          ELSE i
  <2>1. data = [a \in Atoms |-> d(a)]
    BY Zenon DEF Filled, Copied
  <2>2. ASSUME NEW a \in Atoms, Covers(hand, a) PROVE d(a) = i
    <3>1. a \in Nat /\ a \in cur .. cur + Size(bin) - 1 /\ a - cur \in Nat
      BY <1>2, <2>2 DEF Atoms, Covers
    <3>2. CASE old # NULL /\ a - cur < BlockSize(old)
      <4>1. old \in Nat /\ BlockSize(old) \in Nat
        BY Zenon, <1>0, <3>2, DividedFacts
      <4>2. cell[old + (a - cur)] = i
        BY <1>0, <3>1, <3>2, <4>1 DEF Core, DataIntact
      <4> QED BY Zenon, <3>1, <3>2, <4>2
    <3>3. CASE ~(old # NULL /\ a - cur < BlockSize(old))
      BY Zenon, <3>1, <3>3
    <3> QED BY Zenon, <3>2, <3>3
  <2>3. ASSUME NEW a \in Atoms, ~Covers(hand, a) PROVE d(a) = cell[a]
    BY <1>2, <2>3 DEF Atoms, Covers
  <2> HIDE DEF d, data
  <2>4. \A a \in Atoms : d(a) \in Ids \cup {0}
    BY Zenon, <1>0, <2>2, <2>3 DEF HeapTypeOK
  <2> QED BY Zenon, <2>1, <2>2, <2>3, <2>4
<1> HIDE DEF data, ctrl
<1>7. /\ aCtrl' \in [Atoms -> Ctrl]
      /\ old # NULL => aCtrl'[old] = [free |-> TRUE, log |-> ko]
      /\ \A a \in Atoms : (old # NULL => ~Covers(left, a)) => aCtrl'[a] = ctrl[a]
  <2>1. CASE old = NULL
    BY Zenon, <1>1, <1>5, <2>1
  <2>2. CASE old # NULL
    <3>1. ctrl[old] = aCtrl[old]
      BY Zenon, <1>3, <1>5, <2>2
    <3> HIDE DEF old
    <3> QED BY <1>1, <1>2, <1>3, <1>5, <2>2, <3>1, FreedFacts
  <2> QED BY Zenon, <2>1, <2>2
<1>8. /\ cell' \in [Atoms -> Ids \cup {0}]
      /\ \A a \in Atoms : (old # NULL => ~Covers(left, a)) => cell'[a] = data[a]
  <2>1. CASE old = NULL
    BY Zenon, <1>1, <1>6, <2>1
  <2>2. CASE old # NULL
    <3> HIDE DEF old, ko
    <3> QED BY <1>1, <1>2, <1>3, <1>6, <2>2, ErasedFacts
  <2> QED BY Zenon, <2>1, <2>2
<1> HIDE DEF old, ko
<1>9. ASSUME NEW x \in blocks, NEW a \in Nat, Covers(x, a), old # NULL => x # left
      PROVE  (old # NULL => ~Covers(left, a)) /\ (x # hand => ~Covers(hand, a))
  <2>1. ASSUME old # NULL PROVE ~Covers(left, a)
    BY Zenon, <1>2, <1>3, <1>9, <2>1, SharedAtom
  <2>2. ASSUME x # hand PROVE ~Covers(hand, a)
    BY Zenon, <1>0, <1>2, <1>9, <2>2, SharedAtom
  <2> QED BY Zenon, <2>1, <2>2
<1>10. ASSUME NEW x \in blocks, old # NULL => x # left
       PROVE  /\ x[1] \in Atoms /\ (old # NULL => x[1] # old)
              /\ x # hand => x[1] # cur /\ aCtrl'[x[1]] = aCtrl[x[1]]
              /\ x = hand => aCtrl'[x[1]] = [free |-> FALSE, log |-> bin]
  <2>1. x[1] \in Atoms /\ x[1] \in Nat /\ Covers(x, x[1])
    BY <1>0, BlockFacts DEF Covers
  <2>2. aCtrl'[x[1]] = ctrl[x[1]]
    BY Zenon, <1>7, <1>9, <1>10, <2>1
  <2>3. (old # NULL => x[1] # old) /\ (x # hand => x[1] # cur)
    BY Zenon, <1>0, <1>2, <1>3, <1>10
  <2> QED BY <1>5, <2>1, <2>2, <2>3
<1>11. ASSUME NEW j \in Ids \ {i}, ptr[j] # NULL
       PROVE  /\ ptr[j] # old /\ ptr[j] # cur /\ aCtrl'[ptr[j]] = aCtrl[ptr[j]]
              /\ <<ptr[j], aCtrl[ptr[j]].log>> \in blocks /\ ~aCtrl[ptr[j]].free
              /\ <<ptr[j], aCtrl[ptr[j]].log>> # hand /\ <<ptr[j], aCtrl[ptr[j]].log>> # left
  BY Zenon, <1>0, <1>10, <1>11 DEF Core, HeldOK, old
<1>12. \A j \in Logs : FreeBlocks(j)' = FreeBlocks(j)
  BY Zenon, <1>1 DEF FreeBlocks
<1>13. InHand' <=> old # NULL
  BY Zenon, <1>1 DEF InHand
<1>14. ListsOK'
  <2>1. ASSUME NEW j \in Logs, NEW c \in FreeBlocks(j)
        PROVE  /\ <<c, j>> \in blocks /\ aCtrl'[c] = [free |-> TRUE, log |-> j]
               /\ old # NULL => c # old
    <3>1. <<c, j>> \in blocks /\ aCtrl[c] = [free |-> TRUE, log |-> j] /\ c # cur
      BY Zenon, <1>0, <2>1 DEF Core, ListsOK
    <3>2. old # NULL => c # old
      <4>1. ASSUME old # NULL PROVE ~aCtrl[old].free
        BY Zenon, <1>0, <4>1 DEF Core, HeldOK, old
      <4> QED BY <3>1, <4>1
    <3> QED BY Zenon, <1>10, <3>1, <3>2
  <2>2. \A j \in Logs : Distinct(aiFreelist[j])
    BY Zenon, <1>0 DEF Core, ListsOK
  <2> QED BY Zenon, <1>1, <1>12, <1>13, <2>1, <2>2 DEF ListsOK
<1>15. hand \in blocks /\ (old # NULL => hand # left) /\ aCtrl'[cur] = [free |-> FALSE, log |-> bin]
  BY Zenon, <1>0, <1>3, <1>10
<1>16. HeldOK'
  <2>1. ASSUME NEW j \in Ids, ptr'[j] # NULL
        PROVE  /\ <<ptr'[j], aCtrl'[ptr'[j]].log>> \in blocks /\ ~aCtrl'[ptr'[j]].free
               /\ \A m \in Ids \ {j} : ptr'[m] # ptr'[j]
               /\ old # NULL => ptr'[j] # old
    <3>1. CASE j = i
      <4>1. ASSUME NEW m \in Ids \ {i} PROVE ptr[m] # cur
        <5>1. CASE ptr[m] = NULL
          BY <1>2, <5>1 DEF NULL
        <5>2. CASE ptr[m] # NULL
          BY Zenon, <1>11, <5>2
        <5> QED BY Zenon, <5>1, <5>2
      <4>2. ptr'[j] = cur /\ \A m \in Ids \ {j} : ptr'[m] # cur
        BY Zenon, <1>4, <3>1, <4>1
      <4> QED BY <1>3, <1>15, <4>2
    <3>2. CASE j # i
      <4>1. ptr'[j] = ptr[j] /\ ptr[j] # NULL
        BY Zenon, <1>4, <2>1, <3>2
      <4>2. /\ ptr[j] # old /\ ptr[j] # cur /\ aCtrl'[ptr[j]] = aCtrl[ptr[j]]
            /\ <<ptr[j], aCtrl[ptr[j]].log>> \in blocks /\ ~aCtrl[ptr[j]].free
        BY Zenon, <1>11, <3>2, <4>1
      <4>3. ASSUME NEW m \in Ids \ {j} PROVE ptr'[m] # ptr[j]
        BY <1>0, <1>4, <4>1, <4>2 DEF Core, HeldOK
      <4> QED BY Zenon, <4>1, <4>2, <4>3
    <3> QED BY Zenon, <3>1, <3>2
  <2> QED BY Zenon, <1>1, <1>13, <2>1 DEF HeldOK, NULL
<1>17. AccountedOK'
  <2>1. ASSUME NEW x \in blocks
        PROVE  \/ x[1] \in FreeBlocks(x[2])
               \/ \E j \in Ids : ptr'[j] = x[1] /\ aCtrl'[x[1]].log = x[2]
               \/ old # NULL /\ x = left
    <3>1. CASE old # NULL /\ x = left
      BY Zenon, <3>1
    <3>2. CASE x = hand
      BY <1>0, <1>4, <1>15, <3>2
    <3>3. CASE x # hand /\ ~(old # NULL /\ x = left)
      BY <1>0, <1>4, <1>10, <2>1, <3>3, BlockFacts DEF Core, AccountedOK, old, NULL
    <3> QED BY Zenon, <3>1, <3>2, <3>3
  <2> QED BY <1>0, <1>1, <1>12, <1>13, <2>1, BlockFacts DEF AccountedOK
<1>18. JoinedOK'
  BY <1>0, <1>12, SizeFacts DEF Buddy, Logs, Core, JoinedOK
<1>19. LoopsOK' /\ Tiling(blocks, Extent)'
  BY Zenon, <1>1, <1>2, <1>3, <1>7, <1>13 DEF Extent, LoopsOK, Tiling
<1>20. SizesOK'
  <2>1. ASSUME NEW j \in Ids, ptr'[j] # NULL PROVE asked'[j] % (2 * IntLimit) <= szAtom * BlockSize(ptr[j])'
    <3>1. CASE j = i
      BY <1>0, <1>4, <1>15, <3>1, LogOfFits DEF BlockSize
    <3>2. CASE j # i
      <4>1. ptr'[j] = ptr[j] /\ ptr[j] # NULL /\ asked'[j] = asked[j]
        BY Zenon, <1>4, <2>1, <3>2
      <4> QED BY Zenon, <1>0, <1>11, <3>2, <4>1 DEF BlockSize, Core, SizesOK, AsLargeAsAsked
    <3> QED BY Zenon, <3>1, <3>2
  <2> QED BY Zenon, <1>0, <1>4, <2>1 DEF SizesOK, AsLargeAsAsked, NULL, Core
<1>21. DataIntact'
  <2>1. ASSUME NEW j \in Ids, ptr'[j] # NULL,
               NEW a \in ptr'[j] .. ptr'[j] + Size(aCtrl'[ptr'[j]].log) - 1
        PROVE  cell'[a] = j
    <3>1. CASE j = i
      <4>1. a \in cur .. cur + Size(bin) - 1
        BY <1>4, <1>15, <2>1, <3>1
      <4>2. a \in Atoms /\ a \in Nat /\ Covers(hand, a)
        BY <1>2, <4>1 DEF Atoms, Covers
      <4>3. old # NULL => ~Covers(left, a)
        BY Zenon, <1>9, <1>15, <4>2
      <4> QED BY Zenon, <1>6, <1>8, <3>1, <4>2, <4>3
    <3>2. CASE j # i
      <4>1. ptr'[j] = ptr[j] /\ ptr[j] # NULL
        BY Zenon, <1>4, <2>1, <3>2
      <4>2. /\ aCtrl'[ptr[j]] = aCtrl[ptr[j]]
            /\ <<ptr[j], aCtrl[ptr[j]].log>> \in blocks
            /\ <<ptr[j], aCtrl[ptr[j]].log>> # hand /\ <<ptr[j], aCtrl[ptr[j]].log>> # left
        BY Zenon, <1>11, <3>2, <4>1
      <4>3. /\ ptr[j] \in Nat /\ BlockSize(ptr[j]) \in Nat /\ ptr[j] + BlockSize(ptr[j]) <= nBlock
        BY Zenon, <1>0, <4>1, DividedFacts
      <4>4. a \in ptr[j] .. ptr[j] + BlockSize(ptr[j]) - 1
        BY Zenon, <2>1, <4>1, <4>2 DEF BlockSize
      <4>5. a \in Atoms /\ a \in Nat /\ Covers(<<ptr[j], aCtrl[ptr[j]].log>>, a)
        BY <1>2, <4>3, <4>4 DEF Atoms, Covers, BlockSize
      <4>6. (old # NULL => ~Covers(left, a)) /\ ~Covers(hand, a)
        BY Zenon, <1>9, <4>2, <4>5
      <4>7. cell[a] = j
        BY Zenon, <1>0, <4>1, <4>4 DEF Core, DataIntact
      <4> QED BY Zenon, <1>6, <1>8, <4>5, <4>6, <4>7
    <3> QED BY Zenon, <3>1, <3>2
  <2> QED BY Zenon, <2>1 DEF DataIntact, NULL, BlockSize
<1>22. HeapTypeOK'
  <2>1. Atoms' = Atoms /\ NULL' = NULL
    BY Zenon, <1>1 DEF Atoms, NULL
  <2>2. cur' \in 0 .. nBlock /\ bin' \in Logs /\ hpc' \in {"idle", "merge"}
    BY <1>1, <1>2, <1>3 DEF Atoms
  <2>3. call' \in [id : Ids \cup {0}, n : Sizes \cup {0}]
    BY Zenon, <1>1
  <2> QED BY Zenon, <1>0, <1>1, <1>4, <1>7, <1>8, <2>1, <2>2, <2>3 DEF HeapTypeOK
<1> QED BY Zenon, <1>14, <1>16, <1>17, <1>18, <1>19, <1>20, <1>21, <1>22 DEF HeapInv, Core

(* The invariant is inductive: every step of l_alloc and of memsys5's      *)
(* loops keeps it.                                                         *)
LEMMA HeapInvInductive == HeapInv /\ [HeapNext]_heap_vars => HeapInv'
<1> SUFFICES ASSUME HeapInv, [HeapNext]_heap_vars PROVE HeapInv'
  BY Zenon
<1>1. CASE UNCHANGED heap_vars
  <2>1. UNCHANGED <<nBlock, aCtrl, aiFreelist, cell, ptr, asked, hpc, cur, bin, call, blocks>>
    BY Zenon, <1>1 DEF heap_vars
  <2>2. HeapTypeOK'
    BY Zenon, <2>1 DEF HeapInv, HeapTypeOK, Atoms
  <2>3. CASE hpc # "dangling"
    <3>1. Core
      BY Zenon, <2>3 DEF HeapInv
    <3>2. \A k : FreeBlocks(k)' = FreeBlocks(k)
      BY Zenon, <2>1 DEF FreeBlocks
    <3>3. \A j, b : Buddy(b, j)' = Buddy(b, j)
      BY Zenon DEF Buddy
    <3>4. ListsOK' /\ HeldOK' /\ AccountedOK' /\ JoinedOK' /\ Tiling(blocks, Extent)'
      BY Zenon, <2>1, <3>1, <3>2, <3>3 DEF Core, ListsOK, HeldOK, AccountedOK, JoinedOK, InHand, Extent,
                                    NULL, Tiling
    <3>5. DataIntact' /\ SizesOK' /\ LoopsOK'
      BY Zenon, <2>1, <3>1 DEF Core, DataIntact, SizesOK, AsLargeAsAsked, BlockSize, NULL, LoopsOK,
                        InHand, LogOf, ToInt
    <3> QED BY Zenon, <2>2, <3>4, <3>5 DEF HeapInv, Core
  <2> QED BY Zenon, <2>1, <2>2, <2>3 DEF HeapInv
<1>2. CASE \E i \in Ids : Free(i)
  BY Zenon, <1>2, FreeStep
<1>3. ASSUME NEW i \in Ids, NEW n \in Sizes, LAlloc(i, n) PROVE HeapInv'
  BY Zenon, <1>1, <1>3, KeepBlockStep, FreeInsteadStep, GrowStep DEF LAlloc, Refuse
<1>4. CASE Divide \/ Split \/ FinishMalloc \/ Merge \/ FinishFree
  BY Zenon, <1>4, DivideStep, SplitStep, FinishMallocStep, MergeStep, FinishFreeStep
<1>5. CASE \E n \in HeapSizes : Memsys5Init(n)
  BY Zenon, <1>5, Memsys5InitStep
<1> QED BY Zenon, <1>1, <1>2, <1>3, <1>4, <1>5 DEF HeapNext, UseHeap

(* In every state of every execution the invariant holds.                  *)
THEOREM HeapInvariance == HeapSpec => []HeapInv
  BY InitInv, HeapInvInductive, PTL DEF HeapSpec

(* Every list of free blocks and every pointer Lua holds stays inside the  *)
(* pool main hands to memsys5.                                             *)
THEOREM HeapTypes == HeapSpec => []HeapTypeOK
<1>1. HeapInv => HeapTypeOK
  BY Zenon DEF HeapInv
<1> QED BY <1>1, HeapInvariance, PTL

(* Until a call loses a block, what Lua stored in a block stays there.     *)
THEOREM HeapKeepsData == HeapSpec => []DataIntact
<1>1. HeapInv => DataIntact
  BY Zenon DEF HeapInv, Core, DataIntact
<1> QED BY <1>1, HeapInvariance, PTL

(* Between calls every block of the pool is on one list or held by Lua.    *)
THEOREM HeapLeaksNothing == HeapSpec => []PoolAccounted
<1>1. ASSUME HeapInv, hpc = "idle", NEW x \in blocks
      PROVE  \/ /\ x[1] \in FreeBlocks(x[2])
                /\ \A k \in Logs \ {x[2]} : x[1] \notin FreeBlocks(k)
                /\ \A i \in Ids : ptr[i] # x[1]
             \/ /\ \A k \in Logs : x[1] \notin FreeBlocks(k)
                /\ \E i \in Ids : ptr[i] = x[1] /\ aCtrl[x[1]].log = x[2]
  <2>0. HeapTypeOK /\ Core /\ ~InHand
    BY Zenon, <1>1 DEF HeapInv, InHand
  <2>1. x[2] \in Logs /\ x[1] \in Nat
    BY Zenon, <2>0, <1>1, BlockFacts
  <2>2. ASSUME NEW k \in Logs, x[1] \in FreeBlocks(k)
        PROVE  aCtrl[x[1]].free /\ aCtrl[x[1]].log = k
    <3>1. aCtrl[x[1]] = [free |-> TRUE, log |-> k]
      BY Zenon, <2>0, <2>2 DEF Core, ListsOK
    <3> QED BY <3>1
  <2>3. ASSUME NEW i \in Ids, ptr[i] = x[1] PROVE ~aCtrl[x[1]].free
    <3>1. ptr[i] # NULL
      BY <2>1, <2>3 DEF NULL
    <3> QED BY Zenon, <2>0, <2>3, <3>1 DEF Core, HeldOK
  <2>4. CASE x[1] \in FreeBlocks(x[2])
    BY Zenon, <2>1, <2>2, <2>3, <2>4
  <2>5. CASE \E i \in Ids : ptr[i] = x[1] /\ aCtrl[x[1]].log = x[2]
    BY Zenon, <2>2, <2>3, <2>5
  <2> QED BY Zenon, <1>1, <2>0, <2>4, <2>5 DEF Core, AccountedOK
<1>2. HeapInv => PoolAccounted
  BY Zenon, <1>1 DEF PoolAccounted
<1> QED BY <1>2, HeapInvariance, PTL

(* Between calls no two free blocks are the halves of one block.           *)
THEOREM HeapCoalesces == HeapSpec => []Coalesced
<1>1. HeapInv => Coalesced
  BY Zenon DEF HeapInv, Core, JoinedOK, Coalesced
<1> QED BY <1>1, HeapInvariance, PTL

(* memsys5FreeUnsafe changes the size of no block.                         *)
LEMMA FreedKeepsLogs ==
  ASSUME NEW ctrl \in [Atoms -> Ctrl], NEW b \in Atoms, NEW a \in Atoms
  PROVE  FreedCtrl(ctrl, b)[a].log = ctrl[a].log
<1> DEFINE k == ctrl[b].log
           e == b + Size(k) - 1
           half == [ctrl EXCEPT ![e].free = TRUE]
<1>1. FreedCtrl(ctrl, b) = [half EXCEPT ![b] = [free |-> TRUE, log |-> k]]
  BY Zenon DEF FreedCtrl
<1>2. half[a] = ctrl[a] \/ half[a] = [ctrl[a] EXCEPT !.free = TRUE]
  <2> HIDE DEF e
  <2> QED BY Zenon
<1>3. [ctrl[a] EXCEPT !.free = TRUE].log = ctrl[a].log
  BY Zenon DEF Ctrl
<1>4. DOMAIN half = Atoms
  <2> HIDE DEF e
  <2> QED BY Zenon
<1> HIDE DEF half
<1>5. CASE a = b
  BY <1>1, <1>4, <1>5
<1>6. CASE a # b
  BY Zenon, <1>1, <1>2, <1>3, <1>4, <1>6
<1> QED BY Zenon, <1>5, <1>6

(* A block has the bytes Lua last asked for, modulo 2^32: l_alloc passes   *)
(* on no more of a size.                                                   *)
THEOREM HeapGivesEnough == HeapSpec => []AsLargeAsAsked
<1>1. ASSUME NEW i \in Ids, NEW n \in Sizes, HeapInv, AsLargeAsAsked, FreeInstead(i, n)
      PROVE  AsLargeAsAsked'
  <2>1. /\ aCtrl \in [Atoms -> Ctrl] /\ ptr \in [Ids -> Atoms \cup {NULL}] /\ ptr[i] # NULL
        /\ aCtrl' = FreedCtrl(aCtrl, ptr[i]) /\ ptr' = ptr /\ asked' = asked
    BY Zenon, <1>1 DEF HeapInv, HeapTypeOK, FreeInstead
  <2>2. ASSUME NEW j \in Ids, ptr[j] # NULL PROVE BlockSize(ptr[j])' = BlockSize(ptr[j])
    BY Zenon, <2>1, <2>2, FreedKeepsLogs DEF BlockSize
  <2> QED BY Zenon, <1>1, <2>1, <2>2 DEF AsLargeAsAsked, NULL
<1>2. ASSUME UNCHANGED heap_vars, AsLargeAsAsked PROVE AsLargeAsAsked'
  BY Zenon, <1>2 DEF heap_vars, AsLargeAsAsked, BlockSize, NULL
<1>3. ASSUME HeapNext, hpc' = "dangling"
      PROVE  UNCHANGED heap_vars \/ \E i \in Ids, n \in Sizes : FreeInstead(i, n)
  BY Zenon, <1>3 DEF HeapNext, UseHeap, LAlloc, Refuse, Free, Ready, StartFree, KeepBlock, Grow,
    StartMalloc, Divide, Split, FinishMalloc, Merge, FinishFree, Memsys5Init
<1>4. HeapInv /\ AsLargeAsAsked /\ [HeapNext]_heap_vars => AsLargeAsAsked'
  BY Zenon, <1>1, <1>2, <1>3, HeapInvInductive DEF HeapInv, Core, SizesOK
<1>5. HeapInit => AsLargeAsAsked
  BY Zenon DEF HeapInit, AsLargeAsAsked
<1> QED BY <1>4, <1>5, HeapInvariance, PTL DEF HeapSpec

(* A block can always be kept for a smaller size, as lmem.c:38 requires.   *)
THEOREM ShrinkingSucceeds == HeapSpec => []ShrinkNeverFails
<1>1. ASSUME HeapInv, Ready, NEW i \in Ids, NEW n \in Sizes, ptr[i] # NULL, n <= asked[i]
      PROVE  ~Refuses(i, n)
  <2>0. HeapTypeOK /\ Core /\ hpc = "idle"
    BY Zenon, <1>1 DEF HeapInv, Ready
  <2> DEFINE k == aCtrl[ptr[i]].log
  <2>1. /\ k \in Logs /\ asked[i] <= AllocLimit /\ asked[i] <= szAtom * Size(k)
        /\ asked[i] \in Nat /\ n \in Nat \ {0}
    <3>1. k \in Logs
      BY Zenon, <1>1, <2>0, DividedFacts
    <3>2. asked[i] \in Sizes \cup {0}
      BY Zenon, <2>0 DEF HeapTypeOK
    <3>3. asked[i] \in Nat /\ asked[i] < 2 * IntLimit
      BY <1>1, <3>2, LimitFacts DEF Ready
    <3>4. asked[i] % (2 * IntLimit) = asked[i]
      BY Zenon, <3>3, IntFacts
    <3>5. asked[i] <= AllocLimit /\ asked[i] <= szAtom * Size(k)
      BY Zenon, <1>1, <2>0, <3>4 DEF Core, SizesOK, AsLargeAsAsked, BlockSize
    <3> QED BY Zenon, <3>1, <3>3, <3>5, LimitFacts
  <2> HIDE DEF k
  <2>2. n <= AllocLimit /\ n < IntLimit /\ Size(k) \in Nat /\ szAtom \in Nat
    BY <1>1, <2>1, LimitFacts, SizeFacts DEF Logs
  <2>3. LogOf(n) \in Logs /\ \A j \in 0 .. LogOf(n) - 1 : szAtom * Size(j) < n
    BY Zenon, <2>1, <2>2, LogOfFits
  <2>4. LogOf(n) <= k
    <3>1. ASSUME k < LogOf(n) PROVE FALSE
      <4>1. szAtom * Size(k) < n
        BY <2>1, <2>3, <3>1, SizeFacts DEF Logs
      <4> QED BY <1>1, <2>1, <2>2, <4>1
    <3> QED BY <2>1, <2>3, <3>1, SizeFacts DEF Logs
  <2>5. ToInt(n) > 0 /\ ToInt(n) = n
    BY <2>1, <2>2, IntFacts
  <2> QED BY Zenon, <1>1, <2>2, <2>4, <2>5 DEF Refuses, InPlace, k
<1>2. HeapInv => ShrinkNeverFails
  BY Zenon, <1>1 DEF ShrinkNeverFails
<1> QED BY <1>2, HeapInvariance, PTL

-----------------------------------------------------------------------------
(* Memory                                                                  *)

(* The limits of the allocator are numbers.                                *)
LEMMA LimitNumbers ==
  szAtom \in Nat \ {0} /\ IntLimit \in Nat /\ \A n \in Sizes : n \in Nat
<1>1. \A n \in Sizes : n \in Nat
  BY Zenon, LimitsAssumption
<1> QED BY <1>1, LimitsAssumption

(* What the walk has found when tag k is its next one.                     *)
HeapRead(k) ==
  /\ heap_end \in Nat
  /\ \A j \in Of(info, "mmap") : j < k => \A e \in DOMAIN info[j].entries :
       IsHeap(info[j].entries[e]) => heap_end = KernelBase + info[j].entries[e].len
  /\ heap_end # 0 => \E j \in Of(info, "mmap") : j < k /\ \E e \in DOMAIN info[j].entries :
       IsHeap(info[j].entries[e]) /\ heap_end = KernelBase + info[j].entries[e].len

ModeRead(k) ==
  /\ \A j \in Of(info, "vbe") : j < k => modeinfo = info[j].mode
  /\ (\A j \in Of(info, "vbe") : ~(j < k)) => modeinfo = NoMode

FrameRead(k) ==
  /\ \A j \in Of(info, "framebuffer") : j < k =>
       fbmem = IF \E v \in Of(info, "vbe") : v < j /\ info[v].mode.XResolution > 0
               THEN info[j].addr ELSE 0
  /\ (\A j \in Of(info, "framebuffer") : ~(j < k)) => fbmem = 0

WalkRead(k) == HeapRead(k) /\ ModeRead(k) /\ FrameRead(k)

(* The display buffer main asks for is one of the sizes assumed.           *)
BufferOK == display_buffer_len + UdataSize \in Sizes

WalkInv ==
  /\ BufferOK
  /\ heap_end \in Nat
  /\ HeapInMemory
  /\ mpc \in {"tags", "config", "stray"} => nBlock = 0 /\ hpc = "off"
  /\ mpc \in {"tags", "config"} =>
       /\ info \in BootInfos
       /\ \E k \in DOMAIN info : /\ info[k].at = tag
                                 /\ mpc = "config" => info[k].type = "end"
                                 /\ WalkRead(k)

(* Lemma: the step over a tag reaches the next one.                        *)
LEMMA PaddedReachesNext ==
  ASSUME NEW at \in Nat, at % 8 = 0, NEW size \in Nat
  PROVE  at + Padded(size) = 8 * ((at + size + 7) \div 8)
BY DEF Padded

(* Lemma: each tag is at a multiple of eight, and no other one is there.   *)
LEMMA TagPlaces ==
  ASSUME NEW tags \in BootInfos, NEW k \in DOMAIN tags
  PROVE  /\ k \in Nat /\ tags[k].at \in Nat /\ tags[k].at % 8 = 0 /\ tags[k].size \in Nat
         /\ \A j \in DOMAIN tags : tags[j].at = tags[k].at => j = k
         /\ tags[k].type # "end" => /\ k + 1 \in DOMAIN tags
                                    /\ tags[k + 1].at = tags[k].at + Padded(tags[k].size)
<1>1. LaidOut(tags) /\ WellFormed(tags)
  BY Zenon, BootInfosAssumption
<1>2. /\ Len(tags) \in Nat \ {0} /\ DOMAIN tags = 1 .. Len(tags) /\ k \in 1 .. Len(tags)
      /\ \A j \in DOMAIN tags : tags[j].at \in Nat /\ tags[j].size \in Nat \ {0}
  BY Zenon, <1>1 DEF LaidOut
<1>3. tags[k].at % 8 = 0
  <2>1. CASE k = 1
    BY <1>1, <2>1 DEF LaidOut
  <2>2. CASE k # 1
    <3> DEFINE j == k - 1
    <3>1. j \in DOMAIN tags /\ j \in 1 .. Len(tags) - 1 /\ k = j + 1
      BY <1>2, <2>2
    <3> HIDE DEF j
    <3>2. tags[j + 1].at = 8 * ((tags[j].at + tags[j].size + 7) \div 8)
      BY Zenon, <1>1, <3>1 DEF LaidOut
    <3>3. tags[j].at \in Nat /\ tags[j].size \in Nat
      BY Zenon, <1>2, <3>1
    <3> QED BY <3>1, <3>2, <3>3
  <2> QED BY Zenon, <2>1, <2>2
<1>4. ASSUME NEW j \in DOMAIN tags, tags[j].at = tags[k].at PROVE j = k
  <2>1. ASSUME NEW m \in DOMAIN tags, NEW n \in DOMAIN tags, m < n PROVE tags[m].at # tags[n].at
    <3>1. tags[m].at + tags[m].size <= tags[n].at
      BY Zenon, <1>1, <2>1 DEF LaidOut
    <3> QED BY <1>2, <3>1
  <2> QED BY <1>2, <1>4, <2>1
<1>5. ASSUME tags[k].type # "end"
      PROVE  k + 1 \in DOMAIN tags /\ tags[k + 1].at = tags[k].at + Padded(tags[k].size)
  <2>1. k + 1 \in DOMAIN tags /\ k \in 1 .. Len(tags) - 1
    BY <1>1, <1>2, <1>5 DEF WellFormed, Of
  <2> QED BY Zenon, <1>1, <1>2, <1>3, <2>1, PaddedReachesNext DEF LaidOut
<1> QED BY <1>2, <1>3, <1>4, <1>5

(* Lemma: the memory map gives the end of the memory the kernel is in.     *)
LEMMA HeapEndIsUnique ==
  ASSUME NEW tags \in BootInfos, NEW k \in Of(tags, "mmap")
  PROVE  LET entries == tags[k].entries
         IN  /\ \A e \in DOMAIN entries : IsHeap(entries[e]) =>
                  HeapEnd(entries) = KernelBase + entries[e].len /\ entries[e].len \in Nat
             /\ (\A e \in DOMAIN entries : ~IsHeap(entries[e])) => HeapEnd(entries) = heap_end
<1> DEFINE entries == tags[k].entries
           hits == {e \in DOMAIN entries : IsHeap(entries[e])}
           last == CHOOSE e \in hits : \A j \in hits : j <= e
<1>1. HeapEnd(entries) = IF hits = {} THEN heap_end ELSE entries[last].addr + entries[last].len
  BY Zenon DEF HeapEnd
<1>2. /\ \A e, f \in DOMAIN entries : IsHeap(entries[e]) /\ IsHeap(entries[f]) => e = f
      /\ \A e \in DOMAIN entries : entries[e].len \in Nat
      /\ DOMAIN entries = 1 .. Len(entries)
  BY Zenon, BootInfosAssumption DEF WellFormed
<1>3. ASSUME NEW e \in DOMAIN entries, IsHeap(entries[e]) PROVE last = e /\ entries[e].addr = KernelBase
  BY <1>2, <1>3 DEF IsHeap
<1> HIDE DEF last
<1> QED BY Zenon, <1>1, <1>2, <1>3

(* Lemma: one iteration of the walk reads one tag more.                    *)
LEMMA WalkStep == WalkInv /\ ReadTag => WalkInv'
<1> SUFFICES ASSUME WalkInv, ReadTag PROVE WalkInv'
  BY Zenon
<1>1. /\ mpc = "tags" /\ mpc' = mpc /\ info \in BootInfos /\ info' = info
      /\ nBlock' = 0 /\ nBlock = 0 /\ hpc' = "off"
  BY Zenon DEF WalkInv, ReadTag, heap_vars
<1>2. PICK k \in DOMAIN info : info[k].at = tag /\ WalkRead(k)
  BY Zenon, <1>1 DEF WalkInv
<1>3. k \in Nat /\ \A j \in DOMAIN info : j \in Nat
  BY Zenon, <1>1, <1>2, TagPlaces
<1>4. /\ info[k].type # "end"
      /\ modeinfo' = IF info[k].type = "vbe" THEN info[k].mode ELSE modeinfo
      /\ fbmem' = IF info[k].type = "framebuffer" /\ HasMode(modeinfo) THEN info[k].addr ELSE fbmem
      /\ heap_end' = IF info[k].type = "mmap" THEN HeapEnd(info[k].entries) ELSE heap_end
      /\ tag' = tag + Padded(info[k].size)
  <2>1. PICK j \in TagsAt(tag) :
          /\ info[j].type # "end"
          /\ modeinfo' = IF info[j].type = "vbe" THEN info[j].mode ELSE modeinfo
          /\ fbmem' = IF info[j].type = "framebuffer" /\ HasMode(modeinfo) THEN info[j].addr ELSE fbmem
          /\ heap_end' = IF info[j].type = "mmap" THEN HeapEnd(info[j].entries) ELSE heap_end
          /\ tag' = tag + Padded(info[j].size)
    BY Zenon DEF ReadTag
  <2> QED BY <1>1, <1>2, <2>1, TagPlaces DEF TagsAt
<1>5. k + 1 \in DOMAIN info /\ info[k + 1].at = tag'
  BY Zenon, <1>1, <1>2, <1>4, TagPlaces
<1>6. \A type \in {"vbe", "framebuffer", "mmap"} : \A j, l \in Of(info, type) : j = l
  BY Zenon, <1>1, BootInfosAssumption DEF WellFormed
<1>7. HeapRead(k + 1)'
  <2>1. CASE info[k].type = "mmap"
    <3>1. k \in Of(info, "mmap") /\ \A j \in Of(info, "mmap") : j = k
      BY Zenon, <1>6, <2>1 DEF Of
    <3>2. heap_end = 0
      BY <1>2, <1>3, <3>1 DEF WalkRead, HeapRead
    <3> DEFINE entries == info[k].entries
    <3>3. /\ \A e \in DOMAIN entries : IsHeap(entries[e]) =>
               heap_end' = KernelBase + entries[e].len /\ entries[e].len \in Nat
          /\ (\A e \in DOMAIN entries : ~IsHeap(entries[e])) => heap_end' = 0
      BY ZenonT(30), <1>1, <1>4, <2>1, <3>1, <3>2, HeapEndIsUnique
    <3> QED BY <1>1, <1>3, <3>1, <3>3, AddressesAssumption DEF HeapRead
  <2>2. CASE info[k].type # "mmap"
    BY <1>1, <1>2, <1>3, <1>4, <2>2 DEF Of, WalkRead, HeapRead
  <2> QED BY Zenon, <2>1, <2>2
<1>8. ModeRead(k + 1)'
  <2>1. CASE info[k].type = "vbe"
    BY <1>1, <1>3, <1>4, <1>6, <2>1 DEF Of, ModeRead
  <2>2. CASE info[k].type # "vbe"
    BY <1>1, <1>2, <1>3, <1>4, <2>2 DEF Of, WalkRead, ModeRead
  <2> QED BY Zenon, <2>1, <2>2
<1>9. FrameRead(k + 1)'
  <2>1. CASE info[k].type = "framebuffer"
    <3>1. k \in Of(info, "framebuffer") /\ \A j \in Of(info, "framebuffer") : j = k
      BY Zenon, <1>6, <2>1 DEF Of
    <3>2. HasMode(modeinfo) <=> \E v \in Of(info, "vbe") : v < k /\ info[v].mode.XResolution > 0
      BY <1>2, <1>3 DEF WalkRead, ModeRead, HasMode, NoMode
    <3>3. fbmem' = IF \E v \in Of(info, "vbe") : v < k /\ info[v].mode.XResolution > 0
                   THEN info[k].addr ELSE 0
      BY ZenonT(30), <1>2, <1>3, <1>4, <2>1, <3>1, <3>2 DEF WalkRead, FrameRead
    <3> QED BY <1>1, <1>3, <3>1, <3>3 DEF FrameRead
  <2>2. CASE info[k].type # "framebuffer"
    BY <1>1, <1>2, <1>3, <1>4, <2>2 DEF Of, WalkRead, FrameRead
  <2> QED BY Zenon, <2>1, <2>2
<1>10. BufferOK'
  <2>1. CASE info[k].type = "vbe"
    BY Zenon, <1>1, <1>2, <1>4, <2>1, BootInfosAssumption DEF BufferOK, display_buffer_len, Of
  <2>2. CASE info[k].type # "vbe"
    BY Zenon, <1>4, <2>2 DEF WalkInv, BufferOK, display_buffer_len
  <2> QED BY Zenon, <2>1, <2>2
<1> QED BY <1>1, <1>5, <1>7, <1>8, <1>9, <1>10 DEF WalkInv, WalkRead, HeapInMemory, HeapRead

(* Lemma: the pool main hands over ends where the memory ends, and its     *)
(* size is one of the sizes assumed.                                       *)
LEMMA HandoverInMemory ==
  ASSUME heap_end \in Nat, nHeap >= 0
  PROVE  /\ nHeap \in HeapSizes
         /\ heap_start + AtomsIn(nHeap) * (szAtom + 1) <= heap_end
<1> DEFINE m == 2 * IntLimit
           x == heap_end - heap_start
           low == x % m
<1>1. /\ IntLimit \in Nat \ {0} /\ heap_start \in Nat /\ heap_start <= IntLimit
      /\ szAtom \in Nat /\ m \in Nat \ {0} /\ x \in Int
  BY LimitNumbers, LimitsAssumption, AddressesAssumption
<1> HIDE DEF m
<1>2. low \in Nat /\ low < m /\ (x >= 0 => low <= x) /\ (x < 0 /\ x + m >= 0 => low = x + m)
  <2> HIDE DEF x
  <2> QED BY <1>1
<1>3. low < IntLimit /\ nHeap = low
  BY <1>1, <1>2 DEF m, nHeap
<1>4. nHeap \in 0 .. IntLimit - 1 /\ nHeap <= heap_end - heap_start
  BY <1>1, <1>2, <1>3 DEF m
<1>5. AtomsIn(nHeap) * (szAtom + 1) <= nHeap /\ AtomsIn(nHeap) \in Nat
  BY <1>1, <1>4 DEF AtomsIn
<1> QED BY <1>1, <1>4, <1>5, AddressesAssumption

(* Lemma: once the pool is handed over, its size is all that matters.      *)
LEMMA Unmoved ==
  ASSUME WalkInv, UNCHANGED boot_vars, nBlock' = nBlock, hpc # "off"
  PROVE  WalkInv'
<1>1. modeinfo' = modeinfo /\ heap_end' = heap_end /\ mpc' = mpc
  BY Zenon DEF boot_vars
<1>2. HeapInMemory'
  BY <1>1, Zenon DEF WalkInv, HeapInMemory
<1>3. heap_end' \in Nat /\ mpc' \notin {"tags", "config", "stray"} /\ mpc' \notin {"tags", "config"}
  BY Zenon, <1>1 DEF WalkInv
<1> QED BY Zenon, <1>1, <1>2, <1>3 DEF WalkInv, BufferOK, display_buffer_len

(* Lemma: every step keeps the walk's invariant.                           *)
LEMMA WalkInvStep == WalkInv /\ [Next]_vars => WalkInv'
<1> SUFFICES ASSUME WalkInv, [Next]_vars PROVE WalkInv'
  BY Zenon
<1>1. CASE ReadTag
  BY Zenon, <1>1, WalkStep
<1>2. CASE EndTag
  <2>1. /\ mpc = "tags" /\ mpc' = "config" /\ info' = info /\ tag' = tag /\ modeinfo' = modeinfo
        /\ fbmem' = fbmem /\ heap_end' = heap_end /\ nBlock' = nBlock /\ hpc' = hpc
    BY Zenon, <1>2 DEF EndTag, heap_vars
  <2>2. PICK k \in DOMAIN info : info[k].at = tag /\ WalkRead(k)
    BY Zenon, <2>1 DEF WalkInv
  <2>3. info[k].type = "end"
    <3>1. PICK j \in TagsAt(tag) : info[j].type = "end"
      BY Zenon, <1>2 DEF EndTag
    <3> QED BY Zenon, <2>1, <2>2, <3>1, TagPlaces DEF TagsAt, WalkInv
  <2> QED BY <2>1, <2>2, <2>3 DEF WalkInv, BufferOK, display_buffer_len, HeapInMemory, WalkRead,
    HeapRead, ModeRead, FrameRead
<1>3. CASE ConfigHeap
  BY Zenon, <1>3, HandoverInMemory DEF ConfigHeap, Memsys5Init, WalkInv, HeapInMemory, BufferOK,
    display_buffer_len
<1>4. CASE ConfigStray
  BY Zenon, <1>4 DEF ConfigStray, heap_vars, WalkInv, BufferOK, display_buffer_len, HeapInMemory
<1>5. CASE NewState \/ OpenLibsFails \/ NewUserdata
  <2>1. /\ nBlock' = nBlock /\ modeinfo' = modeinfo /\ heap_end' = heap_end
        /\ mpc' \in {"openlibs", "returned", "run", "aborted"}
    BY Zenon, <1>5 DEF NewState, OpenLibsFails, NewUserdata, Grow, StartMalloc, Refuse, heap_vars
  <2> QED BY Zenon, <2>1 DEF WalkInv, BufferOK, display_buffer_len, HeapInMemory
<1>6. CASE Loops \/ Run
  <2>1. UNCHANGED boot_vars
    BY <1>6, Zenon DEF Loops, Run
  <2>2. CASE Loops
    <3>1. nBlock' = nBlock /\ hpc # "off"
      BY Zenon, <2>2 DEF Loops, Divide, Split, FinishMalloc, Merge, FinishFree
    <3> QED BY Zenon, <2>1, <3>1, Unmoved
  <2>3. CASE Run
    <3>1. nBlock' = nBlock /\ hpc # "off"
      BY Zenon, <2>3 DEF Run, Ready, Free, StartFree, LAlloc, KeepBlock, Refuse, FreeInstead, Grow,
        StartMalloc, heap_vars
    <3> QED BY Zenon, <2>1, <3>1, Unmoved
  <2> QED BY Zenon, <1>6, <2>2, <2>3
<1>7. CASE UNCHANGED vars
  <2>1. UNCHANGED boot_vars /\ nBlock' = nBlock /\ hpc' = hpc
    BY Zenon, <1>7 DEF vars, heap_vars
  <2>2. \A k : WalkRead(k)' <=> WalkRead(k)
    BY ZenonT(30), <2>1 DEF boot_vars, WalkRead, HeapRead, ModeRead, FrameRead
  <2> QED BY Zenon, <2>1, <2>2 DEF boot_vars, WalkInv, BufferOK, display_buffer_len, HeapInMemory
<1> QED BY Zenon, <1>1, <1>2, <1>3, <1>4, <1>5, <1>6, <1>7 DEF Next, Stopped

(* Lemma: the walk's invariant holds when main starts.                     *)
LEMMA WalkInvInit == Init => WalkInv
<1> SUFFICES ASSUME Init PROVE WalkInv
  BY Zenon
<1>1. /\ nBlock = 0 /\ hpc = "off" /\ mpc = "tags" /\ heap_end = 0 /\ modeinfo = NoMode /\ fbmem = 0
      /\ info \in BootInfos /\ tag = 8
  BY Zenon DEF Init, HeapInit
<1>2. 1 \in DOMAIN info /\ info[1].at = 8 /\ DOMAIN info = 1 .. Len(info) /\ Len(info) \in Nat
  BY <1>1, BootInfosAssumption DEF LaidOut
<1>3. WalkRead(1)
  BY <1>1, <1>2 DEF WalkRead, HeapRead, ModeRead, FrameRead, Of
<1> QED BY <1>1, <1>2, <1>3, AddressesAssumption, LimitNumbers DEF WalkInv, HeapInMemory, BufferOK,
  display_buffer_len, NoMode

(* In every state of every execution the walk's invariant holds.           *)
THEOREM WalkInvariance == Spec => []WalkInv
BY WalkInvInit, WalkInvStep, PTL DEF Spec

(* The pool and its control bytes lie between the end of the kernel and    *)
(* the end of the memory that holds it, whatever the boot loader reports.  *)
THEOREM HeapIsInMemory == Spec => []HeapInMemory
<1>1. WalkInv => HeapInMemory
  BY Zenon DEF WalkInv
<1> QED BY <1>1, WalkInvariance, PTL

(* get_multiboot_info finds its way over every sequence of tags, and what  *)
(* it found is what the boot loader wrote.                                 *)
THEOREM BootInformationIsRead == Spec => []BootInfoRead
<1>1. ASSUME WalkInv PROVE BootInfoRead
  <2>1. ASSUME mpc = "tags" PROVE TagsAt(tag) # {}
    BY Zenon, <1>1, <2>1 DEF WalkInv, TagsAt
  <2>2. ASSUME mpc = "config"
        PROVE  /\ \A k \in Of(info, "mmap") : \A e \in DOMAIN info[k].entries :
                    info[k].entries[e].available /\ info[k].entries[e].addr = KernelBase
                      => heap_end = KernelBase + info[k].entries[e].len
               /\ heap_end # 0 => \E k \in Of(info, "mmap") : \E e \in DOMAIN info[k].entries :
                    heap_end = KernelBase + info[k].entries[e].len
               /\ \A k \in Of(info, "vbe") : modeinfo = info[k].mode
               /\ \A k \in Of(info, "framebuffer") :
                    fbmem = IF \E v \in Of(info, "vbe") : v < k /\ info[v].mode.XResolution > 0
                            THEN info[k].addr ELSE 0
    <3>1. PICK end \in DOMAIN info : info[end].type = "end" /\ WalkRead(end)
      BY Zenon, <1>1, <2>2 DEF WalkInv
    <3>2. LaidOut(info) /\ WellFormed(info)
      BY Zenon, <1>1, <2>2, BootInfosAssumption DEF WalkInv
    <3>3. \A type \in {"mmap", "vbe", "framebuffer"} : \A j \in Of(info, type) : j < end
      BY <3>1, <3>2 DEF Of, LaidOut, WellFormed
    <3>4. HeapRead(end) /\ ModeRead(end) /\ FrameRead(end)
      BY Zenon, <3>1 DEF WalkRead
    <3>5. \A k \in Of(info, "vbe") : modeinfo = info[k].mode
      BY Zenon, <3>3, <3>4 DEF ModeRead
    <3>6. \A k \in Of(info, "framebuffer") :
            fbmem = IF \E v \in Of(info, "vbe") : v < k /\ info[v].mode.XResolution > 0
                    THEN info[k].addr ELSE 0
      BY Zenon, <3>3, <3>4 DEF FrameRead
    <3> QED BY Zenon, <3>3, <3>4, <3>5, <3>6 DEF HeapRead, IsHeap
  <2> QED BY Zenon, <2>1, <2>2 DEF BootInfoRead
<1> QED BY <1>1, WalkInvariance, PTL

(* main and the Lua program use the allocator as module Heap allows, from  *)
(* a pool of any size: all that is proved of the allocator holds here.     *)
THEOREM MemoryImplementsHeap == Spec => HeapSpec
<1>1. Init => HeapInit
  BY Zenon DEF Init
<1>2. WalkInv /\ [Next]_vars => [HeapNext]_heap_vars
  <2> SUFFICES ASSUME WalkInv, [Next]_vars PROVE [HeapNext]_heap_vars
    BY Zenon
  <2>1. CASE ReadTag \/ EndTag \/ ConfigStray \/ UNCHANGED vars \/ Stopped
    BY Zenon, <2>1 DEF ReadTag, EndTag, ConfigStray, Stopped, vars
  <2>2. CASE ConfigHeap
    BY Zenon, <2>2, HandoverInMemory DEF ConfigHeap, WalkInv, HeapNext
  <2>3. CASE NewState
    BY Zenon, <2>3, AddressesAssumption DEF NewState, LAlloc, HeapNext, UseHeap
  <2>4. CASE OpenLibsFails
    BY Zenon, <2>4 DEF OpenLibsFails, Refuse
  <2>5. CASE NewUserdata
    <3> DEFINE n == display_buffer_len + UdataSize
    <3>1. 2 \in Ids /\ n \in Sizes
      BY Zenon, AddressesAssumption DEF WalkInv, BufferOK
    <3>2. LAlloc(2, n)
      BY Zenon, <2>5 DEF NewUserdata, LAlloc
    <3> HIDE DEF n
    <3> QED BY Zenon, <3>1, <3>2 DEF HeapNext, UseHeap
  <2>6. CASE Loops
    BY Zenon, <2>6 DEF Loops, HeapNext, UseHeap
  <2>7. CASE Run
    BY Zenon, <2>7 DEF Run, HeapNext, UseHeap
  <2> QED BY Zenon, <2>1, <2>2, <2>3, <2>4, <2>5, <2>6, <2>7 DEF Next
<1> QED BY <1>1, <1>2, WalkInvariance, PTL DEF Spec, HeapSpec

=============================================================================
