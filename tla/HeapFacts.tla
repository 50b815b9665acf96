----------------------------- MODULE HeapFacts -------------------------------
(***************************************************************************)
(* Proofs about Heap, for every pool, every limit and every set of sizes.  *)
(*                                                                         *)
(* The argument.  The blocks tile the pool: they start at multiples of     *)
(* their size, do not overlap and leave no gap.  Splitting, joining and    *)
(* adding a block keep a tiling (the lemmas on tilings).  Every block is   *)
(* free, held by Lua or in hand, and its control byte says so.  Hence the  *)
(* control byte that memsys5FreeUnsafe finds at the buddy of its block is  *)
(* that of a block, never one left over from earlier: were the buddy       *)
(* inside a larger block, that block would reach into the one in hand      *)
(* (lemma BuddyIsABlock).                                                  *)
(***************************************************************************)
EXTENDS Heap, TLAPS, WellFoundedInduction

Aligned(b, k) == \E q \in Nat : b = q * Size(k)

Apart(x, y) == x[1] + Size(x[2]) <= y[1] \/ y[1] + Size(y[2]) <= x[1]

Covers(x, a) == x[1] <= a /\ a < x[1] + Size(x[2])

(* The blocks of B tile the first e atoms.                                 *)
Tiling(B, e) ==
  /\ \A x \in B : Aligned(x[1], x[2]) /\ x[1] + Size(x[2]) <= e
  /\ \A x, y \in B : x # y => Apart(x, y)
  /\ \A a \in 0 .. e - 1 : \E x \in B : Covers(x, a)

(* What is divided so far.                                                 *)
Extent == IF hpc \in {"off", "init"} THEN cur ELSE nBlock

InHand == hpc \in {"split", "merge"}

Distinct(s) == \A m, n \in DOMAIN s : m # n => s[m] # s[n]

(* The lists hold free blocks of their size, each once.                    *)
ListsOK ==
  \A k \in Logs :
    /\ Distinct(aiFreelist[k])
    /\ \A b \in FreeBlocks(k) :
         /\ <<b, k>> \in blocks
         /\ aCtrl[b] = [free |-> TRUE, log |-> k]
         /\ InHand => b # cur

(* What Lua holds are blocks that are not free, each held once.            *)
HeldOK ==
  \A i \in Ids : ptr[i] # NULL =>
    /\ <<ptr[i], aCtrl[ptr[i]].log>> \in blocks
    /\ ~aCtrl[ptr[i]].free
    /\ \A j \in Ids \ {i} : ptr[j] # ptr[i]
    /\ InHand => ptr[i] # cur

(* No block is forgotten.                                                  *)
AccountedOK ==
  \A x \in blocks :
    \/ x[1] \in FreeBlocks(x[2])
    \/ \E i \in Ids : ptr[i] = x[1] /\ aCtrl[x[1]].log = x[2]
    \/ InHand /\ x = <<cur, bin>>

JoinedOK ==
  \A k \in 0 .. LOGMAX - 1 : \A b \in FreeBlocks(k) : Buddy(b, k) \notin FreeBlocks(k)

(* The loops' own invariants.                                              *)
LoopsOK ==
  /\ hpc = "off" => cur = 0 /\ blocks = {} /\ \A k \in Logs : aiFreelist[k] = <<>>
  /\ hpc \in {"off", "init"} => \A i \in Ids : ptr[i] = NULL
  /\ hpc = "init" =>
       /\ Aligned(cur, bin)
       /\ nBlock < cur + 2 * Size(bin)
       /\ \A k \in 0 .. bin : aiFreelist[k] = <<>>
  /\ InHand => <<cur, bin>> \in blocks
  /\ hpc = "merge" => aCtrl[cur] = [free |-> TRUE, log |-> bin]
  /\ hpc = "split" =>
       /\ call.id \in Ids /\ call.n \in Sizes /\ ToInt(call.n) = call.n % (2 * IntLimit)
       /\ ToInt(call.n) \in Nat /\ ToInt(call.n) <= AllocLimit /\ LogOf(ToInt(call.n)) <= bin

SizesOK == AsLargeAsAsked /\ \A i \in Ids : asked[i] % (2 * IntLimit) <= AllocLimit

Core ==
  /\ Tiling(blocks, Extent)
  /\ ListsOK /\ HeldOK /\ AccountedOK /\ JoinedOK /\ LoopsOK
  /\ DataIntact /\ SizesOK

HeapInv == HeapTypeOK /\ (hpc # "dangling" => Core)

-----------------------------------------------------------------------------
(* Arithmetic.                                                             *)

(* Multiplication is monotonic.                                            *)
LEMMA MulMono ==
  ASSUME NEW d \in Nat, NEW q \in Int, NEW r \in Int, q <= r
  PROVE  q * d <= r * d
  BY SMT

(* Between two successive multiples of d there is none.                    *)
LEMMA NoneBetween ==
  ASSUME NEW d \in Nat \ {0}, NEW q \in Int, NEW r \in Int
  PROVE  ~(q * d < r * d /\ r * d < q * d + d)
<1>1. CASE q >= r
  BY <1>1, MulMono
<1>2. CASE q < r
  BY <1>2, MulMono
<1> QED BY <1>1, <1>2

(* Division undoes multiplication.                                         *)
LEMMA DivMul ==
  ASSUME NEW d \in Nat \ {0}, NEW q \in Nat
  PROVE  (q * d) \div d = q
  BY SMT

(* A set of numbers that is not empty has a least element.                 *)
LEMMA Least ==
  ASSUME NEW T, T \subseteq Nat, T # {}
  PROVE  \E x \in T : \A y \in T : x <= y
<1>1. PICK x \in T : \A y \in T : ~ (<<y, x>> \in OpToRel(<, Nat))
  BY Zenon, NatLessThanWellFounded, WFMin
<1>2. ASSUME NEW y \in T, y < x PROVE FALSE
  BY Zenon, <1>1, <1>2 DEF OpToRel
<1>3. ASSUME NEW y \in T PROVE x <= y
  BY <1>2
<1> QED BY Zenon, <1>3

(* The limits are numbers.                                                 *)
LEMMA LimitFacts ==
  /\ szAtom \in Nat \ {0} /\ AllocLimit \in Nat /\ IntLimit \in Nat
  /\ AllocLimit < IntLimit
  /\ \A n \in Sizes : n \in Nat \ {0}
<1>1. \A n \in Sizes : n \in Nat \ {0}
  BY Zenon, LimitsAssumption
<1> QED BY <1>1, LimitsAssumption

(* The int made of a size: positive, it is the size modulo 2^32.           *)
LEMMA IntFacts ==
  ASSUME NEW n \in Nat
  PROVE  /\ ToInt(n) > 0 => ToInt(n) = n % (2 * IntLimit) /\ ToInt(n) \in Nat \ {0}
         /\ n < IntLimit => ToInt(n) = n
         /\ n < 2 * IntLimit => n % (2 * IntLimit) = n
<1> DEFINE m == 2 * IntLimit
           low == n % m
<1>1. m \in Nat \ {0} /\ IntLimit \in Nat
  BY LimitFacts
<1> HIDE DEF m
<1>2. low \in Nat /\ low < m /\ (n < m => low = n)
  BY <1>1
<1>3. ToInt(n) = IF low >= IntLimit THEN low - m ELSE low
  BY Zenon DEF ToInt, m
<1> HIDE DEF low
<1>4. /\ ToInt(n) > 0 => ToInt(n) = low /\ ToInt(n) \in Nat \ {0}
      /\ n < IntLimit => ToInt(n) = n
  BY <1>1, <1>2, <1>3 DEF m
<1> QED BY Zenon, <1>2, <1>4 DEF low, m

(* The sizes of blocks are positive, and each is twice the one before.     *)
LEMMA SizeFacts ==
  /\ LOGMAX \in Nat
  /\ \A k \in 0 .. LOGMAX + 1 : Size(k) \in Nat \ {0}
  /\ \A k \in Logs : k + 1 \in 0 .. LOGMAX + 1 /\ Size(k + 1) = 2 * Size(k)
<1>0. LOGMAX \in Nat
  BY Zenon, LimitsAssumption
<1> DEFINE T == {m \in 0 .. LOGMAX + 1 : Size(m) \notin Nat \ {0}}
<1>1. ASSUME T # {} PROVE FALSE
  <2>1. T \subseteq Nat
    BY <1>0
  <2>2. PICK m \in T : \A y \in T : m <= y
    BY Zenon, <1>1, <2>1, Least
  <2>3. m - 1 \in Logs /\ m - 1 \notin T /\ (m - 1) + 1 = m
    BY <1>0, <2>2, PowersAssumption DEF Logs
  <2>4. Size(m) = 2 * Size(m - 1)
    BY Zenon, <2>3, PowersAssumption
  <2> QED BY <1>0, <2>2, <2>3, <2>4 DEF Logs
<1>2. \A k \in Logs : k + 1 \in 0 .. LOGMAX + 1
  BY <1>0 DEF Logs
<1> QED BY Zenon, <1>0, <1>1, <1>2, PowersAssumption

(* A size divides every larger one.                                        *)
LEMMA Divides ==
  ASSUME NEW j \in 0 .. LOGMAX + 1, NEW k \in 0 .. LOGMAX + 1, j <= k
  PROVE  \E c \in Nat : Size(k) = c * Size(j)
<1> DEFINE T == {m \in j .. LOGMAX + 1 : ~ \E c \in Nat : Size(m) = c * Size(j)}
<1>0. LOGMAX \in Nat /\ T \subseteq Nat
  BY LimitsAssumption
<1>1. ASSUME T # {} PROVE FALSE
  <2>1. PICK m \in T : \A y \in T : m <= y
    BY Zenon, <1>0, <1>1, Least
  <2>2. m - 1 \in j .. LOGMAX + 1 /\ m - 1 \notin T /\ m - 1 \in Logs /\ (m - 1) + 1 = m
    BY <1>0, <2>1, SizeFacts DEF Logs
  <2>3. PICK c \in Nat : Size(m - 1) = c * Size(j)
    BY Zenon, <2>2
  <2>4. Size(j) \in Nat
    BY Zenon, SizeFacts
  <2>5. Size(m) = (2 * c) * Size(j)
    BY <2>2, <2>3, <2>4, SizeFacts
  <2> QED BY <2>1, <2>5
<1> QED BY <1>0, <1>1

(* A request within the limit has a size that is large enough, and the     *)
(* next smaller one is not.                                                *)
LEMMA LogOfFits ==
  ASSUME NEW n \in Nat, n <= AllocLimit
  PROVE  /\ LogOf(n) \in Logs
         /\ n <= szAtom * Size(LogOf(n))
         /\ \A j \in 0 .. LogOf(n) - 1 : szAtom * Size(j) < n
<1> DEFINE T == {k \in Logs : n <= szAtom * Size(k)}
<1>0. LOGMAX \in Nat /\ T \subseteq Nat
  BY LimitsAssumption DEF Logs
<1>1. LOGMAX \in T
  BY <1>0, LimitsAssumption, SizeFacts DEF Logs
<1>2. PICK k \in T : \A y \in T : k <= y
  BY Zenon, <1>0, <1>1, Least
<1>3. ASSUME NEW j \in 0 .. k - 1 PROVE szAtom * Size(j) < n
  BY <1>0, <1>2, LimitsAssumption, SizeFacts DEF Logs
<1> QED BY Zenon, <1>2, <1>3 DEF LogOf

(* Larger powers are larger.                                               *)
LEMMA SizeMono ==
  ASSUME NEW j \in Logs, NEW k \in Logs, j <= k
  PROVE  Size(j) <= Size(k)
<1>1. j \in 0 .. LOGMAX + 1 /\ k \in 0 .. LOGMAX + 1
  BY SizeFacts DEF Logs
<1>2. Size(j) \in Nat \ {0} /\ Size(k) \in Nat \ {0}
  BY Zenon, <1>1, SizeFacts
<1>3. PICK c \in Nat : Size(k) = c * Size(j)
  BY Zenon, <1>1, Divides
<1>4. 1 * Size(j) <= c * Size(j)
  BY <1>2, <1>3, MulMono
<1> QED BY <1>2, <1>3, <1>4

(* A block whose logarithm is large enough is large enough.                *)
LEMMA LargeEnough ==
  ASSUME NEW n \in Nat, n <= AllocLimit, NEW k \in Logs, LogOf(n) <= k
  PROVE  n <= szAtom * Size(k)
<1>1. LogOf(n) \in Logs /\ n <= szAtom * Size(LogOf(n))
  BY Zenon, LogOfFits
<1>2. Size(LogOf(n)) \in Nat /\ Size(k) \in Nat /\ szAtom \in Nat
  BY <1>1, SizeFacts, LimitFacts DEF Logs
<1>3. Size(LogOf(n)) * szAtom <= Size(k) * szAtom
  BY <1>1, <1>2, MulMono, SizeMono
<1> QED BY <1>1, <1>2, <1>3

-----------------------------------------------------------------------------
(* Tilings.                                                                *)

(* Halving a block of a tiling gives a tiling.                             *)
LEMMA SplitTiling ==
  ASSUME NEW B, B \subseteq Nat \X Logs, NEW e \in Nat, Tiling(B, e),
         NEW c, NEW k \in Logs, <<c, k + 1>> \in B
  PROVE  Tiling((B \ {<<c, k + 1>>}) \cup {<<c, k>>, <<c + Size(k), k>>}, e)
<1> DEFINE C == (B \ {<<c, k + 1>>}) \cup {<<c, k>>, <<c + Size(k), k>>}
<1>0. /\ c \in Nat /\ k \in Nat /\ Size(k) \in Nat \ {0}
      /\ Size(k + 1) = 2 * Size(k)
      /\ \A x \in B : x[1] \in Nat /\ x[2] \in Logs /\ Size(x[2]) \in Nat \ {0}
  BY SizeFacts DEF Logs
<1>1. ASSUME NEW x \in C PROVE Aligned(x[1], x[2]) /\ x[1] + Size(x[2]) <= e
  <2>1. CASE x \in B
    BY Zenon, <2>1 DEF Tiling
  <2>2. PICK q \in Nat : c = q * Size(k + 1)
    BY Zenon DEF Tiling, Aligned
  <2>3. c = (2 * q) * Size(k) /\ c + Size(k) = (2 * q + 1) * Size(k)
    BY <1>0, <2>2
  <2>4. Aligned(c, k) /\ Aligned(c + Size(k), k)
    BY <2>3, 2 * q \in Nat, 2 * q + 1 \in Nat DEF Aligned
  <2>5. c + Size(k + 1) <= e
    BY Zenon DEF Tiling
  <2>6. CASE x = <<c, k>>
    BY <1>0, <2>4, <2>5, <2>6
  <2>7. CASE x = <<c + Size(k), k>>
    BY <1>0, <2>4, <2>5, <2>7
  <2> QED BY Zenon, <2>1, <2>6, <2>7
<1>2. ASSUME NEW x \in B, x # <<c, k + 1>>
      PROVE  Apart(x, <<c, k>>) /\ Apart(x, <<c + Size(k), k>>)
  BY <1>0, <1>2 DEF Tiling, Apart
<1>3. ASSUME NEW x \in C, NEW y \in C, x # y PROVE Apart(x, y)
  <2>1. CASE x \in B /\ y \in B
    BY Zenon, <2>1, <1>3 DEF Tiling
  <2>2. CASE x \notin B \/ y \notin B
    BY <1>0, <1>2, <1>3, <2>2 DEF Apart
  <2> QED BY Zenon, <2>1, <2>2
<1>4. ASSUME NEW a \in 0 .. e - 1 PROVE \E x \in C : Covers(x, a)
  <2>1. PICK x \in B : Covers(x, a)
    BY Zenon DEF Tiling
  <2>2. CASE x # <<c, k + 1>>
    BY Zenon, <2>1, <2>2
  <2>3. CASE x = <<c, k + 1>>
    <3>1. Covers(<<c, k>>, a) \/ Covers(<<c + Size(k), k>>, a)
      BY <1>0, <2>1, <2>3 DEF Covers
    <3> QED BY Zenon, <3>1
  <2> QED BY Zenon, <2>2, <2>3
<1> QED BY Zenon, <1>1, <1>3, <1>4 DEF Tiling

(* Joining two halves of a tiling gives a tiling.                          *)
LEMMA JoinTiling ==
  ASSUME NEW B, B \subseteq Nat \X Logs, NEW e \in Nat, Tiling(B, e),
         NEW c, NEW k \in Logs, k + 1 \in Logs, Aligned(c, k + 1),
         <<c, k>> \in B, <<c + Size(k), k>> \in B
  PROVE  Tiling((B \ {<<c, k>>, <<c + Size(k), k>>}) \cup {<<c, k + 1>>}, e)
<1> DEFINE low == <<c, k>>
           high == <<c + Size(k), k>>
           both == <<c, k + 1>>
           C == (B \ {low, high}) \cup {both}
<1>0. /\ c \in Nat /\ k \in Nat /\ Size(k) \in Nat \ {0}
      /\ Size(k + 1) = 2 * Size(k)
      /\ \A x \in B : x[1] \in Nat /\ x[2] \in Logs /\ Size(x[2]) \in Nat \ {0}
  BY SizeFacts DEF Logs
<1>1. ASSUME NEW x \in C PROVE Aligned(x[1], x[2]) /\ x[1] + Size(x[2]) <= e
  <2>1. CASE x \in B
    BY Zenon, <2>1 DEF Tiling
  <2>2. CASE x = both
    BY <1>0, <2>2 DEF Tiling
  <2> QED BY Zenon, <2>1, <2>2
<1>2. ASSUME NEW x \in B, x # low, x # high PROVE Apart(x, both)
  <2>1. Apart(x, low) /\ Apart(x, high)
    BY Zenon, <1>2 DEF Tiling
  <2> QED BY <1>0, <2>1 DEF Apart
<1>3. ASSUME NEW x \in C, NEW y \in C, x # y PROVE Apart(x, y)
  <2>1. CASE x \in B /\ x # both /\ y \in B /\ y # both
    BY Zenon, <2>1, <1>3 DEF Tiling
  <2>2. CASE x = both \/ y = both
    BY Zenon, <1>2, <1>3, <2>2 DEF Apart
  <2> QED BY Zenon, <2>1, <2>2
<1>4. ASSUME NEW a \in 0 .. e - 1 PROVE \E x \in C : Covers(x, a)
  <2>1. PICK x \in B : Covers(x, a)
    BY Zenon DEF Tiling
  <2>2. CASE x # low /\ x # high
    BY Zenon, <2>1, <2>2
  <2>3. CASE x = low \/ x = high
    <3>1. Covers(both, a)
      BY <1>0, <2>1, <2>3 DEF Covers
    <3> QED BY Zenon, <3>1
  <2> QED BY Zenon, <2>2, <2>3
<1> QED BY Zenon, <1>1, <1>3, <1>4 DEF Tiling

(* Adding a block at the end gives a longer tiling.                        *)
LEMMA ExtendTiling ==
  ASSUME NEW B, B \subseteq Nat \X Logs, NEW e \in Nat, Tiling(B, e),
         NEW k \in Logs, Aligned(e, k)
  PROVE  Tiling(B \cup {<<e, k>>}, e + Size(k))
<1>0. /\ Size(k) \in Nat \ {0}
      /\ \A x \in B : x[1] \in Nat /\ x[2] \in Logs /\ Size(x[2]) \in Nat \ {0}
  BY SizeFacts DEF Logs
<1> DEFINE C == B \cup {<<e, k>>}
<1>1. ASSUME NEW x \in B PROVE x[1] + Size(x[2]) <= e /\ Aligned(x[1], x[2])
  BY Zenon DEF Tiling
<1>2. ASSUME NEW x \in C, NEW y \in C, x # y PROVE Apart(x, y)
  <2>1. CASE x \in B /\ y \in B
    BY Zenon, <2>1, <1>2 DEF Tiling
  <2>2. CASE x = <<e, k>> /\ y \in B
    BY Zenon, <2>2, <1>0, <1>1 DEF Apart
  <2>3. CASE y = <<e, k>> /\ x \in B
    BY Zenon, <2>3, <1>0, <1>1 DEF Apart
  <2> QED BY Zenon, <1>2, <2>1, <2>2, <2>3
<1>3. ASSUME NEW a \in 0 .. (e + Size(k)) - 1 PROVE \E x \in C : Covers(x, a)
  <2>1. CASE a < e
    BY <1>0, <2>1 DEF Tiling
  <2>2. CASE ~(a < e)
    <3>1. Covers(<<e, k>>, a)
      BY <1>0, <2>2 DEF Covers
    <3> QED BY Zenon, <3>1
  <2> QED BY Zenon, <2>1, <2>2
<1> QED BY <1>0, <1>1, <1>2, <1>3 DEF Tiling

(* A block and its buddy are the two halves of a block.                    *)
LEMMA BuddyHalves ==
  ASSUME NEW b, NEW k \in Logs, Aligned(b, k)
  PROVE  /\ Buddy(b, k) \in Nat /\ Buddy(b, k) # b
         /\ Buddy(Buddy(b, k), k) = b
         /\ \E c \in Nat : /\ Aligned(c, k + 1)
                           /\ \/ b = c /\ Buddy(b, k) = c + Size(k)
                              \/ b = c + Size(k) /\ Buddy(b, k) = c
<1>0. k \in Nat /\ Size(k) \in Nat \ {0} /\ Size(k + 1) = 2 * Size(k)
  BY SizeFacts DEF Logs
<1>1. PICK q \in Nat : b = q * Size(k)
  BY Zenon DEF Aligned
<1>2. b \div Size(k) = q
  BY Zenon, <1>0, <1>1, DivMul
<1>3. CASE q % 2 = 1
  <2>1. PICK p \in Nat : q = 2 * p + 1
    BY <1>3
  <2>2. b = (2 * p) * Size(k) + Size(k)
    BY <1>0, <1>1, <2>1
  <2> DEFINE c == (2 * p) * Size(k)
  <2>3. c \in Nat /\ c = p * Size(k + 1) /\ 2 * p \in Nat
    BY <1>0
  <2>4. Buddy(c, k) = c + Size(k)
    BY <1>0, <2>3, DivMul DEF Buddy
  <2>5. Aligned(c, k + 1)
    BY Zenon, <2>3 DEF Aligned
  <2> HIDE DEF c
  <2> QED BY <1>0, <1>2, <1>3, <2>2, <2>3, <2>4, <2>5 DEF c, Buddy
<1>4. CASE q % 2 = 0
  <2>1. PICK p \in Nat : q = 2 * p
    BY <1>4
  <2>2. b \in Nat /\ b = p * Size(k + 1) /\ b + Size(k) = (2 * p + 1) * Size(k) /\ 2 * p + 1 \in Nat
    BY <1>0, <1>1, <2>1
  <2>3. (2 * p + 1) % 2 = 1
    OBVIOUS
  <2>4. Buddy(b + Size(k), k) = b
    BY <1>0, <2>2, <2>3, DivMul DEF Buddy
  <2>5. Aligned(b, k + 1)
    BY Zenon, <2>2 DEF Aligned
  <2> QED BY <1>0, <1>2, <1>4, <2>2, <2>4, <2>5 DEF Buddy
<1> QED BY <1>3, <1>4

(* The buddy of a block of a tiling, if it lies in the pool, is the start  *)
(* of a block.                                                             *)
LEMMA BuddyIsABlock ==
  ASSUME NEW B, B \subseteq Nat \X Logs, NEW e \in Nat, Tiling(B, e),
         NEW b, NEW k \in Logs, <<b, k>> \in B, Buddy(b, k) + Size(k) <= e
  PROVE  \E x \in B : x[1] = Buddy(b, k)
<1> DEFINE o == Buddy(b, k)
<1>0. /\ b \in Nat /\ k \in Nat /\ Size(k) \in Nat \ {0}
      /\ Size(k + 1) = 2 * Size(k) /\ k + 1 \in 0 .. LOGMAX + 1
      /\ LOGMAX \in Nat
  BY SizeFacts DEF Logs
<1>1. Aligned(b, k)
  BY Zenon DEF Tiling
<1>2. o \in Nat /\ o # b
  BY Zenon, <1>1, BuddyHalves
<1>3. PICK c \in Nat : /\ Aligned(c, k + 1)
                       /\ \/ b = c /\ o = c + Size(k)
                          \/ b = c + Size(k) /\ o = c
  BY <1>1, BuddyHalves
<1> HIDE DEF o
<1>4. PICK x \in B : Covers(x, o)
  BY <1>0, <1>2 DEF Tiling, o
<1>5. x[1] \in Nat /\ x[2] \in Logs /\ Size(x[2]) \in Nat \ {0} /\ x[2] \in 0 .. LOGMAX + 1
  BY SizeFacts DEF Logs
<1>6. PICK q \in Nat : x[1] = q * Size(x[2])
  BY Zenon DEF Tiling, Aligned
<1>7. ASSUME x[1] # o PROVE FALSE
  <2>1. x[1] < o /\ o < x[1] + Size(x[2])
    BY <1>2, <1>4, <1>5, <1>7 DEF Covers
  <2>2. CASE x[2] <= k
    <3>1. PICK m \in Nat : Size(k) = m * Size(x[2])
      BY <1>0, <1>5, <2>2, Divides DEF Logs
    <3>2. Aligned(o, k)
      <4>1. PICK r \in Nat : c = r * Size(k + 1)
        BY Zenon, <1>3 DEF Aligned
      <4>2. c = (2 * r) * Size(k) /\ c + Size(k) = (2 * r + 1) * Size(k)
        BY <1>0, <4>1
      <4> QED BY <1>3, <4>2 DEF Aligned
    <3>3. PICK s \in Nat : o = s * Size(k)
      BY Zenon, <3>2 DEF Aligned
    <3> QED BY <1>5, <1>6, <2>1, <3>1, <3>3, NoneBetween
  <2>3. CASE k < x[2]
    <3>1. PICK m \in Nat : Size(x[2]) = m * Size(k + 1)
      BY <1>0, <1>5, <2>3, Divides DEF Logs
    <3>2. PICK r \in Nat : c = r * Size(k + 1)
      BY Zenon, <1>3 DEF Aligned
    <3> DEFINE d == Size(k + 1)
    <3>3. d \in Nat \ {0} /\ d = 2 * Size(k)
      BY <1>0
    <3>4. x[1] = (q * m) * d /\ q * m \in Nat
      BY <1>6, <3>1, <3>3
    <3>5. x[1] + Size(x[2]) = (q * m + m) * d /\ q * m + m \in Nat
      BY <1>6, <3>1, <3>3, <3>4
    <3>6. c = r * d
      BY Zenon, <3>2
    <3> HIDE DEF d
    <3>7. x[1] <= c
      <4>1. ~(c < x[1] /\ x[1] < c + d)
        BY <3>3, <3>4, <3>6, NoneBetween
      <4> QED BY <1>0, <1>3, <1>5, <2>1, <3>3, <4>1
    <3>8. c + d <= x[1] + Size(x[2])
      <4>1. ~(c < x[1] + Size(x[2]) /\ x[1] + Size(x[2]) < c + d)
        BY <3>3, <3>5, <3>6, NoneBetween
      <4> QED BY <1>0, <1>3, <1>5, <2>1, <3>3, <4>1
    <3>9. Apart(x, <<b, k>>)
      BY <1>0, <2>3 DEF Tiling
    <3> QED BY <1>0, <1>3, <1>5, <3>3, <3>7, <3>8, <3>9 DEF Apart
  <2> QED BY <1>0, <1>5, <2>2, <2>3
<1> QED BY Zenon, <1>4, <1>7 DEF o

-----------------------------------------------------------------------------
(* Lists.                                                                  *)

(* memsys5Link adds a block in front of one list.                          *)
LEMMA LinkFacts ==
  ASSUME NEW S, NEW lists \in [Logs -> Seq(S)], NEW b \in S, NEW k \in Logs
  PROVE  /\ Link(lists, b, k) \in [Logs -> Seq(S)]
         /\ b \in Elems(Link(lists, b, k)[k])
         /\ \A x \in Elems(lists[k]) : x \in Elems(Link(lists, b, k)[k])
         /\ \A x \in Elems(Link(lists, b, k)[k]) : x # b => x \in Elems(lists[k])
         /\ \A j \in Logs \ {k} : Link(lists, b, k)[j] = lists[j]
         /\ Distinct(lists[k]) /\ b \notin Elems(lists[k]) => Distinct(Link(lists, b, k)[k])
<1> DEFINE s == lists[k]
           t == <<b>> \o s
<1>1. s \in Seq(S) /\ t \in Seq(S) /\ Len(t) = Len(s) + 1 /\ Len(s) \in Nat
  OBVIOUS
<1>2. t[1] = b /\ \A n \in 1 .. Len(s) : t[n + 1] = s[n]
  OBVIOUS
<1>3. \A n \in 2 .. Len(t) : n - 1 \in 1 .. Len(s) /\ t[n] = s[n - 1]
  OBVIOUS
<1>4. DOMAIN s = 1 .. Len(s) /\ DOMAIN t = 1 .. Len(s) + 1
  BY <1>1
<1>5. Link(lists, b, k) = [lists EXCEPT ![k] = t]
  BY Zenon DEF Link
<1> HIDE DEF s, t
<1>6. Elems(t) = {b} \cup Elems(s)
  <2>1. ASSUME NEW x \in Elems(t) PROVE x \in {b} \cup Elems(s)
    <3>1. PICK n \in 1 .. Len(s) + 1 : x = t[n]
      BY Zenon, <1>4 DEF Elems
    <3>2. CASE n = 1
      BY Zenon, <1>2, <3>1, <3>2
    <3>3. CASE n # 1
      <4>1. n - 1 \in DOMAIN s /\ x = s[n - 1]
        BY <1>1, <1>3, <1>4, <3>1, <3>3
      <4> QED BY Zenon, <4>1 DEF Elems
    <3> QED BY Zenon, <3>2, <3>3
  <2>2. ASSUME NEW x \in Elems(s) PROVE x \in Elems(t)
    <3>1. PICK n \in 1 .. Len(s) : x = s[n]
      BY Zenon, <1>4 DEF Elems
    <3> QED BY <1>1, <1>2, <1>4, <3>1 DEF Elems
  <2>3. b \in Elems(t)
    BY <1>1, <1>2, <1>4 DEF Elems
  <2> QED BY Zenon, <2>1, <2>2, <2>3
<1>7. ASSUME Distinct(s), b \notin Elems(s) PROVE Distinct(t)
  <2>1. \A n \in 2 .. Len(t) : n - 1 \in DOMAIN s /\ t[n] = s[n - 1] /\ t[n] # b
    BY Zenon, <1>1, <1>3, <1>4, <1>7 DEF Elems
  <2>2. ASSUME NEW m \in DOMAIN t, NEW n \in DOMAIN t, m # n PROVE t[m] # t[n]
    <3>1. /\ m # 1 => m \in 2 .. Len(t) /\ m \in Nat
          /\ n # 1 => n \in 2 .. Len(t) /\ n \in Nat
      BY <1>1, <1>4
    <3>2. CASE m = 1 \/ n = 1
      BY Zenon, <1>2, <2>1, <2>2, <3>1, <3>2
    <3>3. CASE m # 1 /\ n # 1
      BY <1>7, <2>1, <2>2, <3>1, <3>3 DEF Distinct
    <3> QED BY Zenon, <3>2, <3>3
  <2> QED BY Zenon, <2>2 DEF Distinct
<1> QED BY Zenon, <1>1, <1>5, <1>6, <1>7 DEF s

(* Taking the first block of a list.                                       *)
LEMMA TailFacts ==
  ASSUME NEW S, NEW s \in Seq(S), s # <<>>, Distinct(s)
  PROVE  /\ Head(s) \in Elems(s)
         /\ Tail(s) \in Seq(S) /\ Distinct(Tail(s))
         /\ Head(s) \notin Elems(Tail(s))
         /\ \A x \in Elems(Tail(s)) : x \in Elems(s)
         /\ \A x \in Elems(s) : x # Head(s) => x \in Elems(Tail(s))
<1>1. Len(s) \in Nat /\ Len(s) > 0 /\ DOMAIN s = 1 .. Len(s) /\ Head(s) = s[1]
  OBVIOUS
<1>2. Tail(s) \in Seq(S) /\ DOMAIN Tail(s) = 1 .. Len(s) - 1
  OBVIOUS
<1>3. \A n \in 1 .. Len(s) - 1 : Tail(s)[n] = s[n + 1]
  OBVIOUS
<1>4. ASSUME NEW x \in Elems(Tail(s)) PROVE x \in Elems(s) \ {Head(s)}
  <2>1. PICK n \in 1 .. Len(s) - 1 : x = s[n + 1]
    BY Zenon, <1>2, <1>3 DEF Elems
  <2> QED BY <1>1, <2>1 DEF Elems, Distinct
<1>5. ASSUME NEW x \in Elems(s) \ {Head(s)} PROVE x \in Elems(Tail(s))
  <2>1. PICK n \in 1 .. Len(s) : x = s[n]
    BY Zenon, <1>1 DEF Elems
  <2>2. n - 1 \in 1 .. Len(s) - 1 /\ Tail(s)[n - 1] = x
    BY <1>1, <1>3, <2>1
  <2> QED BY Zenon, <1>2, <2>2 DEF Elems
<1>6. Head(s) \in Elems(s)
  BY <1>1 DEF Elems
<1> QED BY <1>1, <1>2, <1>3, <1>4, <1>5, <1>6 DEF Distinct

(* Taking a block out of a list.                                           *)
LEMMA WithoutFacts ==
  ASSUME NEW S, NEW s \in Seq(S), NEW b \in Elems(s), Distinct(s)
  PROVE  /\ Without(s, b) \in Seq(S) /\ Distinct(Without(s, b))
         /\ b \notin Elems(Without(s, b))
         /\ \A x \in Elems(Without(s, b)) : x \in Elems(s)
         /\ \A x \in Elems(s) : x # b => x \in Elems(Without(s, b))
<1> DEFINE p == CHOOSE n \in DOMAIN s : s[n] = b
           w == Without(s, b)
<1>1. Len(s) \in Nat /\ DOMAIN s = 1 .. Len(s)
  OBVIOUS
<1>2. p \in 1 .. Len(s) /\ s[p] = b
  BY Zenon, <1>1 DEF Elems
<1>3. w = [n \in 1 .. Len(s) - 1 |-> IF n < p THEN s[n] ELSE s[n + 1]]
  BY Zenon DEF Without
<1> HIDE DEF p
<1>4. DOMAIN w = 1 .. Len(s) - 1
  BY Zenon, <1>3
<1>5. \A n \in 1 .. Len(s) - 1 : w[n] = IF n < p THEN s[n] ELSE s[n + 1]
  BY Zenon, <1>3
<1> HIDE DEF w
<1>6. Distinct(w)
  <2> DEFINE at(n) == IF n < p THEN n ELSE n + 1
  <2>1. ASSUME NEW m \in 1 .. Len(s) - 1, NEW n \in 1 .. Len(s) - 1, m # n
        PROVE  at(m) \in 1 .. Len(s) /\ at(n) \in 1 .. Len(s) /\ at(m) # at(n)
    BY <1>1, <1>2, <2>1
  <2>2. \A n \in 1 .. Len(s) - 1 : w[n] = s[at(n)]
    BY Zenon, <1>5
  <2> HIDE DEF at
  <2> QED BY Zenon, <1>1, <1>4, <2>1, <2>2 DEF Distinct
<1>7. ASSUME NEW x \in Elems(w) PROVE x \in Elems(s) \ {b}
  <2>1. PICK n \in 1 .. Len(s) - 1 : x = w[n]
    BY Zenon, <1>4 DEF Elems
  <2>2. CASE n < p
    BY <1>1, <1>2, <1>5, <2>1, <2>2 DEF Elems, Distinct
  <2>3. CASE ~(n < p)
    BY <1>1, <1>2, <1>5, <2>1, <2>3 DEF Elems, Distinct
  <2> QED BY Zenon, <2>2, <2>3
<1>8. ASSUME NEW x \in Elems(s) \ {b} PROVE x \in Elems(w)
  <2>1. PICK n \in 1 .. Len(s) : x = s[n]
    BY Zenon, <1>1 DEF Elems
  <2>2. n # p
    BY Zenon, <1>2, <2>1
  <2>3. CASE n < p
    <3>1. n \in 1 .. Len(s) - 1 /\ w[n] = x
      BY <1>1, <1>2, <1>5, <2>1, <2>3
    <3> QED BY Zenon, <1>4, <3>1 DEF Elems
  <2>4. CASE ~(n < p)
    <3>1. n - 1 \in 1 .. Len(s) - 1 /\ w[n - 1] = x
      BY <1>1, <1>2, <1>5, <2>1, <2>2, <2>4
    <3> QED BY Zenon, <1>4, <3>1 DEF Elems
  <2> QED BY Zenon, <1>2, <2>2, <2>3, <2>4
<1> QED BY <1>1, <1>2, <1>3, <1>5, <1>6, <1>7, <1>8 DEF w

-----------------------------------------------------------------------------
(* What the invariant says of blocks, and what steps do to lists.          *)

(* What the types say of a block.                                          *)
LEMMA BlockFacts ==
  ASSUME HeapTypeOK
  PROVE  /\ nBlock \in Nat /\ blocks \subseteq Nat \X Logs
         /\ \A x \in blocks : /\ x[1] \in Atoms /\ x[1] \in Nat /\ x[2] \in Logs
                              /\ x = <<x[1], x[2]>> /\ Size(x[2]) \in Nat \ {0}
<1>1. nBlock \in Nat /\ Atoms \subseteq Nat /\ blocks \subseteq Atoms \X Logs
  BY DEF HeapTypeOK, Atoms
<1>2. ASSUME NEW x \in blocks
      PROVE  x[1] \in Atoms /\ x[1] \in Nat /\ x[2] \in Logs /\ x = <<x[1], x[2]>>
  <2>1. x[1] \in Atoms /\ x[2] \in Logs /\ x = <<x[1], x[2]>>
    BY <1>1
  <2> QED BY Zenon, <1>1, <2>1
<1> QED BY <1>1, <1>2, SizeFacts DEF Logs

(* What linking a block does to the lists.                                 *)
LEMMA LinkStep ==
  ASSUME HeapTypeOK, ListsOK, NEW b \in Atoms, NEW k \in Logs,
         b \notin FreeBlocks(k), aiFreelist' = Link(aiFreelist, b, k)
  PROVE  /\ aiFreelist' \in [Logs -> Seq(Atoms)]
         /\ \A j \in Logs : Distinct(aiFreelist'[j])
         /\ b \in Elems(aiFreelist'[k])
         /\ \A x \in FreeBlocks(k) : x \in Elems(aiFreelist'[k])
         /\ \A x \in Elems(aiFreelist'[k]) : x # b => x \in FreeBlocks(k)
         /\ \A j \in Logs \ {k} : aiFreelist'[j] = aiFreelist[j]
<1> DEFINE lists == Link(aiFreelist, b, k)
<1>1. /\ aiFreelist \in [Logs -> Seq(Atoms)]
      /\ \A j \in Logs : Distinct(aiFreelist[j])
  BY Zenon DEF HeapTypeOK, ListsOK
<1>2. /\ lists \in [Logs -> Seq(Atoms)]
      /\ b \in Elems(lists[k])
      /\ \A x \in Elems(aiFreelist[k]) : x \in Elems(lists[k])
      /\ \A x \in Elems(lists[k]) : x # b => x \in Elems(aiFreelist[k])
      /\ \A j \in Logs \ {k} : lists[j] = aiFreelist[j]
      /\ Distinct(aiFreelist[k]) /\ b \notin Elems(aiFreelist[k]) => Distinct(lists[k])
  BY Zenon, <1>1, LinkFacts
<1> HIDE DEF lists
<1> QED BY Zenon, <1>1, <1>2 DEF FreeBlocks, lists

(* What taking the first block of a list does.                             *)
LEMMA TakeStep ==
  ASSUME HeapTypeOK, ListsOK, NEW k \in Logs, aiFreelist[k] # <<>>,
         aiFreelist' = [aiFreelist EXCEPT ![k] = Tail(@)]
  PROVE  /\ aiFreelist' \in [Logs -> Seq(Atoms)]
         /\ \A j \in Logs : Distinct(aiFreelist'[j])
         /\ Head(aiFreelist[k]) \in FreeBlocks(k)
         /\ Head(aiFreelist[k]) \notin Elems(aiFreelist'[k])
         /\ \A x \in FreeBlocks(k) : x # Head(aiFreelist[k]) => x \in Elems(aiFreelist'[k])
         /\ \A x \in Elems(aiFreelist'[k]) : x \in FreeBlocks(k)
         /\ \A j \in Logs \ {k} : aiFreelist'[j] = aiFreelist[j]
<1> DEFINE s == aiFreelist[k]
<1>1. /\ aiFreelist \in [Logs -> Seq(Atoms)] /\ s \in Seq(Atoms) /\ Distinct(s)
      /\ \A j \in Logs : Distinct(aiFreelist[j])
  BY Zenon DEF HeapTypeOK, ListsOK
<1> HIDE DEF s
<1>2. /\ Head(s) \in Elems(s) /\ Tail(s) \in Seq(Atoms) /\ Distinct(Tail(s))
      /\ Head(s) \notin Elems(Tail(s))
      /\ \A x \in Elems(Tail(s)) : x \in Elems(s)
      /\ \A x \in Elems(s) : x # Head(s) => x \in Elems(Tail(s))
  BY Zenon, <1>1, TailFacts DEF s
<1>3. /\ aiFreelist' \in [Logs -> Seq(Atoms)] /\ aiFreelist'[k] = Tail(s)
      /\ \A j \in Logs \ {k} : aiFreelist'[j] = aiFreelist[j]
  BY Zenon, <1>1, <1>2 DEF s
<1> QED BY Zenon, <1>1, <1>2, <1>3 DEF FreeBlocks, s

(* What unlinking a block does.                                            *)
LEMMA UnlinkStep ==
  ASSUME HeapTypeOK, ListsOK, NEW k \in Logs, NEW b \in FreeBlocks(k),
         aiFreelist' = Unlink(aiFreelist, b, k)
  PROVE  /\ aiFreelist' \in [Logs -> Seq(Atoms)]
         /\ \A j \in Logs : Distinct(aiFreelist'[j])
         /\ b \notin Elems(aiFreelist'[k])
         /\ \A x \in FreeBlocks(k) : x # b => x \in Elems(aiFreelist'[k])
         /\ \A x \in Elems(aiFreelist'[k]) : x \in FreeBlocks(k)
         /\ \A j \in Logs \ {k} : aiFreelist'[j] = aiFreelist[j]
<1> DEFINE s == aiFreelist[k]
           w == Without(s, b)
<1>1. /\ aiFreelist \in [Logs -> Seq(Atoms)] /\ s \in Seq(Atoms) /\ Distinct(s)
      /\ \A j \in Logs : Distinct(aiFreelist[j])
  BY Zenon DEF HeapTypeOK, ListsOK
<1>2. b \in Elems(s)
  BY Zenon DEF FreeBlocks
<1>3. aiFreelist' = [aiFreelist EXCEPT ![k] = w]
  BY Zenon DEF Unlink
<1> HIDE DEF s
<1>4. /\ w \in Seq(Atoms) /\ Distinct(w)
      /\ b \notin Elems(w)
      /\ \A x \in Elems(w) : x \in Elems(s)
      /\ \A x \in Elems(s) : x # b => x \in Elems(w)
  BY Zenon, <1>1, <1>2, WithoutFacts
<1> HIDE DEF w
<1> QED BY Zenon, <1>1, <1>3, <1>4 DEF FreeBlocks, s

(* Two blocks of a tiling do not share an atom, and start differently.     *)
LEMMA SharedAtom ==
  ASSUME NEW B, B \subseteq Nat \X Logs, NEW e \in Nat, Tiling(B, e),
         NEW x \in B, NEW y \in B, NEW a \in Nat, Covers(x, a), Covers(y, a)
  PROVE  x = y
<1>1. x[1] \in Nat /\ y[1] \in Nat /\ Size(x[2]) \in Nat /\ Size(y[2]) \in Nat
  BY SizeFacts DEF Logs
<1>2. ASSUME x # y PROVE FALSE
  BY <1>1, <1>2 DEF Tiling, Apart, Covers
<1> QED BY Zenon, <1>2

(* The halves of a block are each other's buddies.                         *)
LEMMA HalvesAreBuddies ==
  ASSUME NEW c, NEW k \in Logs, Aligned(c, k + 1)
  PROVE  Buddy(c + Size(k), k) = c /\ Buddy(c, k) = c + Size(k)
<1>0. /\ Size(k) \in Nat \ {0} /\ Size(k + 1) = 2 * Size(k) /\ Size(k + 1) \in Nat \ {0}
  BY SizeFacts DEF Logs
<1>1. PICK q \in Nat : c = q * Size(k + 1)
  BY Zenon DEF Aligned
<1>2. Aligned(c, k)
  <2>1. c = (2 * q) * Size(k) /\ 2 * q \in Nat
    BY <1>0, <1>1
  <2> QED BY Zenon, <2>1 DEF Aligned
<1>3. PICK d \in Nat : /\ Aligned(d, k + 1)
                       /\ \/ c = d /\ Buddy(c, k) = d + Size(k)
                          \/ c = d + Size(k) /\ Buddy(c, k) = d
  BY <1>2, BuddyHalves
<1>4. PICK r \in Nat : d = r * Size(k + 1)
  BY Zenon, <1>3 DEF Aligned
<1>5. c # d + Size(k)
  BY <1>0, <1>1, <1>3, <1>4, NoneBetween
<1> QED BY <1>2, <1>3, <1>5, BuddyHalves

(* What is known once the pool is divided.                                 *)
LEMMA DividedFacts ==
  ASSUME HeapTypeOK, Core, hpc \in {"idle", "split", "merge"}
  PROVE  /\ nBlock \in Nat /\ Tiling(blocks, nBlock) /\ blocks \subseteq Nat \X Logs
         /\ \A x, y \in blocks : x[1] = y[1] => x = y
         /\ \A i \in Ids : ptr[i] # NULL =>
              /\ ptr[i] \in Atoms /\ ptr[i] \in Nat /\ aCtrl[ptr[i]] \in Ctrl
              /\ aCtrl[ptr[i]].log \in Logs /\ BlockSize(ptr[i]) \in Nat \ {0}
              /\ <<ptr[i], aCtrl[ptr[i]].log>> \in blocks
              /\ ptr[i] + BlockSize(ptr[i]) <= nBlock
<1>1. nBlock \in Nat /\ Tiling(blocks, nBlock) /\ blocks \subseteq Nat \X Logs
  BY Zenon, BlockFacts DEF Core, Extent
<1>2. ASSUME NEW x \in blocks, NEW y \in blocks, x[1] = y[1] PROVE x = y
  <2>1. Covers(x, x[1]) /\ Covers(y, x[1]) /\ x[1] \in Nat
    BY <1>2, BlockFacts DEF Covers
  <2> QED BY Zenon, <1>1, <2>1, SharedAtom
<1>3. ASSUME NEW i \in Ids, ptr[i] # NULL
      PROVE  /\ ptr[i] \in Atoms /\ ptr[i] \in Nat /\ aCtrl[ptr[i]] \in Ctrl
             /\ aCtrl[ptr[i]].log \in Logs /\ BlockSize(ptr[i]) \in Nat \ {0}
             /\ <<ptr[i], aCtrl[ptr[i]].log>> \in blocks
             /\ ptr[i] + BlockSize(ptr[i]) <= nBlock
  <2>1. ptr[i] \in Atoms /\ ptr[i] \in Nat
    BY <1>3 DEF HeapTypeOK, Atoms
  <2>2. aCtrl[ptr[i]] \in Ctrl /\ aCtrl[ptr[i]].log \in Logs
    BY Zenon, <2>1 DEF HeapTypeOK, Ctrl
  <2>3. <<ptr[i], aCtrl[ptr[i]].log>> \in blocks
    BY Zenon, <1>3 DEF Core, HeldOK
  <2>4. ptr[i] + BlockSize(ptr[i]) <= nBlock
    BY Zenon, <1>1, <2>3 DEF Tiling, BlockSize
  <2> QED BY <2>1, <2>2, <2>3, <2>4, SizeFacts DEF BlockSize, Logs
<1> QED BY Zenon, <1>1, <1>2, <1>3

(* memsys5FreeUnsafe marks its block free and no other.                    *)
LEMMA FreedFacts ==
  ASSUME nBlock \in Nat, NEW ctrl \in [Atoms -> Ctrl], NEW b \in Atoms,
         b + Size(ctrl[b].log) <= nBlock
  PROVE  /\ FreedCtrl(ctrl, b) \in [Atoms -> Ctrl]
         /\ FreedCtrl(ctrl, b)[b] = [free |-> TRUE, log |-> ctrl[b].log]
         /\ \A a \in Atoms : ~Covers(<<b, ctrl[b].log>>, a) => FreedCtrl(ctrl, b)[a] = ctrl[a]
<1> DEFINE k == ctrl[b].log
           e == b + Size(k) - 1
           half == [ctrl EXCEPT ![e].free = TRUE]
<1>1. k \in Logs /\ Size(k) \in Nat \ {0} /\ b \in Nat
  BY SizeFacts DEF Ctrl, Logs, Atoms
<1>2. e \in Atoms /\ Covers(<<b, k>>, e) /\ Covers(<<b, k>>, b)
  BY <1>1 DEF Atoms, Covers
<1>3. FreedCtrl(ctrl, b) = [half EXCEPT ![b] = [free |-> TRUE, log |-> k]]
  BY Zenon DEF FreedCtrl
<1>4. half \in [Atoms -> Ctrl] /\ \A a \in Atoms : a # e => half[a] = ctrl[a]
  <2> HIDE DEF e
  <2> QED BY Zenon, <1>2 DEF Ctrl
<1> HIDE DEF half, e, k
<1>5. /\ FreedCtrl(ctrl, b) \in [Atoms -> Ctrl]
      /\ FreedCtrl(ctrl, b)[b] = [free |-> TRUE, log |-> k]
      /\ \A a \in Atoms : a # b /\ a # e => FreedCtrl(ctrl, b)[a] = ctrl[a]
  BY <1>1, <1>3, <1>4 DEF Ctrl
<1> QED BY Zenon, <1>2, <1>5 DEF k

(* What a freed block held is erased, and nothing else.                    *)
LEMMA ErasedFacts ==
  ASSUME nBlock \in Nat, NEW cells \in [Atoms -> Ids \cup {0}], NEW b \in Nat, NEW k \in Logs
  PROVE  /\ Erased(cells, b, k) \in [Atoms -> Ids \cup {0}]
         /\ \A a \in Atoms : ~Covers(<<b, k>>, a) => Erased(cells, b, k)[a] = cells[a]
<1>1. Size(k) \in Nat
  BY SizeFacts DEF Logs
<1> QED BY <1>1 DEF Erased, Atoms, Covers

-----------------------------------------------------------------------------
(* The invariant before the pool exists, when it is handed over and while it is *)
(* divided.                                                                *)

(* Initially there is nothing.                                             *)
LEMMA InitInv == HeapInit => HeapInv
<1> SUFFICES ASSUME HeapInit PROVE HeapInv
  BY Zenon
<1> USE DEF HeapInit
<1>1. HeapTypeOK
  BY LimitsAssumption DEF Logs, HeapTypeOK, Ctrl, Atoms
<1>2. \A k \in Logs : FreeBlocks(k) = {}
  BY DEF FreeBlocks, Elems
<1>3. ListsOK
  BY <1>2 DEF ListsOK, Distinct
<1>4. JoinedOK
  BY <1>2, LimitsAssumption DEF JoinedOK, Logs
<1>5. SizesOK
  BY LimitsAssumption DEF SizesOK, AsLargeAsAsked
<1>6. HeldOK /\ AccountedOK /\ LoopsOK /\ DataIntact
  BY Zenon DEF HeldOK, AccountedOK, LoopsOK, DataIntact, InHand
<1> QED BY <1>1, <1>3, <1>4, <1>5, <1>6 DEF HeapInv, Core, Tiling, Extent

(* memsys5Init begins with a pool that is not divided.                     *)
LEMMA Memsys5InitStep ==
  ASSUME HeapInv, NEW n \in HeapSizes, Memsys5Init(n)
  PROVE  HeapInv'
<1> USE DEF Memsys5Init
<1>0. /\ HeapTypeOK /\ Core /\ hpc = "off" /\ hpc' = "init"
      /\ blocks = {} /\ \A k \in Logs : aiFreelist[k] = <<>>
      /\ \A i \in Ids : ptr[i] = NULL
  BY Zenon DEF HeapInv, Core, LoopsOK
<1>1. nBlock' \in Nat /\ nBlock' < 2 * Size(LOGMAX)
  <2>1. n \in Nat /\ szAtom + 1 \in Nat \ {0}
    BY LimitsAssumption
  <2>2. AtomsIn(n) \in Nat
    BY <2>1 DEF AtomsIn
  <2> QED BY Zenon, <2>2, LimitsAssumption
<1>2. HeapTypeOK'
  <2>1. aiFreelist' \in [Logs -> Seq(Atoms')]
    BY <1>0 DEF HeapTypeOK, HeapInv
  <2>2. cell' \in [Atoms' -> Ids \cup {0}]
    BY Zenon DEF Atoms
  <2>3. ptr' \in [Ids -> Atoms' \cup {NULL}]
    BY Zenon, <1>0 DEF HeapTypeOK
  <2>4. cur' \in 0 .. nBlock' /\ bin' \in Logs
    BY <1>1, LimitsAssumption DEF Logs
  <2> QED BY Zenon, <1>0, <1>1, <2>1, <2>2, <2>3, <2>4, LimitsAssumption DEF HeapTypeOK, Atoms
<1>3. \A k \in Logs : FreeBlocks(k)' = {}
  BY <1>0 DEF FreeBlocks, Elems
<1>4. ListsOK'
  BY <1>0, <1>3 DEF ListsOK, Distinct
<1>5. JoinedOK'
  BY <1>3, LimitsAssumption DEF JoinedOK, Logs
<1>6. SizesOK'
  BY Zenon, <1>0 DEF Core, SizesOK, AsLargeAsAsked
<1>7. LoopsOK'
  <2>1. nBlock' < 0 + 2 * Size(LOGMAX)
    BY <1>1, SizeFacts
  <2>2. \A k \in 0 .. LOGMAX : aiFreelist'[k] = <<>>
    BY Zenon, <1>0 DEF Logs
  <2> QED BY <1>0, <2>1, <2>2, SizeFacts, 0 = 0 * Size(LOGMAX) DEF LoopsOK, InHand, Aligned
<1>8. HeldOK' /\ AccountedOK' /\ DataIntact'
  BY Zenon, <1>0 DEF HeldOK, AccountedOK, DataIntact
<1> QED BY <1>0, <1>2, <1>4, <1>5, <1>6, <1>7, <1>8 DEF HeapInv, Core, Tiling, Extent

(* Dividing the pool.                                                      *)
LEMMA DivideStep == HeapInv /\ Divide => HeapInv'
<1> SUFFICES ASSUME HeapInv, Divide PROVE HeapInv'
  BY Zenon
<1> USE DEF Divide
<1>0. /\ HeapTypeOK /\ Core /\ hpc = "init" /\ LoopsOK
      /\ hpc' \in {"init", "idle"}
      /\ Aligned(cur, bin) /\ nBlock < cur + 2 * Size(bin)
      /\ \A k \in 0 .. bin : aiFreelist[k] = <<>>
      /\ \A i \in Ids : ptr[i] = NULL
      /\ Extent = cur /\ Tiling(blocks, cur)
  BY Zenon DEF HeapInv, Core, LoopsOK, Extent
<1>1. /\ bin \in Logs /\ bin \in Nat /\ cur \in Nat /\ cur <= nBlock /\ nBlock \in Nat
      /\ Size(bin) \in Nat \ {0} /\ LOGMAX \in Nat /\ bin <= LOGMAX
      /\ blocks \subseteq Nat \X Logs
  <2>1. blocks \subseteq Nat \X Logs
    BY Zenon, <1>0, BlockFacts
  <2> QED BY <1>0, <2>1, SizeFacts DEF Logs, HeapTypeOK
<1>2. FreeBlocks(bin) = {}
  BY <1>0, <1>1 DEF FreeBlocks, Elems
<1>3. CASE Fits(cur, bin)
  <2>0. /\ cur + Size(bin) <= nBlock /\ cur \in Atoms
        /\ cur' = cur + Size(bin) /\ cur' \in Nat
        /\ blocks' = blocks \cup {<<cur, bin>>}
        /\ aCtrl' = [aCtrl EXCEPT ![cur] = [free |-> TRUE, log |-> bin]]
        /\ aiFreelist' = Link(aiFreelist, cur, bin)
    BY <1>1, <1>3 DEF Fits, Atoms
  <2>1. Tiling(blocks', cur')
    BY Zenon, <1>0, <1>1, <2>0, ExtendTiling
  <2>2. /\ aiFreelist' \in [Logs -> Seq(Atoms)]
        /\ Elems(aiFreelist'[bin]) = {cur}
        /\ \A k \in Logs \ {bin} : FreeBlocks(k)' = FreeBlocks(k) /\ aiFreelist'[k] = aiFreelist[k]
        /\ Distinct(aiFreelist'[bin])
    <3>1. /\ aiFreelist \in [Logs -> Seq(Atoms)] /\ Distinct(aiFreelist[bin])
          /\ cur \in Atoms /\ bin \in Logs
      BY Zenon, <1>0, <1>1, <2>0 DEF HeapTypeOK, Core, ListsOK
    <3>2. /\ aiFreelist' \in [Logs -> Seq(Atoms)]
          /\ \A j \in Logs : Distinct(aiFreelist'[j])
          /\ cur \in Elems(aiFreelist'[bin])
          /\ \A x \in Elems(aiFreelist'[bin]) : x # cur => x \in FreeBlocks(bin)
          /\ \A j \in Logs \ {bin} : aiFreelist'[j] = aiFreelist[j]
      BY Zenon, <1>0, <1>2, <2>0, <3>1, LinkStep DEF Core
    <3> QED BY Zenon, <1>2, <3>1, <3>2 DEF FreeBlocks
  <2>3. \A x \in blocks : x[1] # cur
    BY <1>0, <1>1, BlockFacts DEF Tiling
  <2>4. ListsOK'
    <3>1. ASSUME NEW k \in Logs, NEW b \in FreeBlocks(k)'
          PROVE  <<b, k>> \in blocks' /\ aCtrl'[b] = [free |-> TRUE, log |-> k]
      <4>1. CASE k = bin
        BY <1>0, <2>0, <2>2, <3>1, <4>1 DEF FreeBlocks, HeapTypeOK
      <4>2. CASE k # bin
        <5>1. <<b, k>> \in blocks /\ aCtrl[b] = [free |-> TRUE, log |-> k]
          BY <1>0, <2>2, <3>1, <4>2 DEF Core, ListsOK
        <5> QED BY Zenon, <1>0, <2>0, <2>3, <5>1 DEF HeapTypeOK
      <4> QED BY Zenon, <4>1, <4>2
    <3>2. ~InHand'
      BY Zenon, <1>0 DEF InHand
    <3> QED BY Zenon, <1>0, <2>2, <3>1, <3>2 DEF ListsOK, Core
  <2>5. JoinedOK'
    <3>1. ASSUME NEW k \in 0 .. LOGMAX - 1, NEW b \in FreeBlocks(k)' PROVE Buddy(b, k) \notin FreeBlocks(k)'
      <4>0. k \in Logs
        BY <1>1 DEF Logs
      <4>1. CASE k = bin
        BY Zenon, <1>0, <1>1, <2>2, <3>1, <4>1, BuddyHalves DEF FreeBlocks
      <4>2. CASE k # bin
        BY Zenon, <1>0, <2>2, <3>1, <4>0, <4>2 DEF Core, JoinedOK
      <4> QED BY Zenon, <4>1, <4>2
    <3> QED BY Zenon, <3>1 DEF JoinedOK, Buddy
  <2>6. AccountedOK'
    <3>1. ASSUME NEW x \in blocks' PROVE x[1] \in FreeBlocks(x[2])'
      <4>1. CASE x = <<cur, bin>>
        BY Zenon, <2>2, <4>1 DEF FreeBlocks
      <4>2. CASE x \in blocks
        <5> QED BY <1>0, <1>2, <2>2, <4>2, BlockFacts DEF Core, AccountedOK, InHand, NULL
      <4> QED BY Zenon, <2>0, <4>1, <4>2
    <3> QED BY Zenon, <3>1 DEF AccountedOK
  <2>7. HeapTypeOK'
    <3>1. blocks' \subseteq Atoms \X Logs
      BY <1>0, <1>1, <2>0 DEF HeapTypeOK
    <3>2. bin' \in Logs /\ cur' \in 0 .. nBlock
      BY <1>1, <2>0 DEF Logs
    <3>3. Atoms' = Atoms
      BY Zenon DEF Atoms
    <3> QED BY Zenon, <1>0, <1>1, <2>0, <2>2, <3>1, <3>2, <3>3 DEF HeapTypeOK, Ctrl
  <2>8. LoopsOK' /\ Tiling(blocks, Extent)'
    <3>1. CASE bin = 0
      <4>1. Size(0) = 1 /\ hpc' = "idle"
        BY Zenon, <3>1, PowersAssumption
      <4> QED BY <1>0, <1>1, <2>0, <2>1, <3>1, <4>1 DEF LoopsOK, Extent, InHand
    <3>2. CASE bin # 0
      <4>0. hpc' = "init" /\ bin' = bin - 1 /\ bin - 1 \in Logs /\ (bin - 1) + 1 = bin
        BY <1>1, <3>2 DEF Logs
      <4>1. Size(bin) = 2 * Size(bin - 1) /\ Size(bin - 1) \in Nat \ {0}
        BY <4>0, SizeFacts DEF Logs
      <4>2. Aligned(cur', bin - 1)
        <5>1. PICK q \in Nat : cur = q * Size(bin)
          BY Zenon, <1>0 DEF Aligned
        <5>2. cur' = (2 * q + 2) * Size(bin - 1) /\ 2 * q + 2 \in Nat
          BY <2>0, <4>1, <5>1
        <5> QED BY Zenon, <5>2 DEF Aligned
      <4>3. nBlock < cur' + 2 * Size(bin - 1)
        BY <1>0, <1>1, <2>0, <4>1
      <4>4. \A k \in 0 .. bin - 1 : aiFreelist'[k] = <<>>
        <5>1. \A k \in 0 .. bin - 1 : k \in 0 .. bin /\ k \in Logs \ {bin}
          BY <1>1 DEF Logs
        <5> QED BY Zenon, <1>0, <2>2, <5>1
      <4> QED BY Zenon, <1>0, <2>1, <4>0, <4>2, <4>3, <4>4 DEF LoopsOK, Extent, InHand
    <3> QED BY Zenon, <3>1, <3>2
  <2> QED BY Zenon, <1>0, <2>4, <2>5, <2>6, <2>7, <2>8 DEF HeapInv, Core, HeldOK, DataIntact,
    SizesOK, AsLargeAsAsked
<1>4. CASE ~Fits(cur, bin)
  <2>0. /\ nBlock < cur + Size(bin)
        /\ UNCHANGED <<aCtrl, aiFreelist, blocks, cur>>
    BY <1>1, <1>4 DEF Fits
  <2>1. \A k : FreeBlocks(k)' = FreeBlocks(k)
    BY Zenon, <2>0 DEF FreeBlocks
  <2>2. JoinedOK'
    BY Zenon, <1>0, <2>1 DEF Buddy, Core, JoinedOK
  <2>3. HeapTypeOK'
    <3>1. bin' \in Logs
      BY <1>1 DEF Logs
    <3> QED BY Zenon, <1>0, <2>0, <3>1 DEF HeapTypeOK, Atoms
  <2>4. LoopsOK' /\ Tiling(blocks, Extent)'
    <3>1. CASE bin = 0
      BY <1>0, <1>1, <2>0, <3>1, PowersAssumption DEF LoopsOK, Extent, InHand
    <3>2. CASE bin # 0
      <4>0. hpc' = "init" /\ bin' = bin - 1 /\ bin - 1 \in Logs /\ (bin - 1) + 1 = bin
        BY <1>1, <3>2 DEF Logs
      <4>1. Size(bin) = 2 * Size(bin - 1) /\ Size(bin - 1) \in Nat \ {0}
        BY <4>0, SizeFacts DEF Logs
      <4>2. Aligned(cur, bin - 1)
        <5>1. PICK q \in Nat : cur = q * Size(bin)
          BY Zenon, <1>0 DEF Aligned
        <5>2. cur = (2 * q) * Size(bin - 1) /\ 2 * q \in Nat
          BY <4>1, <5>1
        <5> QED BY Zenon, <5>2 DEF Aligned
      <4>3. \A k \in 0 .. bin - 1 : aiFreelist[k] = <<>>
        BY <1>0, <1>1
      <4> QED BY Zenon, <1>0, <1>1, <2>0, <4>0, <4>1, <4>2, <4>3 DEF LoopsOK, Extent, InHand
    <3> QED BY Zenon, <3>1, <3>2
  <2>5. HeldOK' /\ DataIntact' /\ SizesOK'
    BY Zenon, <1>0 DEF HeldOK, DataIntact, SizesOK, AsLargeAsAsked, Core
  <2> QED BY Zenon, <1>0, <2>0, <2>1, <2>2, <2>3, <2>4, <2>5 DEF HeapInv, Core, ListsOK,
    AccountedOK, InHand
<1> QED BY Zenon, <1>3, <1>4

=============================================================================
