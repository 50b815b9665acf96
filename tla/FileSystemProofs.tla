-------------------------- MODULE FileSystemProofs --------------------------
(***************************************************************************)
(* Proofs about the file system, for any paths, contents, positions and    *)
(* number of descriptors.                                                  *)
(***************************************************************************)
EXTENDS FileSystem, SequenceTheorems, TLAPS

Text == Seq(Bytes)

(* Lemma: a piece of a text is a text.                                     *)
LEMMA Piece ==
  ASSUME NEW s \in Text, NEW m \in Nat \ {0}, NEW n \in Int, n <= Len(s)
  PROVE  /\ SubSeq(s, m, n) \in Text
         /\ Len(SubSeq(s, m, n)) = IF m <= n THEN n - m + 1 ELSE 0
         /\ \A i \in 1..n - m + 1 : SubSeq(s, m, n)[i] = s[m + i - 1]
<1>1. \A i \in m..n : s[i] \in Bytes
  BY DEF Text
<1> QED BY <1>1, SubSeqProperties DEF Text

(* Lemma: two texts put together.                                          *)
LEMMA Joined ==
  ASSUME NEW s \in Text, NEW t \in Text
  PROVE  /\ s \o t \in Text
         /\ Len(s \o t) = Len(s) + Len(t)
         /\ \A i \in 1..Len(s) + Len(t) :
              (s \o t)[i] = IF i <= Len(s) THEN s[i] ELSE t[i - Len(s)]
BY ConcatProperties DEF Text

(* Lemma: string.sub returns at most one byte more than the distance of    *)
(* its positions, whatever their signs.                                    *)
LEMMA SubLength ==
  ASSUME NEW s \in Text, NEW i \in Int, NEW count \in Nat
  PROVE  Len(Sub(s, i, i + count)) <= count + 1
<1> DEFINE n == Len(s)
           first == PosRelat(i, n)
           last == PosRelat(i + count, n)
           m == IF first < 1 THEN 1 ELSE first
           l == IF last > n THEN n ELSE last
<1>1. n \in Nat
  BY DEF Text
<1>2. first \in Int /\ last \in Int /\ m \in Nat \ {0} /\ l \in Int /\ l <= n
  BY <1>1 DEF PosRelat
<1>3. Len(Sub(s, i, i + count)) = IF m <= l THEN l - m + 1 ELSE 0
  BY <1>2, Piece DEF Sub
<1>4. m <= l => l - m <= count
  BY <1>1 DEF PosRelat
<1> QED BY <1>2, <1>3, <1>4

(* Lemma: sinsert keeps a beginning and an end of the text that together   *)
(* are all of it, for every position, before and behind the text too.      *)
LEMMA SinsertShape ==
  ASSUME NEW s \in Text, NEW val \in Text, NEW pos \in Int
  PROVE  \E a \in 0..Len(s), c \in 0..Len(s) :
           /\ c <= a
           /\ sinsert(s, val, pos) = SubSeq(s, 1, a) \o val \o SubSeq(s, c + 1, Len(s))
           /\ pos > Len(s) => a = Len(s) /\ c = Len(s)
<1> DEFINE n == Len(s)
           last == PosRelat(pos, n)
           a == IF last > n THEN n ELSE last
           first == PosRelat(pos + 1, n)
           f == IF first < 1 THEN 1 ELSE first
           c == IF f > n THEN n ELSE f - 1
<1>1. n \in Nat
  BY DEF Text
<1>2. a \in 0..n /\ c \in 0..n /\ c <= a /\ f \in Nat \ {0} /\ (pos > n => a = n /\ c = n)
  BY <1>1 DEF PosRelat
<1>3. Sub(s, 0, pos) = SubSeq(s, 1, a)
  BY <1>1, <1>2 DEF Sub, PosRelat
<1>4. Sub(s, pos + 1, n) = SubSeq(s, f, n)
  <2>1. PosRelat(n, n) = n
    BY <1>1 DEF PosRelat
  <2> QED BY Zenon, <1>1, <2>1 DEF Sub
<1>5. SubSeq(s, f, n) = SubSeq(s, c + 1, n)
  <2>1. CASE f > n
    BY <1>1, <1>2, <2>1, SubSeqEmpty
  <2>2. CASE ~(f > n)
    <3>1. f = c + 1
      BY <1>1, <1>2, <2>2
    <3> QED BY Zenon, <3>1
  <2> QED BY Zenon, <2>1, <2>2
<1> QED BY Zenon, <1>2, <1>3, <1>4, <1>5 DEF sinsert

(* Lemma: three texts put together.                                        *)
LEMMA ThreeJoined ==
  ASSUME NEW l \in Text, NEW v \in Text, NEW r \in Text
  PROVE  /\ l \o v \o r \in Text
         /\ Len(l \o v \o r) = Len(l) + Len(v) + Len(r)
         /\ \A i \in 1..Len(l) : (l \o v \o r)[i] = l[i]
         /\ \A i \in 1..Len(r) : (l \o v \o r)[Len(l) + Len(v) + i] = r[i]
<1>1. Len(l) \in Nat /\ Len(v) \in Nat /\ Len(r) \in Nat
  BY DEF Text
<1> DEFINE b == l \o v
<1>2. b \in Text /\ Len(b) = Len(l) + Len(v)
  BY Zenon, Joined
<1>3. ASSUME NEW i \in 1..Len(l) PROVE b[i] = l[i]
  BY <1>1, Joined
<1> HIDE DEF b
<1>4. b \o r \in Text /\ Len(b \o r) = Len(b) + Len(r)
  BY Zenon, <1>2, Joined
<1>5. \A i \in 1..Len(b) + Len(r) : (b \o r)[i] = IF i <= Len(b) THEN b[i] ELSE r[i - Len(b)]
  BY Zenon, <1>2, Joined
<1>6. ASSUME NEW i \in 1..Len(l) PROVE (b \o r)[i] = l[i]
  <2>1. i \in 1..Len(b) + Len(r) /\ i <= Len(b)
    BY <1>1, <1>2
  <2> QED BY Zenon, <1>3, <1>5, <2>1
<1>7. ASSUME NEW i \in 1..Len(r) PROVE (b \o r)[Len(l) + Len(v) + i] = r[i]
  <2> DEFINE k == Len(l) + Len(v) + i
  <2>1. k \in 1..Len(b) + Len(r) /\ ~(k <= Len(b)) /\ k - Len(b) = i
    BY <1>1, <1>2
  <2> HIDE DEF k
  <2>2. (b \o r)[k] = r[i]
    BY Zenon, <1>5, <2>1
  <2> QED BY Zenon, <2>2 DEF k
<1> QED BY Zenon, <1>1, <1>2, <1>4, <1>6, <1>7 DEF b

(* Lemma: a text that starts with a beginning of s and ends with an end of *)
(* s that overlaps or meets it keeps s.                                    *)
LEMMA BeginningAndEnd ==
  ASSUME NEW s \in Text, NEW new \in Text, NEW a \in Nat, NEW c \in Nat, NEW k \in Nat,
         a <= Len(s), c <= a, Len(new) = a + k + (Len(s) - c),
         \A i \in 1..a : new[i] = s[i],
         \A i \in 1..Len(s) - c : new[a + k + i] = s[c + i]
  PROVE  Keeps(s, new)
<1> DEFINE n == Len(s)
           place(i) == IF i <= a THEN i ELSE a + k + (i - c)
           at == [i \in 1..n |-> place(i)]
<1>1. n \in Nat
  BY DEF Text
<1>2. \A i \in 1..n : place(i) \in 1..a + k + (n - c)
  BY <1>1
<1>3. at \in [1..n -> 1..Len(new)]
  BY Zenon, <1>2
<1>4. ASSUME NEW i \in 1..n PROVE new[at[i]] = s[i] /\ \A j \in 1..i - 1 : at[j] < at[i]
  <2>1. at[i] = place(i)
    BY Zenon
  <2>2. new[place(i)] = s[i]
    <3>1. CASE i <= a
      BY <1>1, <3>1
    <3>2. CASE ~(i <= a)
      <4> DEFINE d == i - c
      <4>1. d \in 1..n - c /\ c + d = i /\ place(i) = a + k + d
        BY <1>1, <3>2
      <4> HIDE DEF d
      <4>2. new[a + k + d] = s[c + d]
        BY Zenon, <4>1
      <4> QED BY Zenon, <4>1, <4>2
    <3> QED BY Zenon, <3>1, <3>2
  <2>3. \A j \in 1..i - 1 : j \in 1..n /\ place(j) < place(i)
    BY <1>1
  <2> QED BY Zenon, <2>1, <2>2, <2>3
<1>5. \E f \in [1..n -> 1..Len(new)] :
        \A i \in 1..n : new[f[i]] = s[i] /\ \A j \in 1..i - 1 : f[j] < f[i]
  <2> HIDE DEF at
  <2> QED BY Zenon, <1>3, <1>4
<1> QED BY Zenon, <1>5 DEF Keeps

(* Lemma: what sinsert returns is a text that keeps every byte.            *)
LEMMA SinsertKeeps ==
  ASSUME NEW s \in Text, NEW val \in Text, NEW pos \in Int
  PROVE  sinsert(s, val, pos) \in Text /\ Keeps(s, sinsert(s, val, pos))
<1>1. PICK a \in 0..Len(s), c \in 0..Len(s) :
        c <= a /\ sinsert(s, val, pos) = SubSeq(s, 1, a) \o val \o SubSeq(s, c + 1, Len(s))
  BY ZenonT(60), SinsertShape
<1> DEFINE left == SubSeq(s, 1, a)
           right == SubSeq(s, c + 1, Len(s))
           new == left \o val \o right
<1>2. Len(s) \in Nat /\ Len(val) \in Nat /\ a \in Nat /\ c \in Nat
  BY DEF Text
<1>3. left \in Text /\ Len(left) = a /\ \A i \in 1..a : left[i] = s[i]
  BY <1>1, <1>2, Piece
<1>4. right \in Text /\ Len(right) = Len(s) - c /\ \A i \in 1..Len(s) - c : right[i] = s[c + i]
  <2> DEFINE m == c + 1
             n == Len(s)
  <2>1. m \in Nat \ {0} /\ n \in Int /\ n <= Len(s)
    BY <1>1, <1>2
  <2>2. /\ right \in Text
        /\ Len(right) = IF m <= n THEN n - m + 1 ELSE 0
        /\ \A i \in 1..n - m + 1 : right[i] = s[m + i - 1]
    BY Zenon, <2>1, Piece
  <2> HIDE DEF right
  <2>3. (IF m <= n THEN n - m + 1 ELSE 0) = n - c /\ n - m + 1 = n - c
    BY <1>1, <1>2
  <2>4. \A i \in 1..n - c : m + i - 1 = c + i
    BY <1>1, <1>2
  <2> QED BY Zenon, <2>2, <2>3, <2>4
<1> HIDE DEF left, right
<1>5. /\ new \in Text /\ Len(new) = a + Len(val) + (Len(s) - c)
      /\ \A i \in 1..a : new[i] = left[i]
      /\ \A i \in 1..Len(s) - c : new[a + Len(val) + i] = right[i]
  <2>1. /\ new \in Text /\ Len(new) = Len(left) + Len(val) + Len(right)
        /\ \A i \in 1..Len(left) : new[i] = left[i]
        /\ \A i \in 1..Len(right) : new[Len(left) + Len(val) + i] = right[i]
    <3>1. left \in Text /\ right \in Text /\ new = left \o val \o right
      BY Zenon, <1>3, <1>4
    <3>2. new \in Text
      BY Zenon, <3>1, ThreeJoined
    <3>3. Len(new) = Len(left) + Len(val) + Len(right)
      BY <3>1, ThreeJoined
    <3>4. \A i \in 1..Len(left) : new[i] = left[i]
      BY <3>1, ThreeJoined
    <3>5. \A i \in 1..Len(right) : new[Len(left) + Len(val) + i] = right[i]
      BY <3>1, ThreeJoined
    <3> QED BY Zenon, <3>2, <3>3, <3>4, <3>5
  <2> HIDE DEF new
  <2> QED BY Zenon, <1>3, <1>4, <2>1
<1> HIDE DEF new
<1>6. /\ \A i \in 1..a : new[i] = s[i]
      /\ \A i \in 1..Len(s) - c : new[a + Len(val) + i] = s[c + i]
  BY Zenon, <1>3, <1>4, <1>5
<1>7. Keeps(s, new)
  <2>1. a <= Len(s) /\ c <= a
    BY <1>1, <1>2
  <2> QED BY Zenon, <1>2, <1>5, <1>6, <2>1, BeginningAndEnd
<1>8. sinsert(s, val, pos) = new
  BY Zenon, <1>1 DEF new, left, right
<1> QED BY Zenon, <1>5, <1>7, <1>8

(* Lemma: sinsert at the position behind the end appends.                  *)
LEMMA SinsertAppends ==
  ASSUME NEW s \in Text, NEW val \in Text
  PROVE  sinsert(s, val, Len(s) + 1) = s \o val
<1>1. Len(s) \in Nat
  BY DEF Text
<1>2. sinsert(s, val, Len(s) + 1) = SubSeq(s, 1, Len(s)) \o val \o SubSeq(s, Len(s) + 1, Len(s))
  <2>1. PICK a \in 0..Len(s), c \in 0..Len(s) :
          /\ sinsert(s, val, Len(s) + 1) = SubSeq(s, 1, a) \o val \o SubSeq(s, c + 1, Len(s))
          /\ Len(s) + 1 > Len(s) => a = Len(s) /\ c = Len(s)
    <3>1. Len(s) + 1 \in Int
      BY <1>1
    <3> QED BY <3>1, SinsertShape, ZenonT(60)
  <2>2. a = Len(s) /\ c = Len(s)
    BY <1>1, <2>1
  <2> QED BY Zenon, <2>1, <2>2
<1>3. SubSeq(s, 1, Len(s)) = s /\ SubSeq(s, Len(s) + 1, Len(s)) = <<>>
  BY <1>1, SubSeqFull, SubSeqEmpty DEF Text
<1>4. s \o val \in Text /\ (s \o val) \o <<>> = s \o val
  BY Zenon, Joined, ConcatEmptySeq DEF Text
<1> QED BY Zenon, <1>2, <1>3, <1>4

(* Lemma: what is kept twice is kept.                                      *)
LEMMA KeepsTransitive ==
  ASSUME NEW s \in Text, NEW t \in Text, NEW u \in Text, Keeps(s, t), Keeps(t, u)
  PROVE  Keeps(s, u)
<1>1. PICK f \in [1..Len(s) -> 1..Len(t)] :
        \A i \in 1..Len(s) : t[f[i]] = s[i] /\ \A j \in 1..i - 1 : f[j] < f[i]
  BY Zenon DEF Keeps
<1>2. PICK g \in [1..Len(t) -> 1..Len(u)] :
        \A i \in 1..Len(t) : u[g[i]] = t[i] /\ \A j \in 1..i - 1 : g[j] < g[i]
  BY Zenon DEF Keeps
<1> DEFINE h == [i \in 1..Len(s) |-> g[f[i]]]
<1>3. Len(s) \in Nat /\ Len(t) \in Nat /\ Len(u) \in Nat
  BY DEF Text
<1>4. h \in [1..Len(s) -> 1..Len(u)]
  BY Zenon
<1>5. ASSUME NEW i \in 1..Len(s) PROVE u[h[i]] = s[i] /\ \A j \in 1..i - 1 : h[j] < h[i]
  <2>1. h[i] = g[f[i]] /\ f[i] \in 1..Len(t)
    BY Zenon
  <2>2. u[h[i]] = s[i]
    BY Zenon, <1>1, <1>2, <2>1
  <2>3. ASSUME NEW j \in 1..i - 1 PROVE h[j] < h[i]
    <3>1. j \in 1..Len(s)
      BY <1>3
    <3>2. f[j] \in 1..Len(t) /\ f[j] < f[i]
      BY Zenon, <1>1, <3>1
    <3>3. f[j] \in 1..f[i] - 1
      BY <1>3, <2>1, <3>2
    <3>4. g[f[j]] < g[f[i]]
      BY Zenon, <1>2, <2>1, <3>3
    <3> QED BY Zenon, <2>1, <3>1, <3>4
  <2> QED BY Zenon, <2>2, <2>3
<1> HIDE DEF h
<1> QED BY Zenon, <1>4, <1>5 DEF Keeps

-----------------------------------------------------------------------------
Descriptors == [top : DOMAIN buf, pos : -MaxPos..MaxPos] \cup {Failed}

DirectOn(e) == direct.pc \in {"write", "assign"} /\ direct.top = e

(* An entry whose log is not Mixed has one descriptor at most; it stands   *)
(* behind the contents, and what a direct write has read is current.       *)
Sole(e) ==
  log[e] # Mixed =>
    /\ buf[e] = log[e]
    /\ \A k \in DOMAIN registry : registry[k].top = e => registry[k].pos = Len(buf[e]) + 1
    /\ \A k, m \in DOMAIN registry : registry[k].top = e /\ registry[m].top = e => k = m
    /\ DirectOn(e) => /\ direct.pos = Len(buf[e]) + 1
                      /\ \A k \in DOMAIN registry : registry[k].top # e
                      /\ direct.pc = "assign" => direct.str = buf[e]

(* The inductive invariant.                                                *)
FInv ==
  /\ TypeOK
  /\ \A e \in DOMAIN buf : Sole(e)
  /\ direct.pc \in {"open", "create"} => direct.pos = 1
  /\ ReadExceedsByAtMostOne

(* Lemma: positions are whole numbers, and 1 is one.                       *)
LEMMA Positions == -MaxPos..MaxPos \subseteq Int /\ 1 \in -MaxPos..MaxPos
BY NumbersAssumption

(* Lemma: what the type invariant says, conjunct by conjunct.              *)
LEMMA Types ==
  ASSUME TypeOK
  PROVE  /\ fs \in [Paths -> 0..Len(buf)] /\ registry \in Seq(Descriptors)
         /\ buf \in Seq(Text) /\ DOMAIN buf = 1..Len(buf) /\ Len(buf) \in Nat
         /\ log \in Seq(Text \cup {Mixed}) /\ DOMAIN log = DOMAIN buf
<1>1. fs \in [Paths -> 0..Len(buf)] /\ registry \in Seq(Descriptors)
  BY Zenon DEF TypeOK, Descriptors
<1>2. buf \in Seq(Text)
  BY Zenon DEF TypeOK, Text
<1>3. log \in Seq(Text \cup {Mixed}) /\ Len(log) = Len(buf)
  BY Zenon DEF TypeOK, Text
<1> QED BY <1>1, <1>2, <1>3

(* Lemma: the descriptor behind a usable number.                           *)
LEMMA DescriptorOf ==
  ASSUME TypeOK, NEW fd \in Open, Descriptor(fd) # Failed
  PROVE  /\ fd - 2 \in DOMAIN registry /\ Descriptor(fd) = registry[fd - 2]
         /\ Descriptor(fd) \in [top : DOMAIN buf, pos : -MaxPos..MaxPos]
         /\ Descriptor(fd).top \in DOMAIN buf /\ Descriptor(fd).pos \in Int
         /\ buf[Descriptor(fd).top] \in Text
<1>1. registry \in Seq(Descriptors) /\ buf \in Seq(Text)
  BY Zenon DEF TypeOK, Descriptors, Text
<1>2. PICK k \in DOMAIN registry : fd = Ref(k)
  BY Zenon DEF Open
<1>3. k \in Int /\ fd - 2 = k /\ registry[k] \in Descriptors
  BY <1>1, <1>2 DEF Ref
<1>4. Descriptor(fd) \in [top : DOMAIN buf, pos : -MaxPos..MaxPos]
  BY Zenon, <1>3 DEF Descriptor, Descriptors
<1>5. Descriptor(fd).top \in DOMAIN buf /\ Descriptor(fd).pos \in -MaxPos..MaxPos
  BY Zenon, <1>4
<1>6. fd - 2 \in DOMAIN registry /\ Descriptor(fd) = registry[fd - 2]
  BY Zenon, <1>2, <1>3 DEF Descriptor
<1>7. Descriptor(fd).pos \in Int
  BY Zenon, <1>5, Positions
<1>8. buf[Descriptor(fd).top] \in Text
  BY <1>1, <1>5
<1> QED BY Zenon, <1>4, <1>5, <1>6, <1>7, <1>8

(* Lemma: giving a descriptor a new position changes nothing else.         *)
LEMMA Moved ==
  ASSUME NEW B, NEW r \in Seq([top : B, pos : -MaxPos..MaxPos] \cup {Failed}),
         NEW k \in DOMAIN r, r[k] \in [top : B, pos : -MaxPos..MaxPos],
         NEW x \in -MaxPos..MaxPos, NEW new, new = [r EXCEPT ![k].pos = x]
  PROVE  /\ new \in Seq([top : B, pos : -MaxPos..MaxPos] \cup {Failed})
         /\ DOMAIN new = DOMAIN r
         /\ \A m \in DOMAIN r : new[m].top = r[m].top
         /\ \A m \in DOMAIN r : m # k => new[m] = r[m]
         /\ new[k].pos = x
<1> DEFINE D == [top : B, pos : -MaxPos..MaxPos] \cup {Failed}
           d == [r[k] EXCEPT !.pos = x]
<1>1. d \in [top : B, pos : -MaxPos..MaxPos] /\ d.top = r[k].top /\ d.pos = x
  BY Zenon
<1>2. d \in D /\ k \in 1..Len(r) /\ new = [r EXCEPT ![k] = d] /\ DOMAIN r = 1..Len(r)
  BY <1>1
<1> HIDE DEF d
<1>3. /\ [r EXCEPT ![k] = d] \in Seq(D) /\ Len([r EXCEPT ![k] = d]) = Len(r)
      /\ \A m \in 1..Len(r) : [r EXCEPT ![k] = d][m] = IF m = k THEN d ELSE r[m]
  <2> HIDE DEF D
  <2> QED BY <1>2, ExceptSeq DEF D
<1> QED BY Zenon, <1>1, <1>2, <1>3

(* Lemma: entries that exist keep their place when one is added.           *)
LEMMA Appended ==
  ASSUME NEW S, NEW q \in Seq(S), NEW x \in S
  PROVE  /\ Append(q, x) \in Seq(S) /\ Len(Append(q, x)) = Len(q) + 1
         /\ DOMAIN Append(q, x) = DOMAIN q \cup {Len(q) + 1}
         /\ \A k \in DOMAIN q : Append(q, x)[k] = q[k]
         /\ Append(q, x)[Len(q) + 1] = x
OBVIOUS

(* Lemma: what the type invariant says of a descriptor.                    *)
LEMMA TopExists ==
  ASSUME TypeOK, NEW k \in DOMAIN registry
  PROVE  registry[k].top \in 0..Len(buf)
<1>1. registry \in Seq(Descriptors) /\ buf \in Seq(Text)
  BY Zenon DEF TypeOK, Descriptors, Text
<1>2. registry[k] \in Descriptors
  BY <1>1
<1>3. CASE registry[k] = Failed
  BY <1>1, <1>3 DEF Failed
<1>4. CASE registry[k] \in [top : DOMAIN buf, pos : -MaxPos..MaxPos]
  <2>1. registry[k].top \in DOMAIN buf
    BY Zenon, <1>4
  <2> QED BY <1>1, <2>1
<1> QED BY Zenon, <1>2, <1>3, <1>4 DEF Descriptors

(* Lemma: SYS_open of a path that gets a new entry.                        *)
LEMMA OpenCreates ==
  ASSUME FInv, NEW p \in Paths, NEW creat \in BOOLEAN, SysOpen(p, creat), Creates(p, creat)
  PROVE  FInv'
<1>1. TypeOK /\ (\A e \in DOMAIN buf : Sole(e))
  BY Zenon DEF FInv
<1>2. buf \in Seq(Text) /\ DOMAIN buf = 1..Len(buf) /\ Len(buf) \in Nat
  BY Zenon, <1>1, Types
<1>3. PICK new \in Nat : new = Len(buf) + 1
  BY <1>2
<1>4. PICK d : d = [top |-> new, pos |-> 1]
  BY Zenon
<1>5. /\ fs' = [fs EXCEPT ![p] = new] /\ buf' = Append(buf, <<>>) /\ log' = Append(log, <<>>)
      /\ registry' = Append(registry, d) /\ data' = <<>> /\ wanted' = 0
      /\ running' = running /\ direct' = direct
  BY Zenon, <1>3, <1>4 DEF SysOpen, NewEntry
<1>6. /\ fs \in [Paths -> 0..Len(buf)] /\ registry \in Seq(Descriptors)
      /\ log \in Seq(Text \cup {Mixed}) /\ Len(log) = Len(buf)
  BY Zenon, <1>1 DEF TypeOK, Descriptors, Text
<1>7. DOMAIN log = DOMAIN buf
  BY <1>6, <1>2
<1>8. <<>> \in Text /\ <<>> \in Text \cup {Mixed}
  BY DEF Text
<1>9. /\ buf' \in Seq(Text) /\ Len(buf') = new /\ DOMAIN buf' = DOMAIN buf \cup {new}
      /\ (\A e \in DOMAIN buf : buf'[e] = buf[e]) /\ buf'[new] = <<>>
  BY <1>5, <1>2, <1>3, <1>8, Appended
<1>10. /\ log' \in Seq(Text \cup {Mixed}) /\ Len(log') = new
      /\ (\A e \in DOMAIN buf : log'[e] = log[e]) /\ log'[new] = <<>>
  BY <1>5, <1>6, <1>3, <1>7, <1>8, Appended
<1>11. d.top = new /\ d.pos = 1
  BY Zenon, <1>4
<1>12. d \in Descriptors'
  BY Zenon, <1>9, <1>4, Positions DEF Descriptors
<1>13. Descriptors \subseteq Descriptors'
  <2>1. [top : DOMAIN buf, pos : -MaxPos..MaxPos] \subseteq [top : DOMAIN buf', pos : -MaxPos..MaxPos]
    BY Zenon, <1>9
  <2> QED BY Zenon, <2>1 DEF Descriptors
<1>14. registry \in Seq(Descriptors')
  BY <1>6, <1>13
<1>15. /\ registry' \in Seq(Descriptors') /\ DOMAIN registry' = DOMAIN registry \cup {Len(registry) + 1}
      /\ (\A k \in DOMAIN registry : registry'[k] = registry[k])
      /\ registry'[Len(registry) + 1] = d
  BY <1>5, <1>12, <1>14, Appended
<1>16. new \notin DOMAIN buf /\ new \in Nat /\ new # 0
  BY <1>2, <1>3
<1>17. \A k \in DOMAIN registry : registry[k].top # new
  <2> TAKE k \in DOMAIN registry
  <2>1. registry[k].top \in 0..Len(buf)
    BY Zenon, <1>1, TopExists
  <2> QED BY <2>1, <1>2, <1>3
<1>18. ~DirectOn(new)'
  BY Zenon, <1>1, <1>5, <1>16 DEF TypeOK, DirectOn
<1>19. fs' \in [Paths -> 0..Len(buf')]
  BY <1>5, <1>6, <1>9, <1>3
<1>20. TypeOK'
  BY Zenon, <1>1, <1>5, <1>9, <1>10, <1>15, <1>19 DEF TypeOK, Descriptors, Text
<1>21. ASSUME NEW e \in DOMAIN buf PROVE Sole(e)'
  <2>1. Sole(e)
    BY Zenon, <1>1
  <2>2. buf'[e] = buf[e] /\ log'[e] = log[e] /\ e # new
    BY Zenon, <1>9, <1>10, <1>16
  <2>3. \A k \in DOMAIN registry' : registry'[k].top = e => k \in DOMAIN registry /\ registry'[k] = registry[k]
    BY Zenon, <1>11, <1>15, <2>2
  <2> QED BY ZenonT(60), <2>1, <2>2, <2>3, <1>5 DEF Sole, DirectOn
<1>22. Sole(new)'
  <2>1. \A k \in DOMAIN registry' : registry'[k].top = new => k = Len(registry) + 1 /\ registry'[k].pos = 1
    BY Zenon, <1>11, <1>15, <1>17
  <2>2. Len(buf'[new]) = 0
    BY Zenon, <1>9
  <2> QED BY <1>9, <1>10, <1>18, <2>1, <2>2 DEF Sole
<1>23. \A e \in DOMAIN buf' : Sole(e)'
  BY Zenon, <1>9, <1>21, <1>22
<1>24. ReadExceedsByAtMostOne'
  BY <1>5 DEF ReadExceedsByAtMostOne
<1> QED BY Zenon, <1>5, <1>20, <1>23, <1>24 DEF FInv

(* Lemma: SYS_open of a path that exists, or without O_CREAT.              *)
LEMMA OpenFinds ==
  ASSUME FInv, NEW p \in Paths, NEW creat \in BOOLEAN, SysOpen(p, creat), ~Creates(p, creat)
  PROVE  FInv'
<1>1. TypeOK /\ (\A e \in DOMAIN buf : Sole(e))
  BY Zenon DEF FInv
<1>2. PICK d : d = IF fs[p] = 0 THEN Failed ELSE [top |-> fs[p], pos |-> 1]
  BY Zenon
<1>3. /\ registry' = Append(registry, d) /\ data' = <<>> /\ wanted' = 0
      /\ log' = IF fs[p] = 0 THEN log ELSE [log EXCEPT ![fs[p]] = Mixed]
      /\ fs' = fs /\ buf' = buf /\ running' = running /\ direct' = direct
  BY Zenon, <1>2 DEF SysOpen
<1>4. /\ fs \in [Paths -> 0..Len(buf)] /\ registry \in Seq(Descriptors)
      /\ buf \in Seq(Text) /\ DOMAIN buf = 1..Len(buf) /\ Len(buf) \in Nat
      /\ log \in Seq(Text \cup {Mixed}) /\ DOMAIN log = DOMAIN buf
  BY Zenon, <1>1, Types
<1>5. fs[p] \in 0..Len(buf) /\ (fs[p] # 0 => fs[p] \in DOMAIN buf)
  BY <1>4
<1>6. d \in Descriptors /\ d.top = fs[p]
  <2>1. CASE fs[p] = 0
    BY Zenon, <1>2, <2>1 DEF Failed, Descriptors
  <2>2. CASE fs[p] # 0
    BY Zenon, <1>2, <1>5, <2>2, Positions DEF Descriptors
  <2> QED BY Zenon, <2>1, <2>2
<1>7. /\ registry' \in Seq(Descriptors) /\ DOMAIN registry' = DOMAIN registry \cup {Len(registry) + 1}
      /\ (\A k \in DOMAIN registry : registry'[k] = registry[k])
      /\ registry'[Len(registry) + 1] = d
  BY <1>3, <1>4, <1>6, Appended
<1>8. log' \in Seq(Text \cup {Mixed}) /\ Len(log') = Len(buf)
  <2>1. CASE fs[p] = 0
    BY <1>3, <1>4, <2>1
  <2>2. CASE fs[p] # 0
    BY <1>3, <1>4, <1>5, <2>2, ExceptSeq
  <2> QED BY Zenon, <2>1, <2>2
<1>9. \A e \in DOMAIN buf : log'[e] # Mixed => e # fs[p] /\ log'[e] = log[e]
  BY <1>3, <1>4, <1>5
<1>10. TypeOK'
  <2>1. Descriptors' = Descriptors
    BY Zenon, <1>3 DEF Descriptors
  <2> QED BY Zenon, <1>1, <1>3, <1>7, <1>8, <2>1 DEF TypeOK, Descriptors, Text
<1>11. ASSUME NEW e \in DOMAIN buf PROVE Sole(e)'
  <2>1. SUFFICES ASSUME log'[e] # Mixed PROVE Sole(e)'
    BY Zenon DEF Sole
  <2>2. Sole(e) /\ e # fs[p] /\ log'[e] = log[e]
    BY Zenon, <1>1, <1>9, <2>1
  <2>3. \A k \in DOMAIN registry' : registry'[k].top = e => k \in DOMAIN registry /\ registry'[k] = registry[k]
    BY Zenon, <1>6, <1>7, <2>2
  <2> QED BY <2>2, <2>3, <1>3 DEF Sole, DirectOn
<1>12. ReadExceedsByAtMostOne'
  BY <1>3 DEF ReadExceedsByAtMostOne
<1> QED BY Zenon, <1>1, <1>3, <1>10, <1>11, <1>12 DEF FInv

(* Lemma: what happens to one entry leaves the others as they are.         *)
LEMMA OthersStay ==
  ASSUME NEW t, NEW e, e # t, Sole(e), buf'[e] = buf[e], log'[e] = log[e], direct' = direct,
         DOMAIN registry' = DOMAIN registry,
         \A m \in DOMAIN registry : registry'[m].top = registry[m].top,
         \A m \in DOMAIN registry : registry[m].top # t => registry'[m] = registry[m]
  PROVE  Sole(e)'
BY DEF Sole, DirectOn

(* Lemma: lseek and read move one descriptor and end its sequence.         *)
LEMMA Moves ==
  ASSUME FInv, NEW fd \in Open, Descriptor(fd) # Failed, NEW x \in -MaxPos..MaxPos,
         registry' = [registry EXCEPT ![fd - 2].pos = x],
         log' = [log EXCEPT ![Descriptor(fd).top] = Mixed],
         UNCHANGED <<fs, buf, running, direct>>,
         wanted' \in Counts \cup {0}, ReadExceedsByAtMostOne'
  PROVE  FInv'
<1>1. TypeOK /\ (\A e \in DOMAIN buf : Sole(e))
  BY Zenon DEF FInv
<1>2. PICK k \in DOMAIN registry : k = fd - 2
  BY Zenon, <1>1, DescriptorOf
<1>3. PICK t : t = Descriptor(fd).top
  BY Zenon
<1>4. t \in DOMAIN buf /\ registry[k].top = t /\ registry[k] \in [top : DOMAIN buf, pos : -MaxPos..MaxPos]
  BY Zenon, <1>1, <1>2, <1>3, DescriptorOf
<1>5. /\ registry \in Seq(Descriptors) /\ log \in Seq(Text \cup {Mixed}) /\ DOMAIN log = DOMAIN buf
      /\ buf \in Seq(Text)
  BY Zenon, <1>1, Types
<1>6. /\ registry' \in Seq(Descriptors) /\ DOMAIN registry' = DOMAIN registry
      /\ \A m \in DOMAIN registry : registry'[m].top = registry[m].top
      /\ \A m \in DOMAIN registry : m # k => registry'[m] = registry[m]
  BY <1>2, <1>4, <1>5, Moved DEF Descriptors
<1>7. /\ log' \in Seq(Text \cup {Mixed}) /\ Len(log') = Len(buf) /\ log'[t] = Mixed
      /\ \A e \in DOMAIN buf : e # t => log'[e] = log[e]
  BY <1>3, <1>4, <1>5, ExceptSeq
<1>8. TypeOK'
  <2>1. Descriptors' = Descriptors
    BY Zenon DEF Descriptors
  <2> QED BY Zenon, <1>1, <1>6, <1>7, <2>1 DEF TypeOK, Descriptors, Text
<1>9. ASSUME NEW e \in DOMAIN buf PROVE Sole(e)'
  <2>1. CASE e = t
    BY Zenon, <1>7, <2>1 DEF Sole
  <2>2. CASE e # t
    BY Zenon, <1>1, <1>4, <1>6, <1>7, <2>2, OthersStay
  <2> QED BY Zenon, <2>1, <2>2
<1> QED BY Zenon, <1>8, <1>9 DEF FInv

(* Lemma: a number has no more digits than its value, plus one.            *)
LEMMA DigitsLength ==
  ASSUME NEW n \in Nat, n < 10000
  PROVE  Len(Digits(n)) <= n + 1
<1>1. CASE n < 10
  <2>1. Digits(n) = <<n>>
    BY <1>1 DEF Digits
  <2> QED BY <2>1
<1>2. CASE n >= 10 /\ n < 100
  <2>1. PICK a, b : Digits(n) = <<a, b>>
    BY <1>2 DEF Digits
  <2> QED BY <1>2, <2>1
<1>3. CASE n >= 100 /\ n < 1000
  <2>1. PICK a, b, c : Digits(n) = <<a, b, c>>
    BY <1>3 DEF Digits
  <2> QED BY <1>3, <2>1
<1>4. CASE n >= 1000
  <2>1. PICK a, b, c, d : Digits(n) = <<a, b, c, d>>
    BY <1>4 DEF Digits
  <2> QED BY <1>4, <2>1
<1> QED BY <1>1, <1>2, <1>3, <1>4

(* Lemma: SYS_lseek.                                                       *)
LEMMA LseekStep ==
  ASSUME FInv, NEW fd \in Open, NEW offset, NEW whence, SysLseek(fd, offset, whence)
  PROVE  FInv'
<1>1. PICK x \in -MaxPos..MaxPos : registry' = [registry EXCEPT ![fd - 2].pos = x]
  BY Zenon DEF SysLseek
<1>2. ReadExceedsByAtMostOne'
  BY DEF SysLseek, ReadExceedsByAtMostOne
<1> QED BY Zenon, <1>1, <1>2, Moves DEF SysLseek

(* Lemma: a read copies at most one byte too many.                         *)
LEMMA ReadLength ==
  ASSUME TypeOK, NEW fd \in Open, NEW count \in Counts, Descriptor(fd) # Failed
  PROVE  Len(read(Descriptor(fd), count)) <= count + 1
<1>1. count \in Nat /\ count < 10000
  BY NumbersAssumption
<1>2. PICK d : d = Descriptor(fd)
  BY Zenon
<1>3. buf[d.top] \in Text /\ d.pos \in Int
  BY ZenonT(30), <1>2, DescriptorOf
<1>4. Len(Sub(buf[d.top], d.pos, d.pos + count)) <= count + 1
  <2>1. count \in Nat
    BY <1>1
  <2> QED BY Zenon, <1>3, <2>1, SubLength
<1>5. Len(Digits(count)) <= count + 1
  BY <1>1, DigitsLength
<1> QED BY Zenon, <1>2, <1>4, <1>5 DEF read

(* Lemma: SYS_read.                                                        *)
LEMMA ReadStep ==
  ASSUME FInv, NEW fd \in Open, NEW count \in Counts, SysRead(fd, count)
  PROVE  FInv'
<1>1. TypeOK /\ Descriptor(fd) # Failed /\ (\A e \in DOMAIN buf : Sole(e))
  BY Zenon DEF FInv, SysRead
<1>2. count \in Nat
  BY NumbersAssumption
<1>3. data' = read(Descriptor(fd), count) /\ wanted' = count
  BY Zenon DEF SysRead
<1>4. ReadExceedsByAtMostOne'
  BY Zenon, <1>1, <1>3, ReadLength DEF ReadExceedsByAtMostOne
<1>5. PICK t : t = Descriptor(fd).top
  BY Zenon
<1>6. /\ log' = [log EXCEPT ![t] = Mixed] /\ UNCHANGED <<fs, buf, running, direct>>
      /\ wanted' \in Counts \cup {0}
  BY Zenon, <1>3, <1>5 DEF SysRead
<1>7. CASE IsDevice(t)
  <2>1. registry' = registry
    BY Zenon, <1>5, <1>7 DEF SysRead
  <2>2. t \in DOMAIN buf /\ log \in Seq(Text \cup {Mixed}) /\ DOMAIN log = DOMAIN buf /\ buf \in Seq(Text)
    BY Zenon, <1>1, <1>5, Types, DescriptorOf
  <2>3. /\ log' \in Seq(Text \cup {Mixed}) /\ Len(log') = Len(buf) /\ log'[t] = Mixed
        /\ \A e \in DOMAIN buf : e # t => log'[e] = log[e]
    BY <1>6, <2>2, ExceptSeq
  <2>4. TypeOK'
    BY Zenon, <1>1, <1>6, <2>1, <2>3 DEF TypeOK, Text
  <2>5. ASSUME NEW e \in DOMAIN buf PROVE Sole(e)'
    <3>1. CASE e = t
      BY Zenon, <2>3, <3>1 DEF Sole
    <3>2. CASE e # t
      BY Zenon, <1>1, <1>6, <2>1, <2>3, <3>2, OthersStay
    <3> QED BY Zenon, <3>1, <3>2
  <2> QED BY Zenon, <1>4, <1>6, <2>4, <2>5 DEF FInv
<1>8. CASE ~IsDevice(t)
  <2>1. Descriptor(fd).pos \in -MaxPos..MaxPos /\ Descriptor(fd) = registry[fd - 2]
    BY Zenon, <1>1, DescriptorOf
  <2>2. Descriptor(fd).pos + count \in -MaxPos..MaxPos
    <3>1. Descriptor(fd).pos + count <= MaxPos
      BY Zenon DEF SysRead
    <3>2. PICK x \in -MaxPos..MaxPos : x = Descriptor(fd).pos
      BY Zenon, <2>1
    <3> QED BY <1>2, <3>1, <3>2, NumbersAssumption
  <2>3. registry' = [registry EXCEPT ![fd - 2].pos = Descriptor(fd).pos + count]
    BY Zenon, <1>5, <1>8, <2>1 DEF SysRead
  <2>4. PICK x \in -MaxPos..MaxPos : registry' = [registry EXCEPT ![fd - 2].pos = x]
    BY Zenon, <2>2, <2>3
  <2> QED BY Zenon, <1>1, <1>4, <1>5, <1>6, <2>4, Moves
<1> QED BY Zenon, <1>7, <1>8

(* Lemma: a step that leaves files and descriptors alone.                  *)
LEMMA QuietStep ==
  ASSUME FInv, UNCHANGED <<fs, buf, registry, direct, log>>, running' \in BOOLEAN,
         \/ data' = <<>> /\ wanted' = 0
         \/ UNCHANGED <<data, wanted>>
  PROVE  FInv'
<1>1. wanted' \in Counts \cup {0} /\ ReadExceedsByAtMostOne'
  <2>1. CASE data' = <<>> /\ wanted' = 0
    BY <2>1 DEF ReadExceedsByAtMostOne
  <2>2. CASE UNCHANGED <<data, wanted>>
    BY Zenon, <2>2 DEF FInv, TypeOK, ReadExceedsByAtMostOne
  <2> QED BY Zenon, <2>1, <2>2
<1>2. TypeOK'
  BY Zenon, <1>1 DEF FInv, TypeOK
<1>3. \A e \in DOMAIN buf : Sole(e)'
  BY DEF FInv, Sole, DirectOn
<1> QED BY Zenon, <1>1, <1>2, <1>3 DEF FInv

(* Lemma: what is written in two pieces behind the end is appended.        *)
LEMMA TwoPieces ==
  ASSUME NEW s \in Text, NEW first \in Text, NEW second \in Text
  PROVE  LET pos == Len(s) + 1 + Len(first)
             str == sinsert(sinsert(s, first, Len(s) + 1), second, pos)
         IN  str = s \o (first \o second) /\ pos + Len(second) = Len(str) + 1
<1>1. sinsert(s, first, Len(s) + 1) = s \o first
  BY Zenon, SinsertAppends
<1>2. s \o first \in Text /\ Len(s \o first) = Len(s) + Len(first)
  BY Zenon, Joined
<1>3. Len(s) \in Nat /\ Len(first) \in Nat /\ Len(second) \in Nat
  BY DEF Text
<1>4. Len(s) + 1 + Len(first) = Len(s \o first) + 1
  BY <1>2, <1>3
<1>5. sinsert(s \o first, second, Len(s \o first) + 1) = (s \o first) \o second
  BY Zenon, <1>2, SinsertAppends
<1>6. (s \o first) \o second = s \o (first \o second)
  BY ConcatAssociative DEF Text
<1>7. Len((s \o first) \o second) = Len(s) + Len(first) + Len(second)
  BY Zenon, <1>2, Joined
<1>8. sinsert(sinsert(s, first, Len(s) + 1), second, Len(s) + 1 + Len(first)) = (s \o first) \o second
  BY Zenon, <1>1, <1>4, <1>5
<1>9. Len(s) + 1 + Len(first) + Len(second) = Len((s \o first) \o second) + 1
  BY <1>3, <1>7
<1> QED BY Zenon, <1>6, <1>8, <1>9

(* What SYS_writev does, whatever the position.                            *)
WritevEffect(text) ==
  \E k \in DOMAIN registry, t \in DOMAIN buf, str \in Text, x \in -MaxPos..MaxPos :
    /\ registry[k] \in [top : DOMAIN buf, pos : -MaxPos..MaxPos] /\ registry[k].top = t
    /\ registry' = [registry EXCEPT ![k].pos = x]
    /\ buf' = [buf EXCEPT ![t] = str]
    /\ log' = Logged(t, text)
    /\ Keeps(buf[t], str)
    /\ registry[k].pos = Len(buf[t]) + 1 => str = buf[t] \o text /\ x = Len(str) + 1

(* Lemma: it does.                                                         *)
LEMMA WritevDoes ==
  ASSUME TypeOK, NEW fd \in Open, NEW first \in Buffers, NEW second \in Buffers,
         SysWritev(fd, first, second)
  PROVE  WritevEffect(first \o second)
<1>1. first \in Text /\ second \in Text
  BY Zenon, BuffersAssumption DEF Text
<1>2. PICK d : d = Descriptor(fd)
  BY Zenon
<1>3. d # Failed
  BY Zenon, <1>2 DEF SysWritev
<1>4. PICK k \in DOMAIN registry : k = fd - 2
  BY Zenon, <1>2, <1>3, DescriptorOf
<1>5. d = registry[k] /\ d \in [top : DOMAIN buf, pos : -MaxPos..MaxPos] /\ d.top \in DOMAIN buf
  BY Zenon, <1>2, <1>3, <1>4, DescriptorOf
<1>6. PICK s \in Text : s = buf[d.top]
  BY Zenon, <1>2, <1>3, DescriptorOf
<1>7. PICK pos \in -MaxPos..MaxPos : pos = d.pos
  BY Zenon, <1>5
<1>8. pos \in Int /\ Len(first) \in Nat /\ Len(second) \in Nat
  BY <1>1, Positions DEF Text
<1>9. PICK mid : mid = sinsert(s, first, pos)
  BY Zenon
<1>10. PICK str : str = sinsert(mid, second, pos + Len(first))
  BY Zenon
<1>11. mid \in Text /\ Keeps(s, mid)
  BY Zenon, <1>1, <1>8, <1>9, SinsertKeeps
<1>12. str \in Text /\ Keeps(mid, str)
  <2>1. pos + Len(first) \in Int
    BY <1>8
  <2> QED BY Zenon, <1>1, <1>10, <1>11, <2>1, SinsertKeeps
<1>13. Keeps(s, str)
  BY Zenon, <1>11, <1>12, KeepsTransitive
<1>14. PICK x : x = pos + Len(first) + Len(second)
  BY Zenon
<1>15. x <= MaxPos /\ registry' = [registry EXCEPT ![k].pos = x] /\ buf' = [buf EXCEPT ![d.top] = str]
  BY Zenon, <1>2, <1>4, <1>6, <1>7, <1>9, <1>10, <1>14 DEF SysWritev, Advanced
<1>16. x \in -MaxPos..MaxPos
  BY <1>7, <1>8, <1>14, <1>15, NumbersAssumption
<1>17. log' = Logged(d.top, first \o second)
  BY Zenon, <1>2 DEF SysWritev
<1>18. pos = Len(s) + 1 => str = s \o (first \o second) /\ x = Len(str) + 1
  <2>1. SUFFICES ASSUME pos = Len(s) + 1 PROVE str = s \o (first \o second) /\ x = Len(str) + 1
    BY Zenon
  <2>2. str = sinsert(sinsert(s, first, Len(s) + 1), second, Len(s) + 1 + Len(first))
    BY Zenon, <1>9, <1>10, <2>1
  <2>3. x = Len(s) + 1 + Len(first) + Len(second)
    BY Zenon, <1>14, <2>1
  <2> QED BY Zenon, <1>1, <2>2, <2>3, TwoPieces
<1>19. PICK t \in DOMAIN buf : t = d.top
  BY Zenon, <1>5
<1>20. /\ registry[k] \in [top : DOMAIN buf, pos : -MaxPos..MaxPos] /\ registry[k].top = t
       /\ registry[k].pos = pos /\ s = buf[t] /\ buf' = [buf EXCEPT ![t] = str]
       /\ log' = Logged(t, first \o second)
  BY Zenon, <1>5, <1>6, <1>7, <1>15, <1>17, <1>19
<1>21. registry[k].pos = Len(buf[t]) + 1 => str = buf[t] \o (first \o second) /\ x = Len(str) + 1
  BY Zenon, <1>18, <1>20
<1>22. Keeps(buf[t], str)
  BY Zenon, <1>13, <1>20
<1>23. \E m \in DOMAIN registry, e \in DOMAIN buf, new \in Text, y \in -MaxPos..MaxPos :
         /\ registry[m] \in [top : DOMAIN buf, pos : -MaxPos..MaxPos] /\ registry[m].top = e
         /\ registry' = [registry EXCEPT ![m].pos = y]
         /\ buf' = [buf EXCEPT ![e] = new]
         /\ log' = Logged(e, first \o second)
         /\ Keeps(buf[e], new)
         /\ registry[m].pos = Len(buf[e]) + 1 =>
              new = buf[e] \o (first \o second) /\ y = Len(new) + 1
  <2>1. /\ registry[k] \in [top : DOMAIN buf, pos : -MaxPos..MaxPos] /\ registry[k].top = t
        /\ registry' = [registry EXCEPT ![k].pos = x]
        /\ buf' = [buf EXCEPT ![t] = str]
        /\ log' = Logged(t, first \o second)
        /\ Keeps(buf[t], str)
        /\ registry[k].pos = Len(buf[t]) + 1 =>
             str = buf[t] \o (first \o second) /\ x = Len(str) + 1
    BY Zenon, <1>15, <1>20, <1>21, <1>22
  <2>2. str \in Text /\ x \in -MaxPos..MaxPos
    BY Zenon, <1>12, <1>16
  <2> QED BY ZenonT(30), <2>1, <2>2
<1> QED BY <1>23, Zenon DEF WritevEffect

(* Lemma: the history of an entry that is written.                         *)
LEMMA LoggedType ==
  ASSUME TypeOK, NEW t \in DOMAIN buf, NEW text \in Text
  PROVE  /\ Logged(t, text) \in Seq(Text \cup {Mixed}) /\ Len(Logged(t, text)) = Len(buf)
         /\ \A e \in DOMAIN buf : e # t => Logged(t, text)[e] = log[e]
         /\ Logged(t, text)[t] # Mixed => log[t] # Mixed /\ Logged(t, text)[t] = log[t] \o text
<1>1. log \in Seq(Text \cup {Mixed}) /\ DOMAIN log = DOMAIN buf /\ buf \in Seq(Text)
  BY Zenon, Types
<1>2. CASE log[t] = Mixed
  <2>1. Logged(t, text) = log
    BY Zenon, <1>2 DEF Logged
  <2> QED BY <1>1, <1>2, <2>1
<1>3. CASE log[t] # Mixed
  <2>1. log[t] \in Text
    BY <1>1, <1>3
  <2>2. PICK new \in Text : new = log[t] \o text
    BY Zenon, <2>1, Joined
  <2>3. Logged(t, text) = [log EXCEPT ![t] = new]
    BY Zenon, <1>3, <2>2 DEF Logged
  <2> QED BY <1>1, <1>3, <2>2, <2>3, ExceptSeq
<1> QED BY Zenon, <1>2, <1>3

(* Lemma: an entry gets new contents.                                      *)
LEMMA Rewritten ==
  ASSUME TypeOK, NEW t \in DOMAIN buf, NEW str \in Text, buf' = [buf EXCEPT ![t] = str]
  PROVE  /\ buf' \in Seq(Text) /\ Len(buf') = Len(buf) /\ DOMAIN buf' = DOMAIN buf /\ buf'[t] = str
         /\ \A e \in DOMAIN buf : e # t => buf'[e] = buf[e]
<1>1. buf \in Seq(Text)
  BY Zenon, Types
<1> QED BY <1>1, ExceptSeq

(* Lemma: SYS_writev.                                                      *)
LEMMA WritevStep ==
  ASSUME FInv, NEW fd \in Open, NEW first \in Buffers, NEW second \in Buffers,
         SysWritev(fd, first, second)
  PROVE  FInv'
<1>1. TypeOK /\ (\A e \in DOMAIN buf : Sole(e))
  BY Zenon DEF FInv
<1>2. WritevEffect(first \o second)
  BY Zenon, <1>1, WritevDoes
<1>3. PICK k \in DOMAIN registry, t \in DOMAIN buf, str \in Text, x \in -MaxPos..MaxPos :
        /\ registry[k] \in [top : DOMAIN buf, pos : -MaxPos..MaxPos] /\ registry[k].top = t
        /\ registry' = [registry EXCEPT ![k].pos = x]
        /\ buf' = [buf EXCEPT ![t] = str]
        /\ log' = Logged(t, first \o second)
        /\ Keeps(buf[t], str)
        /\ registry[k].pos = Len(buf[t]) + 1 =>
             str = buf[t] \o (first \o second) /\ x = Len(str) + 1
  BY <1>2, Zenon DEF WritevEffect
<1>4. /\ fs' = fs /\ running' = running /\ direct' = direct
      /\ data' = <<>> /\ wanted' = 0
  BY Zenon DEF SysWritev
<1>5. /\ buf' \in Seq(Text) /\ Len(buf') = Len(buf) /\ DOMAIN buf' = DOMAIN buf /\ buf'[t] = str
      /\ \A e \in DOMAIN buf : e # t => buf'[e] = buf[e]
  BY Zenon, <1>1, <1>3, Rewritten
<1>6. PICK text \in Text : text = first \o second
  <2>1. first \in Text /\ second \in Text
    BY Zenon, BuffersAssumption DEF Text
  <2> QED BY Zenon, <2>1, Joined
<1>7. /\ log' \in Seq(Text \cup {Mixed}) /\ Len(log') = Len(buf)
      /\ \A e \in DOMAIN buf : e # t => log'[e] = log[e]
      /\ log'[t] # Mixed => log[t] # Mixed /\ log'[t] = log[t] \o text
  BY Zenon, <1>1, <1>3, <1>6, LoggedType
<1>8. registry \in Seq(Descriptors)
  BY Zenon, <1>1, Types
<1>9. /\ registry' \in Seq(Descriptors) /\ DOMAIN registry' = DOMAIN registry
      /\ \A m \in DOMAIN registry : registry'[m].top = registry[m].top
      /\ \A m \in DOMAIN registry : m # k => registry'[m] = registry[m]
      /\ registry'[k].pos = x
  BY <1>3, <1>8, Moved DEF Descriptors
<1>10. TypeOK'
  <2>1. Descriptors' = Descriptors
    BY Zenon, <1>5 DEF Descriptors
  <2> QED BY Zenon, <1>1, <1>4, <1>5, <1>7, <1>9, <2>1 DEF TypeOK, Descriptors, Text
<1>11. ASSUME NEW e \in DOMAIN buf PROVE Sole(e)'
  <2>1. CASE e # t
    BY Zenon, <1>1, <1>3, <1>4, <1>5, <1>7, <1>9, <2>1, OthersStay
  <2>2. CASE e = t
    <3>1. SUFFICES ASSUME log'[t] # Mixed PROVE Sole(e)'
      BY Zenon, <2>2 DEF Sole
    <3>2. log[t] # Mixed /\ log'[t] = log[t] \o text /\ Sole(t)
      BY Zenon, <1>1, <1>7, <3>1
    <3>3. buf[t] = log[t] /\ registry[k].pos = Len(buf[t]) + 1
      BY Zenon, <1>3, <3>2 DEF Sole
    <3>4. buf'[t] = log'[t] /\ x = Len(buf'[t]) + 1
      BY Zenon, <1>3, <1>5, <1>6, <3>2, <3>3
    <3>5. \A m \in DOMAIN registry' : registry'[m].top = t => m = k
      BY Zenon, <1>3, <1>9, <3>2 DEF Sole
    <3>6. ~DirectOn(t)'
      BY Zenon, <1>3, <1>4, <3>2 DEF Sole, DirectOn
    <3> QED BY Zenon, <1>9, <2>2, <3>4, <3>5, <3>6 DEF Sole
  <2> QED BY Zenon, <2>1, <2>2
<1>12. ReadExceedsByAtMostOne'
  BY <1>4 DEF ReadExceedsByAtMostOne
<1> QED BY Zenon, <1>4, <1>5, <1>10, <1>11, <1>12 DEF FInv

(* Lemma: a task's own call of open.                                       *)
LEMMA DirectOpenStep ==
  ASSUME FInv, NEW p \in Paths, NEW creat \in BOOLEAN, DirectOpen(p, creat)
  PROVE  FInv'
<1>1. TypeOK /\ (\A e \in DOMAIN buf : Sole(e)) /\ direct.pc = "open" /\ direct.pos = 1
  BY Zenon DEF FInv, DirectOpen
<1>2. fs' = fs /\ buf' = buf /\ registry' = registry /\ running' = running /\ data' = data /\ wanted' = wanted
  BY Zenon DEF DirectOpen
<1>3. ReadExceedsByAtMostOne'
  BY Zenon, <1>2 DEF FInv, ReadExceedsByAtMostOne
<1>4. CASE direct' = [direct EXCEPT !.pc = "create", !.path = p] /\ log' = log
  <2>1. direct'.pc = "create" /\ direct'.pos = 1 /\ direct'.path = p
    BY Zenon, <1>1, <1>4 DEF TypeOK
  <2>2. TypeOK'
    BY Zenon, <1>1, <1>2, <1>4 DEF TypeOK
  <2>3. \A e \in DOMAIN buf : Sole(e)'
    BY <1>1, <1>2, <1>4, <2>1 DEF Sole, DirectOn
  <2> QED BY Zenon, <1>2, <1>3, <2>1, <2>2, <2>3 DEF FInv
<1>5. CASE /\ fs[p] # 0
           /\ direct' = [direct EXCEPT !.pc = "write", !.path = p, !.top = fs[p]]
           /\ log' = [log EXCEPT ![fs[p]] = Mixed]
  <2>1. /\ fs \in [Paths -> 0..Len(buf)] /\ buf \in Seq(Text)
        /\ log \in Seq(Text \cup {Mixed}) /\ DOMAIN log = DOMAIN buf
    BY Zenon, <1>1, Types
  <2>2. PICK t \in DOMAIN buf : t = fs[p]
    BY <1>5, <2>1
  <2>3. /\ log' \in Seq(Text \cup {Mixed}) /\ Len(log') = Len(buf) /\ log'[t] = Mixed
        /\ \A e \in DOMAIN buf : e # t => log'[e] = log[e]
    BY <1>5, <2>1, <2>2, ExceptSeq
  <2>4. direct'.pc = "write" /\ direct'.top = t
    BY Zenon, <1>1, <1>5, <2>2 DEF TypeOK
  <2>5. TypeOK'
    <3>1. t \in Nat
      BY <2>1, <2>2
    <3>2. direct' \in [pc : {"open", "create", "write", "assign"}, path : Paths \cup {""}, top : Nat,
                       pos : 1..MaxPos, str : Seq(Bytes), text : Seq(Bytes)]
      BY Zenon, <1>1, <1>5, <2>2, <3>1 DEF TypeOK
    <3> QED BY Zenon, <1>1, <1>2, <2>2, <2>3, <2>4, <3>2 DEF TypeOK, Text
  <2>6. ASSUME NEW e \in DOMAIN buf PROVE Sole(e)'
    <3>1. CASE e = t
      BY Zenon, <2>3, <3>1 DEF Sole
    <3>2. CASE e # t
      BY <1>1, <1>2, <2>3, <2>4, <3>2 DEF Sole, DirectOn
    <3> QED BY Zenon, <3>1, <3>2
  <2> QED BY Zenon, <1>2, <1>3, <2>4, <2>5, <2>6 DEF FInv
<1> QED BY Zenon, <1>4, <1>5 DEF DirectOpen

(* Lemma: a task's own open stores its new entry.                          *)
LEMMA DirectCreateStep ==
  ASSUME FInv, DirectCreate
  PROVE  FInv'
<1>1. TypeOK /\ (\A e \in DOMAIN buf : Sole(e)) /\ direct.pc = "create" /\ direct.pos = 1
  BY Zenon DEF FInv, DirectCreate
<1>2. /\ fs \in [Paths -> 0..Len(buf)] /\ registry \in Seq(Descriptors)
      /\ buf \in Seq(Text) /\ DOMAIN buf = 1..Len(buf) /\ Len(buf) \in Nat
      /\ log \in Seq(Text \cup {Mixed}) /\ DOMAIN log = DOMAIN buf
  BY Zenon, <1>1, Types
<1>3. PICK new \in Nat : new = Len(buf) + 1
  BY <1>2
<1>4. /\ fs' = [fs EXCEPT ![direct.path] = new] /\ buf' = Append(buf, <<>>)
      /\ log' = Append(log, <<>>) /\ direct' = [direct EXCEPT !.pc = "write", !.top = new]
      /\ registry' = registry /\ running' = running /\ data' = data /\ wanted' = wanted
  BY Zenon, <1>3 DEF DirectCreate, NewEntry
<1>5. <<>> \in Text /\ <<>> \in Text \cup {Mixed}
  BY DEF Text
<1>6. /\ buf' \in Seq(Text) /\ Len(buf') = new /\ DOMAIN buf' = DOMAIN buf \cup {new}
      /\ (\A e \in DOMAIN buf : buf'[e] = buf[e]) /\ buf'[new] = <<>>
  BY <1>2, <1>3, <1>4, <1>5, Appended
<1>7. /\ log' \in Seq(Text \cup {Mixed}) /\ Len(log') = new
      /\ (\A e \in DOMAIN buf : log'[e] = log[e]) /\ log'[new] = <<>>
  <2>1. Len(log) = Len(buf)
    BY Zenon, <1>1 DEF TypeOK
  <2> QED BY <1>2, <1>3, <1>4, <1>5, <2>1, Appended
<1>8. new \notin DOMAIN buf
  BY <1>2, <1>3
<1>9. \A k \in DOMAIN registry : registry[k].top # new
  <2> TAKE k \in DOMAIN registry
  <2>1. registry[k].top \in 0..Len(buf)
    BY Zenon, <1>1, TopExists
  <2> QED BY <1>2, <1>3, <2>1
<1>10. direct'.pc = "write" /\ direct'.top = new /\ direct'.pos = 1
  BY Zenon, <1>1, <1>4 DEF TypeOK
<1>11. TypeOK'
  <2>1. direct' \in [pc : {"open", "create", "write", "assign"}, path : Paths \cup {""}, top : Nat,
                     pos : 1..MaxPos, str : Seq(Bytes), text : Seq(Bytes)]
    BY Zenon, <1>1, <1>4 DEF TypeOK
  <2>2. fs' \in [Paths -> 0..Len(buf')]
    <3>1. direct.path \in Paths
      BY Zenon, <1>1 DEF TypeOK
    <3> QED BY <1>2, <1>3, <1>4, <1>6, <3>1
  <2>3. Descriptors \subseteq Descriptors'
    <3>1. [top : DOMAIN buf, pos : -MaxPos..MaxPos] \subseteq [top : DOMAIN buf', pos : -MaxPos..MaxPos]
      BY Zenon, <1>6
    <3> QED BY Zenon, <3>1 DEF Descriptors
  <2>4. registry' \in Seq(Descriptors')
    BY <1>2, <1>4, <2>3
  <2> QED BY Zenon, <1>1, <1>4, <1>6, <1>7, <1>10, <2>1, <2>2, <2>4 DEF TypeOK, Descriptors, Text
<1>12. ASSUME NEW e \in DOMAIN buf PROVE Sole(e)'
  <2>1. Sole(e) /\ buf'[e] = buf[e] /\ log'[e] = log[e] /\ e # new
    BY Zenon, <1>1, <1>6, <1>7, <1>8
  <2>2. ~DirectOn(e)'
    BY Zenon, <1>10, <2>1 DEF DirectOn
  <2> QED BY Zenon, <1>4, <2>1, <2>2 DEF Sole
<1>13. Sole(new)'
  <2>1. Len(buf'[new]) = 0
    BY Zenon, <1>6
  <2> QED BY <1>4, <1>6, <1>7, <1>9, <1>10, <2>1 DEF Sole
<1>14. ReadExceedsByAtMostOne'
  BY Zenon, <1>4 DEF FInv, ReadExceedsByAtMostOne
<1> QED BY Zenon, <1>6, <1>10, <1>11, <1>12, <1>13, <1>14 DEF FInv

(* Lemma: a task's own write reads the contents.                           *)
LEMMA DirectWriteStep ==
  ASSUME FInv, NEW text \in Buffers, DirectWrite(text)
  PROVE  FInv'
<1>1. TypeOK /\ (\A e \in DOMAIN buf : Sole(e)) /\ direct.pc = "write"
  BY Zenon DEF FInv, DirectWrite
<1>2. /\ direct' = [direct EXCEPT !.pc = "assign", !.str = buf[direct.top], !.text = text]
      /\ fs' = fs /\ buf' = buf /\ registry' = registry /\ running' = running /\ data' = data
      /\ wanted' = wanted /\ log' = log
  BY Zenon DEF DirectWrite
<1>3. direct.top \in DOMAIN buf /\ text \in Seq(Bytes) /\ buf[direct.top] \in Seq(Bytes)
  <2>1. direct.top \in DOMAIN buf
    BY Zenon, <1>1 DEF TypeOK
  <2>2. buf[direct.top] \in Text
    BY <1>1, <2>1, Types
  <2> QED BY Zenon, <2>1, <2>2, BuffersAssumption DEF Text
<1>4. direct' \in [pc : {"open", "create", "write", "assign"}, path : Paths \cup {""}, top : Nat,
                   pos : 1..MaxPos, str : Seq(Bytes), text : Seq(Bytes)]
  BY Zenon, <1>1, <1>2, <1>3 DEF TypeOK
<1>5. /\ direct'.pc = "assign" /\ direct'.top = direct.top /\ direct'.pos = direct.pos
      /\ direct'.str = buf[direct.top]
  BY Zenon, <1>1, <1>2 DEF TypeOK
<1>6. TypeOK'
  BY Zenon, <1>1, <1>2, <1>3, <1>4, <1>5 DEF TypeOK
<1>7. ASSUME NEW e \in DOMAIN buf PROVE Sole(e)'
  <2>1. Sole(e)
    BY Zenon, <1>1
  <2>2. DirectOn(e)' => DirectOn(e)
    BY Zenon, <1>1, <1>5 DEF DirectOn
  <2>3. DirectOn(e)' => direct'.str = buf[e]
    BY Zenon, <1>5 DEF DirectOn
  <2> QED BY Zenon, <1>2, <1>5, <2>1, <2>2, <2>3 DEF Sole
<1>8. ReadExceedsByAtMostOne'
  BY Zenon, <1>2 DEF FInv, ReadExceedsByAtMostOne
<1> QED BY Zenon, <1>2, <1>5, <1>6, <1>7, <1>8 DEF FInv

(* Lemma: what a task's own write assigns.                                 *)
LEMMA DirectAssignDoes ==
  ASSUME TypeOK, DirectAssign
  PROVE  \E t \in DOMAIN buf, str \in Text, text \in Text, x \in 1..MaxPos :
           /\ t = direct.top /\ text = direct.text
           /\ buf' = [buf EXCEPT ![t] = str]
           /\ log' = Logged(t, text)
           /\ direct' = [direct EXCEPT !.pc = "write", !.pos = x, !.str = <<>>, !.text = <<>>]
           /\ direct.str = buf[t] => Keeps(buf[t], str)
           /\ direct.str = buf[t] /\ direct.pos = Len(buf[t]) + 1 =>
                str = buf[t] \o text /\ x = Len(str) + 1
<1>1. PICK t \in DOMAIN buf : t = direct.top
  BY Zenon DEF TypeOK, DirectAssign
<1>2. PICK s \in Text, text \in Text : s = direct.str /\ text = direct.text
  BY Zenon DEF TypeOK, Text
<1>3. PICK pos \in 1..MaxPos : pos = direct.pos
  BY Zenon DEF TypeOK
<1>4. PICK str : str = sinsert(s, text, pos)
  BY Zenon
<1>5. pos \in Int /\ Len(text) \in Nat /\ Len(s) \in Nat
  BY <1>2, NumbersAssumption DEF Text
<1>6. str \in Text /\ Keeps(s, str)
  BY Zenon, <1>2, <1>4, <1>5, SinsertKeeps
<1>7. PICK x : x = pos + Len(text)
  BY Zenon
<1>8. /\ x <= MaxPos /\ buf' = [buf EXCEPT ![t] = str] /\ log' = Logged(t, text)
      /\ direct' = [direct EXCEPT !.pc = "write", !.pos = x, !.str = <<>>, !.text = <<>>]
  BY Zenon, <1>1, <1>2, <1>3, <1>4, <1>7 DEF DirectAssign, Advanced
<1>9. x \in 1..MaxPos
  BY <1>3, <1>5, <1>7, <1>8, NumbersAssumption
<1>10. s = buf[t] /\ pos = Len(buf[t]) + 1 => str = buf[t] \o text /\ x = Len(str) + 1
  <2>1. SUFFICES ASSUME s = buf[t], pos = Len(s) + 1 PROVE str = s \o text /\ x = Len(str) + 1
    BY Zenon
  <2>2. str = s \o text
    BY Zenon, <1>2, <1>4, <2>1, SinsertAppends
  <2>3. Len(s \o text) = Len(s) + Len(text)
    BY Zenon, <1>2, Joined
  <2> QED BY <1>5, <1>7, <2>1, <2>2, <2>3
<1>11. direct.str = buf[t] => Keeps(buf[t], str)
  BY Zenon, <1>2, <1>6
<1>12. direct.str = buf[t] /\ direct.pos = Len(buf[t]) + 1 => str = buf[t] \o text /\ x = Len(str) + 1
  BY Zenon, <1>2, <1>3, <1>10
<1> QED BY ZenonT(30), <1>1, <1>2, <1>6, <1>8, <1>9, <1>11, <1>12

(* Lemma: a task's own write assigns the contents.                         *)
LEMMA DirectAssignStep ==
  ASSUME FInv, DirectAssign
  PROVE  FInv'
<1>1. TypeOK /\ (\A e \in DOMAIN buf : Sole(e)) /\ direct.pc = "assign"
  BY Zenon DEF FInv, DirectAssign
<1>2. PICK t \in DOMAIN buf, str \in Text, text \in Text, x \in 1..MaxPos :
        /\ t = direct.top /\ text = direct.text
        /\ buf' = [buf EXCEPT ![t] = str]
        /\ log' = Logged(t, text)
        /\ direct' = [direct EXCEPT !.pc = "write", !.pos = x, !.str = <<>>, !.text = <<>>]
        /\ direct.str = buf[t] => Keeps(buf[t], str)
        /\ direct.str = buf[t] /\ direct.pos = Len(buf[t]) + 1 =>
             str = buf[t] \o text /\ x = Len(str) + 1
  BY Zenon, <1>1, DirectAssignDoes
<1>3. fs' = fs /\ registry' = registry /\ running' = running /\ data' = data /\ wanted' = wanted
  BY Zenon DEF DirectAssign
<1>4. /\ buf' \in Seq(Text) /\ Len(buf') = Len(buf) /\ DOMAIN buf' = DOMAIN buf /\ buf'[t] = str
      /\ \A e \in DOMAIN buf : e # t => buf'[e] = buf[e]
  BY Zenon, <1>1, <1>2, Rewritten
<1>5. /\ log' \in Seq(Text \cup {Mixed}) /\ Len(log') = Len(buf)
      /\ \A e \in DOMAIN buf : e # t => log'[e] = log[e]
      /\ log'[t] # Mixed => log[t] # Mixed /\ log'[t] = log[t] \o text
  BY ZenonT(60), <1>1, <1>2, LoggedType
<1>6. direct'.pc = "write" /\ direct'.top = t /\ direct'.pos = x
  BY Zenon, <1>1, <1>2 DEF TypeOK
<1>7. direct' \in [pc : {"open", "create", "write", "assign"}, path : Paths \cup {""}, top : Nat,
                   pos : 1..MaxPos, str : Seq(Bytes), text : Seq(Bytes)]
  <2>1. <<>> \in Seq(Bytes)
    OBVIOUS
  <2> QED BY Zenon, <1>1, <1>2, <2>1 DEF TypeOK
<1>8. TypeOK'
  <2>1. Descriptors' = Descriptors
    BY Zenon, <1>4 DEF Descriptors
  <2> QED BY <1>1, <1>3, <1>4, <1>5, <1>6, <1>7, <2>1 DEF TypeOK, Descriptors, Text
<1>9. ASSUME NEW e \in DOMAIN buf PROVE Sole(e)'
  <2>1. CASE e # t
    <3>1. ~DirectOn(e)' /\ Sole(e) /\ buf'[e] = buf[e] /\ log'[e] = log[e]
      BY Zenon, <1>1, <1>4, <1>5, <1>6, <2>1 DEF DirectOn
    <3> QED BY Zenon, <1>3, <3>1 DEF Sole
  <2>2. CASE e = t
    <3>1. SUFFICES ASSUME log'[t] # Mixed PROVE Sole(e)'
      BY Zenon, <2>2 DEF Sole
    <3>2. log[t] # Mixed /\ log'[t] = log[t] \o text /\ Sole(t) /\ DirectOn(t)
      BY Zenon, <1>1, <1>2, <1>5, <3>1 DEF DirectOn
    <3>3. /\ buf[t] = log[t] /\ direct.pos = Len(buf[t]) + 1 /\ direct.str = buf[t]
          /\ \A k \in DOMAIN registry : registry[k].top # t
      BY Zenon, <1>1, <3>2 DEF Sole
    <3>4. buf'[t] = log'[t] /\ x = Len(buf'[t]) + 1
      BY Zenon, <1>2, <1>4, <3>2, <3>3
    <3> QED BY Zenon, <1>3, <1>6, <2>2, <3>3, <3>4 DEF Sole
  <2> QED BY Zenon, <2>1, <2>2
<1>10. ReadExceedsByAtMostOne'
  BY Zenon, <1>3 DEF FInv, ReadExceedsByAtMostOne
<1> QED BY Zenon, <1>4, <1>6, <1>8, <1>9, <1>10 DEF FInv

-----------------------------------------------------------------------------
(* Lemma: the invariant holds after Init of luakernel.lua's fs table.      *)
LEMMA FInit == Init => FInv
<1> SUFFICES ASSUME Init PROVE FInv
  BY Zenon
<1>1. /\ Devices \in Seq(STRING) /\ DOMAIN Devices = 1..Len(Devices) /\ Len(Devices) \in Nat
  BY PathsAssumption
<1>2. buf = [k \in 1..Len(Devices) |-> <<>>] /\ log = [k \in 1..Len(Devices) |-> Mixed]
  BY Zenon, <1>1 DEF Init
<1>3. buf \in Seq(Text) /\ Len(buf) = Len(Devices) /\ DOMAIN buf = 1..Len(Devices)
  <2>1. <<>> \in Text
    BY DEF Text
  <2> QED BY <1>1, <1>2, <2>1
<1>4. log \in Seq(Text \cup {Mixed}) /\ Len(log) = Len(Devices)
  BY <1>1, <1>2
<1>5. fs \in [Paths -> 0..Len(buf)]
  <2>1. ASSUME NEW p \in Paths, p \notin Names
        PROVE  (CHOOSE k \in DOMAIN Devices : Devices[k] = p) \in 0..Len(buf)
    <3>1. \E k \in DOMAIN Devices : Devices[k] = p
      BY Zenon, <2>1 DEF Paths
    <3>2. (CHOOSE k \in DOMAIN Devices : Devices[k] = p) \in DOMAIN Devices
      BY Zenon, <3>1
    <3> QED BY <1>1, <1>3, <3>2
  <2>2. 0 \in 0..Len(buf)
    BY <1>1, <1>3
  <2> QED BY Zenon, <2>1, <2>2 DEF Init
<1>6. direct = [pc |-> "open", path |-> "", top |-> 0, pos |-> 1, str |-> <<>>, text |-> <<>>]
  BY Zenon DEF Init
<1>7. registry = <<>>
  BY Zenon DEF Init
<1>8. running = TRUE /\ wanted = 0
  BY Zenon DEF Init
<1>9. data = <<>>
  BY Zenon DEF Init
<1>10. registry \in Seq(Descriptors) /\ DOMAIN registry = {}
  <2>1. <<>> \in Seq(Descriptors) /\ DOMAIN <<>> = {}
    OBVIOUS
  <2> QED BY Zenon, <1>7, <2>1
<1>11. direct \in [pc : {"open", "create", "write", "assign"}, path : Paths \cup {""}, top : Nat,
                  pos : 1..MaxPos, str : Seq(Bytes), text : Seq(Bytes)]
  <2>1. 1 \in 1..MaxPos /\ <<>> \in Seq(Bytes)
    BY NumbersAssumption
  <2> QED BY Zenon, <1>6, <2>1
<1>12. direct.pc = "open" /\ direct.pos = 1
  BY Zenon, <1>6
<1>13. running \in BOOLEAN /\ wanted \in Counts \cup {0} /\ ReadExceedsByAtMostOne
  <2>1. Len(data) = 0
    BY Zenon, <1>9
  <2> QED BY <1>8, <2>1 DEF ReadExceedsByAtMostOne
<1>14. TypeOK
  BY <1>3, <1>4, <1>5, <1>10, <1>11, <1>12, <1>13 DEF TypeOK, Descriptors, Text
<1>15. \A e \in DOMAIN buf : Sole(e)
  BY Zenon, <1>2, <1>3 DEF Sole
<1> QED BY Zenon, <1>12, <1>13, <1>14, <1>15 DEF FInv

(* Lemma: every step preserves the invariant.                              *)
LEMMA FStep == FInv /\ [Next]_vars => FInv'
<1> SUFFICES ASSUME FInv, [Next]_vars PROVE FInv'
  BY Zenon
<1>1. ASSUME NEW p \in Paths, NEW creat \in BOOLEAN, SysOpen(p, creat) PROVE FInv'
  BY Zenon, <1>1, OpenCreates, OpenFinds
<1>2. ASSUME NEW fd, ErrorInCall(fd) PROVE FInv'
  <2>1. running' \in BOOLEAN /\ UNCHANGED <<fs, buf, registry, direct, log>> /\ UNCHANGED <<data, wanted>>
    BY Zenon, <1>2 DEF ErrorInCall
  <2> QED BY Zenon, <2>1, QuietStep
<1>3. ASSUME NEW fd \in Open, SysClose(fd) PROVE FInv'
  <2>1. running' \in BOOLEAN
    BY Zenon, <1>3 DEF SysClose, FInv, TypeOK
  <2>2. UNCHANGED <<fs, buf, registry, direct, log>> /\ data' = <<>> /\ wanted' = 0
    BY Zenon, <1>3 DEF SysClose
  <2> QED BY Zenon, <2>1, <2>2, QuietStep
<1>4. CASE UNCHANGED vars
  <2>1. running' \in BOOLEAN
    BY Zenon, <1>4 DEF vars, FInv, TypeOK
  <2>2. UNCHANGED <<fs, buf, registry, direct, log>> /\ UNCHANGED <<data, wanted>>
    BY Zenon, <1>4 DEF vars
  <2> QED BY Zenon, <2>1, <2>2, QuietStep
<1>5. CASE SystemCall
  BY Zenon, <1>1, <1>2, <1>3, <1>5, LseekStep, ReadStep, WritevStep DEF SystemCall
<1>6. CASE Direct
  BY Zenon, <1>6, DirectOpenStep, DirectCreateStep, DirectWriteStep, DirectAssignStep DEF Direct
<1> QED BY Zenon, <1>4, <1>5, <1>6 DEF Next

(* The invariant holds in every behaviour.                                 *)
THEOREM FileSystemInvariance == Spec => []FInv
BY FInit, FStep, PTL DEF Spec

(* A descriptor always refers to an entry that exists, and a direct write  *)
(* to one, whatever calls came before.                                     *)
THEOREM FileSystemTypes == Spec => []TypeOK
<1>1. FInv => TypeOK
  BY Zenon DEF FInv
<1> QED BY <1>1, FileSystemInvariance, PTL

(* A new file written in sequence through one descriptor holds what was    *)
(* written, in one piece or in two, for texts of any length.               *)
THEOREM WritesConcatenate == Spec => []SequentialWritesConcatenate
<1>1. FInv => SequentialWritesConcatenate
  BY Zenon DEF FInv, Sole, SequentialWritesConcatenate
<1> QED BY <1>1, FileSystemInvariance, PTL

(* SYS_read never copies more than one byte past what was asked for.       *)
THEOREM ReadIsBounded == Spec => []ReadExceedsByAtMostOne
<1>1. FInv => ReadExceedsByAtMostOne
  BY Zenon DEF FInv
<1> QED BY <1>1, FileSystemInvariance, PTL

(* No call destroys what is in a file, except the assignment of a direct   *)
(* write that was preempted after it had read the contents.                *)
THEOREM NothingIsOverwritten == Spec => NothingOverwritten
<1>1. ASSUME FInv, [Next]_vars, NEW e \in DOMAIN buf, ~StaleAssignment, buf'[e] # buf[e]
      PROVE  Keeps(buf[e], buf'[e])
  <2>1. TypeOK
    BY Zenon, <1>1 DEF FInv
  <2>2. buf \in Seq(Text)
    BY Zenon, <2>1, Types
  <2>3. ASSUME buf' = Append(buf, <<>>) PROVE FALSE
    <3>1. buf'[e] = buf[e]
      BY <2>2, <2>3
    <3> QED BY Zenon, <1>1, <3>1
  <2>4. ASSUME buf' = buf PROVE FALSE
    BY Zenon, <1>1, <2>4
  <2>5. ASSUME NEW fd \in Open, NEW first \in Buffers, NEW second \in Buffers,
               SysWritev(fd, first, second)
        PROVE  Keeps(buf[e], buf'[e])
    <3>1. WritevEffect(first \o second)
      BY Zenon, <2>1, <2>5, WritevDoes
    <3>2. PICK t \in DOMAIN buf, str \in Text : buf' = [buf EXCEPT ![t] = str] /\ Keeps(buf[t], str)
      BY <3>1, Zenon DEF WritevEffect
    <3>3. e = t /\ buf'[e] = str
      BY Zenon, <1>1, <2>1, <3>2, Rewritten
    <3> QED BY Zenon, <3>2, <3>3
  <2>6. CASE DirectAssign
    <3>1. PICK t \in DOMAIN buf, str \in Text :
            /\ t = direct.top /\ buf' = [buf EXCEPT ![t] = str]
            /\ direct.str = buf[t] => Keeps(buf[t], str)
      BY Zenon, <2>1, <2>6, DirectAssignDoes
    <3>2. direct.pc = "assign" /\ direct'.pc = "write"
      BY Zenon, <2>1, <2>6 DEF DirectAssign, TypeOK
    <3>3. direct.str = buf[t]
      BY Zenon, <1>1, <3>1, <3>2 DEF StaleAssignment
    <3>4. e = t /\ buf'[e] = str
      BY Zenon, <1>1, <2>1, <3>1, Rewritten
    <3> QED BY Zenon, <3>1, <3>3, <3>4
  <2>7. CASE Direct /\ ~DirectAssign
    <3>1. buf' = buf \/ buf' = Append(buf, <<>>)
      BY Zenon, <2>7 DEF Direct, DirectOpen, DirectCreate, DirectWrite, NewEntry
    <3> QED BY Zenon, <2>3, <2>4, <3>1
  <2>8. CASE UNCHANGED vars
    BY Zenon, <2>4, <2>8 DEF vars
  <2>9. CASE SystemCall
    <3>1. ASSUME NEW p \in Paths, NEW creat \in BOOLEAN, SysOpen(p, creat) PROVE FALSE
      BY <2>3, <2>4, <3>1, Zenon DEF SysOpen, NewEntry
    <3>2. ASSUME NEW fd, \/ ErrorInCall(fd)
                         \/ SysClose(fd)
                         \/ \E offset, whence : SysLseek(fd, offset, whence)
                         \/ \E count : SysRead(fd, count)
          PROVE  FALSE
      <4>1. buf' = buf
        BY <3>2, Zenon DEF ErrorInCall, SysClose, SysLseek, SysRead
      <4> QED BY Zenon, <2>4, <4>1
    <3> QED BY Zenon, <2>5, <2>9, <3>1, <3>2 DEF SystemCall
  <2> QED BY Zenon, <1>1, <2>6, <2>7, <2>8, <2>9 DEF Next
<1>2. FInv /\ [Next]_vars =>
        [StaleAssignment \/ \A e \in DOMAIN buf : buf'[e] # buf[e] => Keeps(buf[e], buf'[e])]_vars
  BY Zenon, <1>1
<1> QED BY FileSystemInvariance, <1>2, PTL DEF Spec, NothingOverwritten

=============================================================================
