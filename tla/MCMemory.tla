------------------------------ MODULE MCMemory ------------------------------
(***************************************************************************)
(* Memory with a pool of a few atoms, and boot informations with the tags  *)
(* in every order.                                                         *)
(***************************************************************************)
EXTENDS Memory, TLC

\* What the memory held before: a free block of one atom, everywhere.
MCGarbage == {[free |-> TRUE, log |-> 0]}

\* Any int that is not negative.
MCHeapSizes == 0..IntLimit - 1

Region(addr, len, available) == [addr |-> addr, len |-> len, available |-> available]
Mmap(entries) == [type |-> "mmap", size |-> 16 + 24 * Len(entries), entries |-> entries]
Vbe == [type |-> "vbe", size |-> 784,
        mode |-> [XResolution |-> 1, YResolution |-> 1, BytesPerScanLine |-> 2]]
TextMode == [type |-> "vbe", size |-> 784,
             mode |-> [XResolution |-> 0, YResolution |-> 0, BytesPerScanLine |-> 0]]
Framebuffer == [type |-> "framebuffer", size |-> 38, addr |-> 100]
Cmdline == [type |-> "cmdline", size |-> 9]
End == [type |-> "end", size |-> 8]

\* Conventional memory, then the memory of the kernel; the second one ends
\* with a reserved entry at the kernel's address, as no loader should give.
Small == Mmap(<<Region(0, 9, TRUE), Region(16, 37, TRUE)>>)
Tiny == Mmap(<<Region(16, 8, TRUE), Region(16, 90, FALSE)>>)
Wrapped == Mmap(<<Region(16, 4 + 128 + 6, TRUE), Region(99, 90, TRUE)>>)
Large == Mmap(<<Region(16, 90, TRUE)>>)
NoMemory == Mmap(<<Region(0, 9, TRUE)>>)

Permutations4(t) == {<<t[p[1]], t[p[2]], t[p[3]], t[p[4]]>> :
                       p \in {q \in [1..4 -> 1..4] : \A a, b \in 1..4 : a # b => q[a] # q[b]}}

\* The boot loader's layout: tag k of a boot information with its offset.
Placed(tags) ==
  LET At[k \in Nat] == IF k <= 1 THEN 8
                       ELSE 8 * ((At[k - 1] + tags[k - 1].size + 7) \div 8)
  IN  [k \in DOMAIN tags |-> tags[k] @@ [at |-> At[k]]]

MCBootInfos ==
  {Placed(Append(s, End)) :
     s \in Permutations4(<<Vbe, Framebuffer, Small, Cmdline>>)
           \cup {<<m, Vbe, Framebuffer>> : m \in {Tiny, Wrapped, Large, NoMemory}}
           \cup {<<TextMode, Tiny, Framebuffer>>, <<Cmdline, Framebuffer, Tiny>>, <<>>}}

=============================================================================
