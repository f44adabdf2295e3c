---------------------------- MODULE PagingProofs ----------------------------
(***************************************************************************)
(* For any number of callers, pages and frames: the safety invariants of   *)
(* Paging.                                                                 *)
(***************************************************************************)
EXTENDS Paging, WellFoundedInduction, TLAPS

Alone == {"random", "claim", "handle"}
Freeing == {"free", "forget"}

\* Where each function can be: no assertion against misuse is ever reached.
PlaceOf(c) ==
    /\ op[c] = "none" => pc[c] = "idle"
    /\ op[c] = "random" =>
           pc[c] \in {"lock", "frame", "find", "map", "unlock",
                      "Physical memory alloc error",
                      "virtual memory alloc error"}
    /\ op[c] = "claim" =>
           pc[c] \in {"lock", "claim", "find", "map", "unlock",
                      "failed to allocate block", "virtual memory alloc error"}
    /\ op[c] = "handle" =>
           pc[c] \in {"lock", "find", "map", "unlock",
                      "virtual memory alloc error"}
    /\ op[c] = "contigious" =>
           pc[c] \in {"lock", "scan", "frame", "map", "mark", "unlock",
                      "Physical memory alloc error"}
    /\ op[c] = "free" =>
           pc[c] \in {"lock", "test", "read", "release", "unmap", "clear",
                      "unlock"}
    /\ op[c] = "forget" =>
           pc[c] \in {"lock", "test", "unmap", "clear", "unlock"}
    /\ op[c] = "translate" => pc[c] \in {"test", "read", "answer"}

\* Who has virtual_mutex: everybody inside a call, save those who translate.
Holds(c) == pc[c] \notin {"idle", "lock"} /\ op[c] # "translate"

LockInv ==
    /\ \A c \in Callers : PlaceOf(c) /\ (Holds(c) => virtual_mutex = 1)
    /\ \A c, d \in Callers : Holds(c) /\ Holds(d) => c = d
    /\ virtual_mutex = 1 => \E c \in Callers : Holds(c)

\* The bitset against the page tables, as the holder of the lock has left them.
Agree == virtual_bitset = Mapped \cup {0}

BitsetOf(c) ==
    IF pc[c] = "clear" \/ (pc[c] = "map" /\ op[c] # "contigious")
    THEN page[c] \notin Mapped /\ virtual_bitset = Mapped \cup {0, page[c]}
    ELSE IF pc[c] = "mark"
    THEN /\ Current(c) \notin virtual_bitset
         /\ Mapped \cup {0} = virtual_bitset \cup {Current(c)}
    ELSE Agree

\* The frames in use that no page of an allocator accounts for.
Base == (Reserved \cap 0..(TotalBlocks - 1)) \cup AllRaw
Behind(S) == {page_table[p] : p \in S}
Settled == frames = Base \cup Behind(Mapped)

\* A caller that has taken a frame and not mapped it yet.
HasFrame(c) ==
    \/ /\ op[c] \in {"random", "claim"}
       /\ pc[c] \in {"find", "map", "virtual memory alloc error"}
    \/ op[c] = "contigious" /\ pc[c] = "map"

FramesOf(c) ==
    IF HasFrame(c)
    THEN /\ block[c] \in Blocks \ (Base \cup Behind(Mapped))
         /\ frames = Base \cup Behind(Mapped) \cup {block[c]}
    ELSE IF pc[c] = "unmap"
    THEN frames = Base \cup Behind(Mapped \ {page[c]})
    ELSE Settled

\* Two pages with one frame.
Shared ==
    \A p, q \in Mapped :
        p # q /\ page_table[p] = page_table[q] => page_table[p] \in AllRaw

MemoryInv ==
    /\ virtual_mutex = 0 => Agree /\ Settled
    /\ \A c \in Callers : Holds(c) => BitsetOf(c) /\ FramesOf(c)
    /\ BootPages \subseteq virtual_bitset
    /\ Shared

\* What a caller is given to work on.
ArgumentsOf(c) ==
    /\ raw[c] \subseteq Blocks
    /\ op[c] = "claim" => block[c] \in Blocks
    /\ op[c] = "handle" => block[c] \in raw[c]
    /\ op[c] \in Freeing => Held(page[c], op[c] = "free") \in mine[c]
    /\ op[c] = "translate" => \E m \in mine[c] : m.page = page[c]
    /\ pc[c] \in {"release", "answer"} => block[c] = page_table[page[c]]
    /\ pc[c] = "unmap" => page[c] \in Mapped
    /\ op[c] # "contigious" \/ pc[c] \in {"lock", "scan"} => done[c] = 0
    /\ op[c] = "contigious" => size[c] > 0

\* A page and its frame are somebody's to free, with the frame or without.
Owned(p, freeing, c) ==
    /\ p \in Mapped /\ p \in virtual_bitset
    /\ IF freeing THEN page_table[p] \notin Base ELSE page_table[p] \in raw[c]

\* Until it is unmapped, or its frame released.
Live(c, m) ==
    page[c] = m.page /\ op[c] \in Freeing =>
        pc[c] \in {"lock", "test", "read", "release"}

\* What callers have.
HoldingInv ==
    /\ \A c, d \in Callers : \A m \in mine[c], n \in mine[d] :
            m.page = n.page => c = d /\ m = n
    /\ \A c \in Callers : \A m \in mine[c] :
            m.page >= FirstKernelPage /\ m.page \notin BootPages

LiveOwned ==
    \A c \in Callers : \A m \in mine[c] :
        Live(c, m) => Owned(m.page, m.free_physical, c)

\* A page that is nobody's yet.
Unclaimed(p) ==
    /\ p >= FirstKernelPage /\ p \notin BootPages
    /\ \A d \in Callers : \A m \in mine[d] : m.page # p

\* The page, or the run of pages, a call is making.
AloneOf(c) ==
    op[c] \in Alone =>
        /\ pc[c] \in {"map", "unlock"} => Unclaimed(page[c])
        /\ pc[c] = "unlock" => Owned(page[c], op[c] # "handle", c)

RunOf(c) ==
    op[c] = "contigious" =>
        /\ pc[c] \in {"frame", "map", "mark", "unlock"} =>
               \A i \in 0..(done[c] - 1) :
                    Unclaimed(page[c] + i) /\ Owned(page[c] + i, TRUE, c)
        /\ pc[c] \in {"frame", "map", "mark"} =>
               /\ done[c] < size[c] /\ page[c] >= FirstKernelPage
               /\ page[c] + size[c] <= MAX_PAGES
               /\ \A i \in done[c]..(size[c] - 1) :
                    page[c] + i \notin virtual_bitset
        /\ pc[c] = "mark" => page_table[Current(c)] \notin Base

CallInv == \A c \in Callers : ArgumentsOf(c) /\ AloneOf(c) /\ RunOf(c)

IInv ==
    /\ TypeOK /\ LockInv
    /\ MemoryInv
    /\ HoldingInv /\ LiveOwned
    /\ CallInv
-----------------------------------------------------------------------------
(* Lemmas.                                                                 *)

\* Of the pages or frames of a set, if it has any, one is the lowest.
LEMMA LeastOfNats ==
    ASSUME NEW S, S \subseteq Nat, S # {}
    PROVE  \E m \in S : \A n \in S : m <= n
<1> DEFINE R == OpToRel(<, Nat)
<1>1. IsWellFoundedOn(R, Nat)
  BY NatLessThanWellFounded, Zenon
<1>2. PICK m \in S : \A n \in S : ~(<<n, m>> \in R)
  BY <1>1, WFMin, Zenon
<1>3. \A n \in S : ~(n < m)
  BY <1>2 DEF OpToRel
<1> QED
  BY <1>3

\* The first page or frame found is one of those looked for.
LEMMA LowestIsMember ==
    ASSUME NEW S, S \subseteq Nat, S # {}
    PROVE  Lowest(S) \in S
<1>1. \E i \in S : \A j \in S : i <= j
  BY LeastOfNats
<1> QED
  BY <1>1 DEF Lowest

\* What a step leaves alone of another caller.
Still(d) ==
    UNCHANGED <<pc[d], op[d], page[d], block[d], size[d], done[d]>>

\* Where nothing changes, neither does the place or the lock.
LEMMA StillPlaced ==
    ASSUME NEW d, Still(d)
    PROVE  (PlaceOf(d) => PlaceOf(d)') /\ (Holds(d)' <=> Holds(d))
<1>1. PlaceOf(d) => PlaceOf(d)'
  BY DEF Still, PlaceOf
<1>2. Holds(d)' <=> Holds(d)
  BY DEF Still, Holds
<1> QED
  BY <1>1, <1>2

\* Without the lock a call has nothing under way.
LEMMA NothingUnderWay ==
    ASSUME TypeOK, NEW c \in Callers, PlaceOf(c), ~Holds(c)
    PROVE  AloneOf(c) /\ RunOf(c) /\ \A m \in mine[c] : Live(c, m)
<1>1. \/ pc[c] \in {"idle", "lock"}
      \/ op[c] = "translate"
  BY DEF Holds
<1> QED
  BY <1>1 DEF AloneOf, RunOf, Live, Alone, Freeing, PlaceOf

\* What is needed for a step of the caller that holds the lock: nothing of the
\* others changes, save what they see of memory.
LEMMA HolderStep ==
    ASSUME IInv, NEW c \in Callers, Holds(c),
           UNCHANGED <<virtual_mutex, mine, raw>>,
           \A d \in Callers \ {c} : Still(d),
           TypeOK', op'[c] = op[c], pc'[c] \notin {"idle", "lock"}, PlaceOf(c)',
           BitsetOf(c)', FramesOf(c)', (BootPages \subseteq virtual_bitset)',
           Shared', LiveOwned', ArgumentsOf(c)', AloneOf(c)', RunOf(c)',
           \A d \in Callers \ {c} :
                pc[d] = "answer" => page_table'[page[d]] = page_table[page[d]]
    PROVE  IInv'
<1>1. virtual_mutex = 1 /\ \A d \in Callers \ {c} : ~Holds(d)
  BY DEF IInv, LockInv
<1>2. \A d \in Callers \ {c} : ~Holds(d)' /\ PlaceOf(d)'
  <2> TAKE d \in Callers \ {c}
  <2>1. PlaceOf(d) /\ Still(d)
    BY DEF IInv, LockInv
  <2> QED
    BY <1>1, <2>1, StillPlaced
<1>3. LockInv'
  <2>1. \A d \in Callers : PlaceOf(d)'
    BY <1>2
  <2>2. Holds(c)'
    BY DEF Holds
  <2> QED
    BY <1>1, <1>2, <2>1, <2>2 DEF LockInv
<1>4. MemoryInv'
  BY <1>1, <1>2 DEF MemoryInv
<1>5. HoldingInv'
  BY DEF IInv, HoldingInv
<1>6. CallInv'
  <2> SUFFICES ASSUME NEW d \in Callers \ {c}
               PROVE  (ArgumentsOf(d) /\ AloneOf(d) /\ RunOf(d))'
    BY DEF CallInv
  <2>1. (AloneOf(d) /\ RunOf(d))'
    <3>1. PlaceOf(d)' /\ ~Holds(d)'
      BY <1>2
    <3> QED
      BY <3>1 DEF Holds, AloneOf, RunOf, Alone
  <2>2. pc[d] \notin {"release", "unmap"}
    BY <1>1 DEF Holds, IInv, LockInv, PlaceOf, TypeOK, Operations
  <2>3. ArgumentsOf(d)'
    BY <2>2 DEF Still, IInv, CallInv, ArgumentsOf
  <2> QED
    BY <2>1, <2>3
<1> QED
  BY <1>3, <1>4, <1>5, <1>6 DEF IInv
-----------------------------------------------------------------------------
(* Steps under the lock that change no page: frames come and go.           *)

\* Where the pages and what callers took directly stay, so does what is said
\* of them.
LEMMA SamePages ==
    ASSUME UNCHANGED <<virtual_bitset, page_table, raw>>
    PROVE  /\ Mapped' = Mapped /\ Base' = Base /\ AllRaw' = AllRaw
           /\ \A S : Behind(S)' = Behind(S)
           /\ Shared' = Shared /\ Agree' = Agree
           /\ \A p, f, c : Owned(p, f, c)' = Owned(p, f, c)
BY DEF Mapped, Base, AllRaw, Behind, Shared, Agree, Owned

\* A step under the lock that changes frames only, and where the caller is.
LEMMA FrameStep ==
    ASSUME IInv, NEW c \in Callers, Holds(c),
           UNCHANGED <<virtual_bitset, page_table, virtual_mutex, history>>,
           \A d \in Callers \ {c} : Still(d),
           TypeOK', op'[c] = op[c], pc'[c] \notin {"idle", "lock"}, PlaceOf(c)',
           page'[c] = page[c], done'[c] = done[c], size'[c] = size[c],
           BitsetOf(c)', FramesOf(c)', ArgumentsOf(c)',
           pc'[c] \in {"test", "read", "release"} =>
               pc[c] \in {"test", "read", "release"},
           op[c] \in Alone => pc[c] # "unlock" /\ pc'[c] # "unlock"
                              /\ (pc'[c] = "map" => pc[c] = "map"),
           op[c] = "contigious" /\ pc'[c] \in {"frame", "map", "mark"} =>
               pc[c] \in {"frame", "map", "mark"} /\ pc'[c] # "mark",
           op[c] = "contigious" => pc'[c] # "unlock"
    PROVE  IInv'
<1>1. UNCHANGED <<mine, raw, virtual_bitset, page_table>>
  BY DEF history
<1>2. /\ Shared' /\ (BootPages \subseteq virtual_bitset)'
      /\ \A p, f, d : Owned(p, f, d)' = Owned(p, f, d)
  BY <1>1, SamePages DEF IInv, MemoryInv
<1>3. \A d \in Callers : \A m \in mine[d] : Live(d, m)' => Live(d, m)
  <2> TAKE d \in Callers
  <2>1. CASE d # c
    BY <2>1 DEF Still, Live
  <2>2. CASE d = c
    <3>1. PlaceOf(c)' /\ op'[c] = op[c] /\ page'[c] = page[c]
      OBVIOUS
    <3> QED
      BY <2>2, <3>1 DEF Live
  <2> QED
    BY <2>1, <2>2
<1>4. LiveOwned'
  BY <1>1, <1>2, <1>3 DEF IInv, LiveOwned
<1>5. AloneOf(c)' /\ RunOf(c)'
  <2>1. \A p : Unclaimed(p)' = Unclaimed(p)
    BY <1>1 DEF Unclaimed
  <2>2. AloneOf(c) /\ RunOf(c)
    BY DEF IInv, CallInv
  <2>3. AloneOf(c)'
    BY <1>2, <2>1, <2>2 DEF AloneOf, Alone
  <2>4. RunOf(c)'
    BY <1>1, <1>2, <2>1, <2>2 DEF RunOf
  <2> QED
    BY <2>3, <2>4
<1> QED
  BY <1>1, <1>2, <1>4, <1>5, HolderStep

\* physical_alloc_block finds a frame that nothing accounts for, or none.
LEMMA AllocFrameIInv ==
    ASSUME IInv, NEW c \in Callers, AllocFrame(c)
    PROVE  IInv'
<1> DEFINE b == Lowest(Blocks \ frames)
<1> USE DEF At, Goto
<1>1. /\ TypeOK /\ PlaceOf(c) /\ pc[c] = "frame"
      /\ ArgumentsOf(c)
  BY DEF AllocFrame, IInv, LockInv, CallInv
<1>2. Holds(c) /\ op[c] \in {"random", "contigious"}
  BY <1>1 DEF Holds, PlaceOf, TypeOK, Operations
<1>3. Agree /\ Settled
  BY <1>1, <1>2 DEF IInv, MemoryInv, BitsetOf, FramesOf, HasFrame
<1>4. /\ UNCHANGED <<virtual_bitset, page_table, virtual_mutex, op, page, size,
                     done, history>>
      /\ pc'[c] \notin {"idle", "lock"}
      /\ \A d \in Callers \ {c} : pc'[d] = pc[d] /\ block'[d] = block[d]
  BY <1>1 DEF AllocFrame, TypeOK
<1>5. \A d \in Callers \ {c} : Still(d)
  BY <1>4 DEF Still
<1>6. /\ Mapped' = Mapped /\ Base' = Base /\ Agree' = Agree
      /\ Behind(Mapped)' = Behind(Mapped)
  BY <1>4 DEF history, Mapped, Base, AllRaw, Agree, Behind
<1>7. CASE Blocks \subseteq frames
  <2>1. UNCHANGED <<frames, block>> /\ pc'[c] = "Physical memory alloc error"
    BY <1>1, <1>7 DEF AllocFrame, TypeOK
  <2>2. pc' \in [Callers -> Labels]
    BY <1>1, <1>7 DEF AllocFrame, TypeOK, Labels, Exhausted
  <2>3. TypeOK'
    BY <1>1, <1>4, <2>1, <2>2 DEF TypeOK, history
  <2>4. PlaceOf(c)' /\ BitsetOf(c)' /\ FramesOf(c)'
    BY <1>2, <1>3, <1>4, <1>6, <2>1
       DEF PlaceOf, BitsetOf, FramesOf, HasFrame, Settled
  <2>5. ArgumentsOf(c)'
    BY <1>1, <1>2, <1>4, <2>1 DEF ArgumentsOf, history, Freeing
  <2> QED
    <3>1. /\ page'[c] = page[c] /\ done'[c] = done[c] /\ size'[c] = size[c]
          /\ op'[c] = op[c]
      BY <1>4
    <3> QED
      BY <1>1, <1>2, <1>4, <1>5, <2>1, <2>3, <2>4, <2>5, <3>1, FrameStep
         DEF Alone
<1>8. CASE ~(Blocks \subseteq frames)
  <2>1. b \in Blocks \ frames
    <3>1. Blocks \ frames \subseteq Nat /\ Blocks \ frames # {}
      BY <1>8, PagingAssumption DEF Blocks
    <3> QED
      BY <3>1, LowestIsMember
  <2>2. /\ frames' = frames \cup {b} /\ block' = [block EXCEPT ![c] = b]
        /\ pc' = [pc EXCEPT ![c] =
                    IF op[c] = "contigious" THEN "map" ELSE "find"]
    BY <1>8 DEF AllocFrame
  <2> HIDE DEF b
  <2>3. block'[c] = b /\ pc'[c] = IF op[c] = "contigious" THEN "map" ELSE "find"
    BY <1>1, <2>2 DEF TypeOK
  <2>4. TypeOK'
    <3>1. /\ pc' \in [Callers -> Labels]
          /\ block' \in [Callers -> 0..(TotalBlocks - 1)]
      BY <1>1, <2>1, <2>2, PagingAssumption DEF TypeOK, Labels, Locked, Blocks
    <3>2. frames' \subseteq 0..(TotalBlocks - 1)
      BY <1>1, <2>1, <2>2, PagingAssumption DEF TypeOK, Blocks
    <3> QED
      BY <1>1, <1>4, <3>1, <3>2 DEF TypeOK, history
  <2>5. PlaceOf(c)' /\ BitsetOf(c)'
    BY <1>2, <1>3, <1>4, <1>6, <2>3 DEF PlaceOf, BitsetOf
  <2>6. FramesOf(c)'
    <3>1. HasFrame(c)'
      BY <1>2, <1>4, <2>3 DEF HasFrame
    <3> QED
      BY <1>3, <1>6, <2>1, <2>2, <2>3, <3>1 DEF FramesOf, Settled, Blocks
  <2>7. ArgumentsOf(c)'
    BY <1>1, <1>2, <1>4, <2>3 DEF ArgumentsOf, history, Freeing
  <2> QED
    BY <1>1, <1>2, <1>4, <1>5, <2>3, <2>4, <2>5, <2>6, <2>7, FrameStep DEF Alone
<1> QED
  BY <1>7, <1>8

\* physical_alloc_block_specific gives a frame that nothing accounts for.
LEMMA ClaimFrameIInv ==
    ASSUME IInv, NEW c \in Callers, ClaimFrame(c)
    PROVE  IInv'
<1> USE DEF At, Goto
<1>1. TypeOK /\ PlaceOf(c) /\ pc[c] = "claim" /\ ArgumentsOf(c)
  BY DEF ClaimFrame, IInv, LockInv, CallInv
<1>2. Holds(c) /\ op[c] = "claim" /\ block[c] \in Blocks
  BY <1>1 DEF Holds, PlaceOf, TypeOK, Operations, ArgumentsOf
<1>3. Agree /\ Settled
  BY <1>1, <1>2 DEF IInv, MemoryInv, BitsetOf, FramesOf, HasFrame
<1>4. /\ UNCHANGED <<virtual_bitset, page_table, virtual_mutex, op, page, block,
                     size, done, history>>
      /\ pc' = [pc EXCEPT ![c] = IF block[c] \in frames
                    THEN "failed to allocate block" ELSE "find"]
      /\ frames' = frames \cup {block[c]}
      /\ \A d \in Callers \ {c} : pc'[d] = pc[d]
  BY <1>1 DEF ClaimFrame, TypeOK, locals
<1>5. \A d \in Callers \ {c} : Still(d)
  BY <1>4 DEF Still
<1>6. /\ Mapped' = Mapped /\ Base' = Base /\ Agree' = Agree
      /\ Behind(Mapped)' = Behind(Mapped)
  BY <1>4 DEF history, Mapped, Base, AllRaw, Agree, Behind
<1>7. /\ pc'[c] = IF block[c] \in frames THEN "failed to allocate block"
                                        ELSE "find"
      /\ op'[c] = "claim" /\ page'[c] = page[c] /\ done'[c] = done[c]
      /\ size'[c] = size[c] /\ block'[c] = block[c] /\ raw' = raw
  BY <1>1, <1>2, <1>4 DEF TypeOK, history
<1>8. TypeOK'
  <2>1. pc' \in [Callers -> Labels]
    BY <1>1, <1>4 DEF TypeOK, Labels, Locked, Exhausted
  <2>2. frames' \subseteq 0..(TotalBlocks - 1)
    <3>1. /\ frames' = frames \cup {block[c]}
          /\ frames \subseteq 0..(TotalBlocks - 1)
      BY <1>1, <1>4 DEF TypeOK
    <3>2. block[c] \in 0..(TotalBlocks - 1)
      BY <1>1 DEF TypeOK
    <3> QED
      BY <3>1, <3>2
  <2> QED
    BY <1>1, <1>4, <2>1, <2>2 DEF TypeOK, history
<1>9. pc'[c] \in {"failed to allocate block", "find"}
  BY <1>7
<1>10. PlaceOf(c)' /\ BitsetOf(c)'
  BY <1>3, <1>6, <1>7, <1>9 DEF PlaceOf, BitsetOf
<1>11. FramesOf(c)'
  <2>1. CASE block[c] \in frames
    <3>1. frames' = frames /\ pc'[c] = "failed to allocate block"
      BY <1>4, <1>7, <2>1
    <3> QED
      BY <1>3, <1>6, <1>7, <3>1 DEF FramesOf, HasFrame, Settled
  <2>2. CASE block[c] \notin frames
    <3>1. pc'[c] = "find"
      BY <1>7, <2>2
    <3> QED
      BY <1>2, <1>3, <1>4, <1>6, <1>7, <2>2, <3>1
         DEF FramesOf, HasFrame, Settled, Blocks
  <2> QED
    BY <2>1, <2>2
<1>12. ArgumentsOf(c)'
  BY <1>1, <1>2, <1>7, <1>9 DEF ArgumentsOf, Freeing
<1> QED
  BY <1>1, <1>2, <1>4, <1>5, <1>7, <1>8, <1>9, <1>10, <1>11, <1>12, FrameStep
     DEF Alone

\* page_free tests the caller's own page, which is in use.
LEMMA TestPageIInv ==
    ASSUME IInv, NEW c \in Callers, TestPage(c), op[c] # "translate"
    PROVE  IInv'
<1> USE DEF At, Goto
<1>1. TypeOK /\ PlaceOf(c) /\ pc[c] = "test" /\ ArgumentsOf(c)
  BY DEF TestPage, IInv, LockInv, CallInv
<1>2. Holds(c) /\ op[c] \in Freeing
  BY <1>1 DEF Holds, PlaceOf, TypeOK, Operations, Freeing
<1>3. Agree /\ Settled
  BY <1>1, <1>2 DEF IInv, MemoryInv, BitsetOf, FramesOf, HasFrame
<1>4. Owned(page[c], op[c] = "free", c)
  <2>1. PICK m \in mine[c] : m = Held(page[c], op[c] = "free")
    BY <1>1, <1>2 DEF ArgumentsOf
  <2>2. m.page = page[c] /\ m.free_physical = (op[c] = "free") /\ Live(c, m)
    BY <1>1, <2>1 DEF Held, Live
  <2> QED
    BY <2>2 DEF IInv, LiveOwned
<1>5. /\ UNCHANGED <<frames, virtual_bitset, page_table, virtual_mutex, op,
                     page,
                     block, size, done, history>>
      /\ pc' = [pc EXCEPT ![c] = IF op[c] = "forget" THEN "unmap" ELSE "read"]
  BY <1>4 DEF TestPage, locals, memory, Owned
<1>6. /\ pc'[c] = IF op[c] = "forget" THEN "unmap" ELSE "read"
      /\ \A d \in Callers \ {c} : pc'[d] = pc[d]
  BY <1>1, <1>5 DEF TypeOK
<1>7. \A d \in Callers \ {c} : Still(d)
  BY <1>5, <1>6 DEF Still
<1>8. /\ Mapped' = Mapped /\ Base' = Base /\ Agree' = Agree
      /\ Behind(Mapped)' = Behind(Mapped)
      /\ Behind(Mapped \ {page[c]})' = Behind(Mapped \ {page[c]})
  BY <1>5 DEF history, Mapped, Base, AllRaw, Agree, Behind
<1>9. TypeOK'
  <2>1. pc' \in [Callers -> Labels]
    BY <1>1, <1>5 DEF TypeOK, Labels, Locked
  <2> QED
    BY <1>1, <1>5, <2>1 DEF TypeOK, history
<1>10. PlaceOf(c)' /\ BitsetOf(c)'
  <2>1. op'[c] = op[c] /\ page'[c] = page[c]
    BY <1>5
  <2>2. PlaceOf(c)'
    BY <1>2, <1>6, <2>1 DEF PlaceOf, Freeing
  <2>3. BitsetOf(c)'
    BY <1>3, <1>6, <1>8 DEF BitsetOf
  <2> QED
    BY <2>2, <2>3
<1>11. FramesOf(c)'
  <2>1. CASE op[c] = "forget"
    <3>1. page_table[page[c]] \in Base
      BY <1>4, <2>1 DEF Owned, Base, AllRaw
    <3>2. Base \cup Behind(Mapped) = Base \cup Behind(Mapped \ {page[c]})
      BY <3>1 DEF Behind
    <3> QED
      BY <1>3, <1>5, <1>6, <1>8, <2>1, <3>2 DEF FramesOf, HasFrame, Settled
  <2>2. CASE op[c] = "free"
    BY <1>3, <1>5, <1>6, <1>8, <2>2 DEF FramesOf, HasFrame, Settled
  <2> QED
    BY <1>2, <2>1, <2>2 DEF Freeing
<1>12. ArgumentsOf(c)'
  BY <1>1, <1>2, <1>4, <1>5, <1>6, <1>8 DEF ArgumentsOf, history, Freeing, Owned
<1> QED
  BY <1>1, <1>2, <1>5, <1>6, <1>7, <1>9, <1>10, <1>11, <1>12, FrameStep
     DEF Alone, Freeing

\* page_free reads the entry of its page, which is mapped.
LEMMA ReadEntryIInv ==
    ASSUME IInv, NEW c \in Callers, ReadEntry(c), op[c] # "translate"
    PROVE  IInv'
<1> USE DEF At, Goto
<1>1. TypeOK /\ PlaceOf(c) /\ pc[c] = "read" /\ ArgumentsOf(c)
  BY DEF ReadEntry, IInv, LockInv, CallInv
<1>2. Holds(c) /\ op[c] = "free"
  BY <1>1 DEF Holds, PlaceOf, TypeOK, Operations
<1>3. Agree /\ Settled
  BY <1>1, <1>2 DEF IInv, MemoryInv, BitsetOf, FramesOf, HasFrame
<1>4. page[c] \in Mapped
  <2>1. PICK m \in mine[c] : m = Held(page[c], TRUE)
    BY <1>1, <1>2 DEF ArgumentsOf, Freeing
  <2>2. m.page = page[c] /\ Live(c, m)
    BY <1>1, <2>1 DEF Held, Live
  <2> QED
    BY <2>2 DEF IInv, LiveOwned, Owned
<1>5. /\ UNCHANGED <<frames, virtual_bitset, page_table, virtual_mutex, op,
                     page,
                     size, done, history>>
      /\ pc' = [pc EXCEPT ![c] = "release"]
      /\ block' = [block EXCEPT ![c] = page_table[page[c]]]
  BY <1>2, <1>4 DEF ReadEntry, memory, Mapped
<1>6. /\ pc'[c] = "release" /\ block'[c] = page_table[page[c]]
      /\ \A d \in Callers \ {c} : pc'[d] = pc[d] /\ block'[d] = block[d]
  BY <1>1, <1>5 DEF TypeOK
<1>7. \A d \in Callers \ {c} : Still(d)
  BY <1>5, <1>6 DEF Still
<1>8. /\ Mapped' = Mapped /\ Base' = Base /\ Agree' = Agree
      /\ Behind(Mapped)' = Behind(Mapped)
  BY <1>5 DEF history, Mapped, Base, AllRaw, Agree, Behind
<1>9. TypeOK'
  <2>1. /\ pc' \in [Callers -> Labels]
        /\ block' \in [Callers -> 0..(TotalBlocks - 1)]
    BY <1>1, <1>4, <1>5 DEF TypeOK, Labels, Locked, Mapped
  <2> QED
    BY <1>1, <1>5, <2>1 DEF TypeOK, history
<1>10. PlaceOf(c)' /\ BitsetOf(c)' /\ FramesOf(c)'
  BY <1>2, <1>3, <1>5, <1>6, <1>8
     DEF PlaceOf, BitsetOf, FramesOf, HasFrame, Settled
<1>11. ArgumentsOf(c)'
  BY <1>1, <1>2, <1>5, <1>6 DEF ArgumentsOf, history, Freeing
<1> QED
  BY <1>1, <1>2, <1>5, <1>6, <1>7, <1>9, <1>10, <1>11, FrameStep DEF Alone

\* page_free gives its frame back, which nothing else accounts for.
LEMMA ReleaseFrameIInv ==
    ASSUME IInv, NEW c \in Callers, ReleaseFrame(c)
    PROVE  IInv'
<1> USE DEF At, Goto
<1>1. TypeOK /\ PlaceOf(c) /\ pc[c] = "release" /\ ArgumentsOf(c)
  BY DEF ReleaseFrame, IInv, LockInv, CallInv
<1>2. Holds(c) /\ op[c] = "free" /\ block[c] = page_table[page[c]]
  BY <1>1 DEF Holds, PlaceOf, TypeOK, Operations, ArgumentsOf
<1>3. Agree /\ Settled
  BY <1>1, <1>2 DEF IInv, MemoryInv, BitsetOf, FramesOf, HasFrame
<1>4. page[c] \in Mapped /\ block[c] \notin Base
  <2>1. PICK m \in mine[c] : m = Held(page[c], TRUE)
    BY <1>1, <1>2 DEF ArgumentsOf, Freeing
  <2>2. m.page = page[c] /\ m.free_physical = TRUE /\ Live(c, m)
    BY <1>1, <2>1 DEF Held, Live
  <2> QED
    BY <1>2, <2>2 DEF IInv, LiveOwned, Owned
<1>5. block[c] \in frames
  BY <1>2, <1>3, <1>4 DEF Settled, Behind
<1>6. /\ UNCHANGED <<virtual_bitset, page_table, virtual_mutex, op, page, block,
                     size, done, history>>
      /\ pc' = [pc EXCEPT ![c] = "unmap"] /\ frames' = frames \ {block[c]}
  BY <1>5 DEF ReleaseFrame, locals
<1>7. /\ pc'[c] = "unmap"
      /\ \A d \in Callers \ {c} : pc'[d] = pc[d]
  BY <1>1, <1>6 DEF TypeOK
<1>8. \A d \in Callers \ {c} : Still(d)
  BY <1>6, <1>7 DEF Still
<1>9. /\ Mapped' = Mapped /\ Base' = Base /\ Agree' = Agree
      /\ Behind(Mapped \ {page[c]})' = Behind(Mapped \ {page[c]})
  BY <1>6 DEF history, Mapped, Base, AllRaw, Agree, Behind
<1>10. TypeOK'
  <2>1. pc' \in [Callers -> Labels] /\ frames' \subseteq 0..(TotalBlocks - 1)
    BY <1>1, <1>6 DEF TypeOK, Labels, Locked
  <2> QED
    BY <1>1, <1>6, <2>1 DEF TypeOK, history
<1>11. PlaceOf(c)' /\ BitsetOf(c)'
  BY <1>2, <1>3, <1>6, <1>7, <1>9 DEF PlaceOf, BitsetOf
<1>12. FramesOf(c)'
  <2>1. \A p \in Mapped \ {page[c]} : page_table[p] # block[c]
    BY <1>2, <1>4 DEF IInv, MemoryInv, Shared, Base
  <2>2. (Base \cup Behind(Mapped)) \ {block[c]}
            = Base \cup Behind(Mapped \ {page[c]})
    BY <1>2, <1>4, <2>1 DEF Behind
  <2> QED
    BY <1>3, <1>6, <1>7, <1>9, <2>2 DEF FramesOf, HasFrame, Settled
<1>13. ArgumentsOf(c)'
  BY <1>1, <1>2, <1>4, <1>6, <1>7, <1>9 DEF ArgumentsOf, history, Freeing
<1> QED
  BY <1>1, <1>2, <1>6, <1>7, <1>8, <1>10, <1>11, <1>12, <1>13, FrameStep
     DEF Alone
-----------------------------------------------------------------------------
(* Steps under the lock that mark, map and unmap pages.                    *)

\* A page that is not in use is nobody's: those who have it may free it, and
\* only the holder of the lock is beyond that.
LEMMA UnusedIsUnclaimed ==
    ASSUME IInv, NEW c \in Callers, Holds(c), op[c] \notin Freeing,
           NEW p \in Pages, p >= FirstKernelPage, p \notin virtual_bitset
    PROVE  Unclaimed(p)
<1>1. p \notin BootPages
  BY DEF IInv, MemoryInv
<1>2. ASSUME NEW d \in Callers, NEW m \in mine[d], m.page = p
      PROVE  FALSE
  <2>1. Live(d, m)
    <3>1. CASE d = c
      BY <3>1 DEF Live
    <3>2. CASE d # c
      <4>1. ~Holds(d) /\ PlaceOf(d)
        BY <3>2 DEF IInv, LockInv
      <4> QED
        BY <4>1 DEF Holds, PlaceOf, Live, Freeing
    <3> QED
      BY <3>1, <3>2
  <2> QED
    BY <1>2, <2>1 DEF IInv, LiveOwned, Owned
<1> QED
  BY <1>1, <1>2 DEF Unclaimed

\* The page that is found and marked is nobody's.
LEMMA FindPageIInv ==
    ASSUME IInv, NEW c \in Callers, FindPage(c)
    PROVE  IInv'
<1> DEFINE clear == {p \in Pages :
                      p >= FirstKernelPage /\ p \notin virtual_bitset}
           p == Lowest(clear)
<1> USE DEF At, Goto
<1>1. TypeOK /\ PlaceOf(c) /\ pc[c] = "find" /\ ArgumentsOf(c)
  BY DEF FindPage, IInv, LockInv, CallInv
<1>2. Holds(c) /\ op[c] \in Alone
  BY <1>1 DEF Holds, PlaceOf, TypeOK, Operations, Alone
<1>3. Agree /\ FramesOf(c)
  BY <1>1, <1>2 DEF IInv, MemoryInv, BitsetOf
<1>4. /\ UNCHANGED <<frames, page_table, virtual_mutex, op, block, size, done,
                     mine, raw>>
      /\ pc' = [pc EXCEPT ![c] = IF clear = {} THEN "virtual memory alloc error"
                                 ELSE "map"]
      /\ clear = {} => UNCHANGED <<page, virtual_bitset>>
      /\ clear # {} => /\ page' = [page EXCEPT ![c] = p]
                       /\ virtual_bitset' = virtual_bitset \cup {p}
  BY DEF FindPage, history
<1>5. clear # {} =>
          p \in Pages /\ p >= FirstKernelPage /\ p \notin virtual_bitset
  <2>1. clear \subseteq Nat
    BY DEF Pages
  <2>2. clear # {} => p \in clear
    BY <2>1, LowestIsMember
  <2> QED
    BY <2>2
<1> HIDE DEF clear, p
<1>6. /\ pc'[c] = IF clear = {} THEN "virtual memory alloc error" ELSE "map"
      /\ clear # {} => page'[c] = p
      /\ \A d \in Callers \ {c} : pc'[d] = pc[d] /\ page'[d] = page[d]
  BY <1>1, <1>4 DEF TypeOK
<1>7. \A d \in Callers \ {c} : Still(d)
  BY <1>4, <1>6 DEF Still
<1>8. /\ Mapped' = Mapped /\ Base' = Base /\ Shared' = Shared
      /\ Behind(Mapped)' = Behind(Mapped)
  <2>1. page_table' = page_table /\ raw' = raw
    BY <1>4
  <2> QED
    BY <2>1 DEF Mapped, Base, AllRaw, Behind, Shared
<1>9. TypeOK'
  <2>1. pc' \in [Callers -> Labels] /\ page' \in [Callers -> Pages]
    BY <1>1, <1>4, <1>5 DEF TypeOK, Labels, Locked, Exhausted
  <2>2. virtual_bitset' \subseteq Pages
    BY <1>1, <1>4, <1>5 DEF TypeOK
  <2> QED
    BY <1>1, <1>4, <2>1, <2>2 DEF TypeOK
<1>10. pc'[c] \in {"virtual memory alloc error", "map"} /\ op'[c] = op[c]
  BY <1>4, <1>6
<1>11. PlaceOf(c)'
  BY <1>2, <1>10 DEF PlaceOf, Alone
<1>12. BitsetOf(c)'
  <2>1. CASE clear = {}
    <3>1. /\ pc'[c] = "virtual memory alloc error"
          /\ virtual_bitset' = virtual_bitset
      BY <1>4, <1>6, <2>1
    <3> QED
      BY <1>3, <1>8, <3>1 DEF BitsetOf, Agree
  <2>2. CASE clear # {}
    BY <1>2, <1>3, <1>4, <1>5, <1>6, <1>8, <1>10, <2>2
       DEF BitsetOf, Agree, Alone
  <2> QED
    BY <2>1, <2>2
<1>13. FramesOf(c)'
  <2>1. HasFrame(c)' = HasFrame(c)
    BY <1>1, <1>2, <1>10 DEF HasFrame, Alone
  <2> QED
    BY <1>1, <1>3, <1>4, <1>8, <1>10, <2>1 DEF FramesOf, Settled
<1>14. BootPages \subseteq virtual_bitset' /\ Shared'
  BY <1>4, <1>8 DEF IInv, MemoryInv
<1>15. ArgumentsOf(c)'
  BY <1>1, <1>2, <1>4, <1>10 DEF ArgumentsOf, Alone, Freeing
<1>16. AloneOf(c)'
  <2>1. clear # {} => Unclaimed(p)
    BY <1>2, <1>5, UnusedIsUnclaimed DEF Alone, Freeing
  <2>2. clear # {} => Unclaimed(page[c])'
    BY <1>4, <1>6, <2>1 DEF Unclaimed
  <2> QED
    BY <1>6, <1>10, <2>2 DEF AloneOf
<1>17. RunOf(c)'
  BY <1>2, <1>10 DEF RunOf, Alone
<1>18. LiveOwned'
  <2> SUFFICES ASSUME NEW d \in Callers, NEW m \in mine[d], Live(d, m)'
               PROVE  Owned(m.page, m.free_physical, d)'
    BY <1>4 DEF LiveOwned
  <2>1. Live(d, m)
    <3>1. CASE d = c
      BY <1>2, <3>1 DEF Live, Alone, Freeing
    <3>2. CASE d # c
      BY <1>7, <3>2 DEF Live, Still
    <3> QED
      BY <3>1, <3>2
  <2>2. Owned(m.page, m.free_physical, d)
    BY <2>1 DEF IInv, LiveOwned
  <2>3. virtual_bitset \subseteq virtual_bitset'
    BY <1>4
  <2> QED
    BY <1>4, <1>8, <2>2, <2>3 DEF Owned
<1> QED
  BY <1>2, <1>4, <1>7, <1>9, <1>10, <1>11, <1>12, <1>13, <1>14, <1>15, <1>16,
     <1>17, <1>18, HolderStep

\* The run that is found is clear, and so nobody's.
LEMMA ScanRunIInv ==
    ASSUME IInv, NEW c \in Callers, ScanRun(c)
    PROVE  IInv'
<1> DEFINE first == Lowest(Runs(size[c]))
           none == Runs(size[c]) = {}
<1> USE DEF At, Goto
<1>1. TypeOK /\ PlaceOf(c) /\ pc[c] = "scan" /\ ArgumentsOf(c)
  BY DEF ScanRun, IInv, LockInv, CallInv
<1>2. /\ Holds(c) /\ op[c] = "contigious" /\ done[c] = 0
      /\ size[c] \in Nat /\ size[c] > 0
  BY <1>1 DEF Holds, PlaceOf, TypeOK, Operations, ArgumentsOf
<1>3. Agree /\ Settled
  BY <1>1, <1>2 DEF IInv, MemoryInv, BitsetOf, FramesOf, HasFrame
<1>4. /\ UNCHANGED <<frames, page_table, virtual_bitset, virtual_mutex, op,
                     block,
                     size, done, mine, raw>>
      /\ pc' = [pc EXCEPT ![c] = IF none THEN "unlock" ELSE "frame"]
      /\ none => UNCHANGED page
      /\ ~none => page' = [page EXCEPT ![c] = first]
  BY DEF ScanRun, history, memory
<1>5. ~none => /\ first \in Pages /\ first >= FirstKernelPage
               /\ first + size[c] <= MAX_PAGES
               /\ \A i \in 0..(size[c] - 1) : first + i \notin virtual_bitset
  <2>1. Runs(size[c]) \subseteq Nat
    BY PagingAssumption DEF Runs
  <2>2. ~none => first \in Runs(size[c])
    BY <2>1, LowestIsMember
  <2> HIDE DEF first, none
  <2>3. ~none => /\ first \in FirstKernelPage..(MAX_PAGES - size[c])
                 /\ first..(first + size[c] - 1) \cap virtual_bitset = {}
    BY <2>2 DEF Runs
  <2> QED
    BY <1>2, <2>3, PagingAssumption DEF Pages
<1> HIDE DEF first, none
<1>6. /\ pc'[c] = IF none THEN "unlock" ELSE "frame"
      /\ ~none => page'[c] = first
      /\ \A d \in Callers \ {c} : pc'[d] = pc[d] /\ page'[d] = page[d]
  BY <1>1, <1>4 DEF TypeOK
<1>7. \A d \in Callers \ {c} : Still(d)
  BY <1>4, <1>6 DEF Still
<1>8. TypeOK'
  <2>1. pc' \in [Callers -> Labels] /\ page' \in [Callers -> Pages]
    BY <1>1, <1>4, <1>5 DEF TypeOK, Labels, Locked
  <2> QED
    BY <1>1, <1>4, <2>1 DEF TypeOK
<1>9. /\ pc'[c] \in {"unlock", "frame"} /\ op'[c] = "contigious" /\ done'[c] = 0
      /\ size'[c] = size[c]
  BY <1>2, <1>4, <1>6
<1>10. PlaceOf(c)'
  BY <1>9 DEF PlaceOf
<1>11. BitsetOf(c)' /\ FramesOf(c)'
  BY <1>3, <1>4, <1>9 DEF BitsetOf, FramesOf, HasFrame, Agree, Settled, Mapped,
     Base, AllRaw, Behind
<1>12. BootPages \subseteq virtual_bitset' /\ Shared'
  BY <1>4 DEF IInv, MemoryInv, Shared, Mapped, AllRaw
<1>13. ArgumentsOf(c)'
  BY <1>1, <1>2, <1>4, <1>9 DEF ArgumentsOf, Freeing
<1>14. AloneOf(c)'
  BY <1>9 DEF AloneOf, Alone
<1>15. RunOf(c)'
  <2>1. CASE none
    BY <1>6, <1>9, <2>1 DEF RunOf
  <2>2. CASE ~none
    <3>1. /\ pc'[c] = "frame" /\ page'[c] = first
          /\ virtual_bitset' = virtual_bitset
      BY <1>4, <1>6, <2>2
    <3> QED
      BY <1>2, <1>5, <1>9, <2>2, <3>1 DEF RunOf
  <2> QED
    BY <2>1, <2>2
<1>16. LiveOwned'
  <2> SUFFICES ASSUME NEW d \in Callers, NEW m \in mine[d], Live(d, m)'
               PROVE  Owned(m.page, m.free_physical, d)'
    BY <1>4 DEF LiveOwned
  <2>1. Live(d, m)
    <3>1. CASE d = c
      BY <1>2, <3>1 DEF Live, Freeing
    <3>2. CASE d # c
      BY <1>7, <3>2 DEF Live, Still
    <3> QED
      BY <3>1, <3>2
  <2>2. Owned(m.page, m.free_physical, d)
    BY <2>1 DEF IInv, LiveOwned
  <2> QED
    BY <1>4, <2>2 DEF Owned, Mapped, Base, AllRaw
<1> QED
  BY <1>2, <1>4, <1>7, <1>8, <1>9, <1>10, <1>11, <1>12, <1>13, <1>14, <1>15,
     <1>16, HolderStep

\* The page the caller maps is not mapped yet and nobody's.
LEMMA MapIInv ==
    ASSUME IInv, NEW c \in Callers, Map(c)
    PROVE  IInv'
<1> DEFINE cur == Current(c)
<1> USE DEF At, Goto
<1>1. /\ TypeOK /\ PlaceOf(c) /\ pc[c] = "map" /\ ArgumentsOf(c) /\ AloneOf(c)
      /\ RunOf(c)
  BY DEF Map, IInv, LockInv, CallInv
<1>2. Holds(c) /\ op[c] \in Alone \cup {"contigious"}
  BY <1>1 DEF Holds, PlaceOf, TypeOK, Operations, Alone
<1>3. BitsetOf(c) /\ FramesOf(c) /\ BootPages \subseteq virtual_bitset /\ Shared
  BY <1>1, <1>2 DEF IInv, MemoryInv
<1>4. op[c] \in Alone => cur = page[c]
  BY <1>1 DEF ArgumentsOf, Alone, Current, TypeOK, Pages
<1>5. /\ cur \in Pages /\ cur \notin Mapped /\ Unclaimed(cur)
      /\ op[c] \in Alone => virtual_bitset = Mapped \cup {0, cur}
      /\ op[c] = "contigious" => cur \notin virtual_bitset /\ Agree
  <2>1. CASE op[c] \in Alone
    BY <1>1, <1>3, <1>4, <2>1 DEF BitsetOf, AloneOf, Alone, TypeOK
  <2>2. CASE op[c] = "contigious"
    <3>1. /\ done[c] \in Nat /\ size[c] \in Nat /\ page[c] \in Nat
          /\ done[c] < size[c] /\ page[c] >= FirstKernelPage
          /\ page[c] + size[c] <= MAX_PAGES
          /\ \A i \in done[c]..(size[c] - 1) : page[c] + i \notin virtual_bitset
      BY <1>1, <2>2 DEF RunOf, TypeOK, Pages
    <3>5. page[c] + done[c] \notin virtual_bitset
      BY <3>1
    <3>2. cur \in Pages /\ cur >= FirstKernelPage /\ cur \notin virtual_bitset
      BY <3>1, <3>5, PagingAssumption DEF Pages, Current
    <3>3. Unclaimed(cur)
      BY <1>2, <2>2, <3>2, UnusedIsUnclaimed DEF Freeing
    <3>4. Agree
      BY <1>1, <1>3, <2>2 DEF BitsetOf
    <3> QED
      BY <2>2, <3>2, <3>3, <3>4 DEF Agree, Alone
  <2> QED
    BY <1>2, <2>1, <2>2
<1>6. /\ block[c] \in Blocks
      /\ op[c] = "handle" => block[c] \in raw[c] /\ Settled
      /\ op[c] # "handle" =>
            /\ block[c] \notin Base \cup Behind(Mapped)
            /\ frames = Base \cup Behind(Mapped) \cup {block[c]}
  <2>1. CASE op[c] = "handle"
    BY <1>1, <1>3, <2>1 DEF ArgumentsOf, FramesOf, HasFrame
  <2>2. CASE op[c] # "handle"
    <3>1. HasFrame(c)
      BY <1>1, <1>2, <2>2 DEF HasFrame, Alone
    <3> QED
      BY <1>3, <2>2, <3>1 DEF FramesOf
  <2> QED
    BY <2>1, <2>2
<1>7. /\ UNCHANGED <<frames, virtual_bitset, virtual_mutex, op, page, block,
                     size,
                     done, mine, raw>>
      /\ page_table' = [page_table EXCEPT ![cur] = block[c]]
      /\ pc' = [pc EXCEPT ![c] = IF op[c] = "contigious"
                                    THEN "mark" ELSE "unlock"]
  BY DEF Map, locals, history
<1> HIDE DEF cur
<1>8. /\ pc'[c] = IF op[c] = "contigious" THEN "mark" ELSE "unlock"
      /\ op'[c] = op[c] /\ page'[c] = page[c] /\ done'[c] = done[c]
      /\ size'[c] = size[c] /\ block'[c] = block[c]
      /\ \A d \in Callers \ {c} : pc'[d] = pc[d]
  BY <1>1, <1>7 DEF TypeOK
<1>9. \A d \in Callers \ {c} : Still(d)
  BY <1>7, <1>8 DEF Still
<1>10. /\ page_table'[cur] = block[c]
       /\ \A p \in Pages \ {cur} : page_table'[p] = page_table[p]
  BY <1>1, <1>5, <1>7 DEF TypeOK
<1>11. /\ Mapped' = Mapped \cup {cur} /\ Base' = Base /\ AllRaw' = AllRaw
       /\ Behind(Mapped)' = Behind(Mapped) \cup {block[c]}
  <2>1. block[c] # Null
    BY <1>6, PagingAssumption DEF Blocks, Null
  <2>2. Mapped' = Mapped \cup {cur}
    BY <1>5, <1>10, <2>1 DEF Mapped
  <2>3. \A p \in Mapped : page_table'[p] = page_table[p]
    BY <1>5, <1>10 DEF Mapped
  <2>4. Behind(Mapped)' = Behind(Mapped) \cup {block[c]}
    BY <1>10, <2>2, <2>3 DEF Behind
  <2> QED
    BY <1>7, <2>2, <2>4 DEF Base, AllRaw
<1>12. TypeOK'
  <2>1. pc' \in [Callers -> Labels]
    BY <1>1, <1>7 DEF TypeOK, Labels, Locked
  <2>2. page_table' \in [Pages -> 0..(TotalBlocks - 1)]
    BY <1>1, <1>5, <1>6, <1>7, PagingAssumption DEF TypeOK, Blocks
  <2> QED
    BY <1>1, <1>7, <2>1, <2>2 DEF TypeOK
<1>13. PlaceOf(c)'
  BY <1>2, <1>8 DEF PlaceOf, Alone
<1>14. BitsetOf(c)'
  <2>1. CASE op[c] \in Alone
    <3>1. pc'[c] = "unlock"
      BY <1>8, <2>1 DEF Alone
    <3> QED
      BY <1>5, <1>7, <1>11, <2>1, <3>1 DEF BitsetOf, Agree
  <2>2. CASE op[c] = "contigious"
    <3>1. pc'[c] = "mark" /\ Current(c)' = cur
      BY <1>8, <2>2 DEF Current, cur
    <3> QED
      BY <1>5, <1>7, <1>11, <2>2, <3>1 DEF BitsetOf, Agree
  <2> QED
    BY <1>2, <2>1, <2>2
<1>15. FramesOf(c)'
  <2>1. ~HasFrame(c)' /\ pc'[c] # "unmap"
    BY <1>2, <1>8 DEF HasFrame, Alone
  <2>2. frames = Base \cup Behind(Mapped) \cup {block[c]}
    <3>1. CASE op[c] = "handle"
      BY <1>6, <3>1 DEF Settled, Base, AllRaw
    <3>2. CASE op[c] # "handle"
      BY <1>6, <3>2
    <3> QED
      BY <3>1, <3>2
  <2>3. Settled'
    BY <1>7, <1>11, <2>2 DEF Settled
  <2> QED
    BY <2>1, <2>3 DEF FramesOf
<1>16. BootPages \subseteq virtual_bitset' /\ Shared'
  <2> SUFFICES ASSUME NEW p \in Mapped', NEW q \in Mapped', p # q,
                      page_table'[p] = page_table'[q]
               PROVE  page_table'[p] \in AllRaw'
    BY <1>3, <1>7 DEF Shared
  <2>1. \A r \in Mapped :
            page_table'[r] = page_table[r] /\ page_table[r] \in Behind(Mapped)
    BY <1>5, <1>10 DEF Mapped, Behind
  <2>2. CASE p \in Mapped /\ q \in Mapped
    BY <1>3, <1>11, <2>1, <2>2 DEF Shared
  <2>3. CASE p = cur \/ q = cur
    <3>1. page_table'[p] = block[c] /\ block[c] \in Behind(Mapped)
      BY <1>5, <1>10, <1>11, <2>1, <2>3
    <3> QED
      BY <1>6, <1>11, <3>1 DEF AllRaw
  <2> QED
    BY <1>11, <2>2, <2>3
<1>17. ArgumentsOf(c)'
  BY <1>1, <1>2, <1>7, <1>8 DEF ArgumentsOf, Alone, Freeing
<1>18. \A p : Unclaimed(p)' = Unclaimed(p)
  BY <1>7 DEF Unclaimed
<1>19. AloneOf(c)'
  <2> SUFFICES ASSUME op[c] \in Alone
               PROVE  /\ Unclaimed(page[c])'
                      /\ Owned(page[c], op[c] # "handle", c)'
    BY <1>8 DEF AloneOf
  <2>1. Unclaimed(page[c])'
    BY <1>4, <1>5, <1>8, <1>18
  <2>2. page'[c] = cur /\ op'[c] = op[c]
    BY <1>4, <1>8
  <2>3. Owned(page[c], op[c] # "handle", c)'
    BY <1>5, <1>6, <1>7, <1>10, <1>11, <2>2 DEF Owned
  <2> QED
    BY <2>1, <2>3
<1>20. RunOf(c)'
  <2> SUFFICES ASSUME op[c] = "contigious" PROVE RunOf(c)'
    BY <1>8 DEF RunOf
  <2>1. /\ pc'[c] = "mark" /\ Current(c)' = cur /\ page[c] \in Nat
        /\ done[c] \in Nat /\ cur = page[c] + done[c]
    BY <1>1, <1>8 DEF Current, cur, TypeOK, Pages
  <2>2. ASSUME NEW i \in 0..(done[c] - 1)
        PROVE  (Unclaimed(page[c] + i) /\ Owned(page[c] + i, TRUE, c))'
    <3>1. Unclaimed(page[c] + i) /\ Owned(page[c] + i, TRUE, c)
      BY <1>1 DEF RunOf
    <3>2. page[c] + i # cur
      BY <2>1
    <3>3. Owned(page[c] + i, TRUE, c)'
      BY <1>7, <1>8, <1>10, <1>11, <3>1, <3>2 DEF Owned, Mapped
    <3> QED
      BY <1>8, <1>18, <3>1, <3>3
  <2>3. /\ done[c] < size[c] /\ page[c] >= FirstKernelPage
        /\ page[c] + size[c] <= MAX_PAGES
        /\ \A i \in done[c]..(size[c] - 1) : page[c] + i \notin virtual_bitset
    BY <1>1 DEF RunOf
  <2>4. page_table'[cur] \notin Base'
    BY <1>6, <1>10, <1>11
  <2> QED
    BY <1>7, <1>8, <2>1, <2>2, <2>3, <2>4 DEF RunOf
<1>21. LiveOwned'
  <2> SUFFICES ASSUME NEW d \in Callers, NEW m \in mine[d], Live(d, m)'
               PROVE  Owned(m.page, m.free_physical, d)'
    BY <1>7 DEF LiveOwned
  <2>1. Live(d, m)
    <3>1. CASE d = c
      BY <1>2, <3>1 DEF Live, Alone, Freeing
    <3>2. CASE d # c
      BY <1>9, <3>2 DEF Live, Still
    <3> QED
      BY <3>1, <3>2
  <2>2. Owned(m.page, m.free_physical, d)
    BY <2>1 DEF IInv, LiveOwned
  <2>3. m.page \in Mapped /\ page_table'[m.page] = page_table[m.page]
    BY <1>5, <1>10, <2>2 DEF Owned, Mapped
  <2> QED
    BY <1>7, <1>11, <2>2, <2>3 DEF Owned
<1>22. \A d \in Callers \ {c} :
            pc[d] = "answer" => page_table'[page[d]] = page_table[page[d]]
  <2> SUFFICES ASSUME NEW d \in Callers, pc[d] = "answer"
               PROVE  page_table'[page[d]] = page_table[page[d]]
    OBVIOUS
  <2>1. op[d] = "translate" /\ page[d] \in Pages
    BY DEF IInv, TypeOK, LockInv, PlaceOf, Operations
  <2>2. PICK m \in mine[d] : m.page = page[d]
    BY <2>1 DEF IInv, CallInv, ArgumentsOf
  <2>3. page[d] # cur
    BY <1>5, <2>2 DEF Unclaimed
  <2> QED
    BY <1>10, <2>1, <2>3
<1>23. op'[c] = op[c] /\ pc'[c] \notin {"idle", "lock"}
  BY <1>8
<1> QED
  BY <1>2, <1>7, <1>9, <1>12, <1>13, <1>14, <1>15, <1>16, <1>17, <1>19, <1>20,
     <1>21, <1>22, <1>23, HolderStep

\* The page of a run is marked after it has been mapped.
LEMMA MarkPageIInv ==
    ASSUME IInv, NEW c \in Callers, MarkPage(c)
    PROVE  IInv'
<1> DEFINE cur == Current(c)
<1> USE DEF At, Goto
<1>1. TypeOK /\ PlaceOf(c) /\ pc[c] = "mark" /\ ArgumentsOf(c) /\ RunOf(c)
  BY DEF MarkPage, IInv, LockInv, CallInv
<1>2. Holds(c) /\ op[c] = "contigious"
  BY <1>1 DEF Holds, PlaceOf, TypeOK, Operations
<1>3. Settled /\ BootPages \subseteq virtual_bitset /\ Shared
  BY <1>1, <1>2 DEF IInv, MemoryInv, FramesOf, HasFrame
<1>4. cur \notin virtual_bitset /\ Mapped \cup {0} = virtual_bitset \cup {cur}
  BY <1>1, <1>2 DEF IInv, MemoryInv, BitsetOf
<1>5. /\ done[c] \in Nat /\ size[c] \in Nat /\ page[c] \in Nat
      /\ done[c] < size[c] /\ page[c] >= FirstKernelPage
      /\ page[c] + size[c] <= MAX_PAGES
      /\ \A i \in done[c]..(size[c] - 1) : page[c] + i \notin virtual_bitset
      /\ page_table[cur] \notin Base
  BY <1>1, <1>2 DEF RunOf, TypeOK, Pages
<1>6. /\ cur \in Pages /\ cur >= FirstKernelPage
      /\ cur = page[c] + done[c] /\ cur # 0
  BY <1>5, PagingAssumption DEF Pages, Current
<1>7. Unclaimed(cur)
  BY <1>2, <1>4, <1>6, UnusedIsUnclaimed DEF Freeing
<1>8. /\ UNCHANGED <<frames, page_table, virtual_mutex, op, page, block, size,
                     mine,
                     raw>>
      /\ virtual_bitset' = virtual_bitset \cup {cur}
      /\ done' = [done EXCEPT ![c] = @ + 1]
      /\ pc' = [pc EXCEPT ![c] = IF done[c] + 1 < size[c]
                                    THEN "frame" ELSE "unlock"]
  BY DEF MarkPage, history
<1> HIDE DEF cur
<1>9. /\ pc'[c] = IF done[c] + 1 < size[c] THEN "frame" ELSE "unlock"
      /\ done'[c] = done[c] + 1 /\ op'[c] = "contigious" /\ page'[c] = page[c]
      /\ size'[c] = size[c]
      /\ \A d \in Callers \ {c} : pc'[d] = pc[d] /\ done'[d] = done[d]
  BY <1>1, <1>2, <1>8 DEF TypeOK
<1>10. \A d \in Callers \ {c} : Still(d)
  BY <1>8, <1>9 DEF Still
<1>11. /\ Mapped' = Mapped /\ Base' = Base /\ Shared' = Shared
       /\ Behind(Mapped)' = Behind(Mapped)
  BY <1>8 DEF Mapped, Base, AllRaw, Behind, Shared
<1>12. TypeOK'
  <2>1. pc' \in [Callers -> Labels] /\ done' \in [Callers -> Nat]
    BY <1>1, <1>8 DEF TypeOK, Labels, Locked
  <2>2. virtual_bitset' \subseteq Pages
    BY <1>1, <1>6, <1>8 DEF TypeOK
  <2> QED
    BY <1>1, <1>8, <2>1, <2>2 DEF TypeOK
<1>13. pc'[c] \in {"frame", "unlock"}
  BY <1>9
<1>14. PlaceOf(c)'
  BY <1>9, <1>13 DEF PlaceOf
<1>15. BitsetOf(c)' /\ FramesOf(c)'
  BY <1>3, <1>4, <1>6, <1>8, <1>11, <1>13
     DEF BitsetOf, Agree, FramesOf, HasFrame, Settled
<1>16. BootPages \subseteq virtual_bitset' /\ Shared'
  BY <1>3, <1>8, <1>11
<1>17. ArgumentsOf(c)'
  BY <1>1, <1>2, <1>8, <1>9, <1>13 DEF ArgumentsOf, Freeing
<1>18. AloneOf(c)'
  BY <1>9 DEF AloneOf, Alone
<1>19. RunOf(c)'
  <2>1. \A i \in 0..(done[c] - 1) :
            Unclaimed(page[c] + i) /\ Owned(page[c] + i, TRUE, c)
    BY <1>1, <1>2 DEF RunOf
  <2>2. ASSUME NEW i \in 0..done[c]
        PROVE  (Unclaimed(page[c] + i) /\ Owned(page[c] + i, TRUE, c))'
    <3>1. Unclaimed(page[c] + i)
      <4>1. CASE i = done[c]
        BY <1>6, <1>7, <4>1
      <4>2. CASE i # done[c]
        <5>1. i \in 0..(done[c] - 1)
          BY <1>5, <4>2
        <5> QED
          BY <2>1, <5>1
      <4> QED
        BY <4>1, <4>2
    <3>2. /\ page[c] + i \in Mapped
          /\ page[c] + i \in virtual_bitset \cup {cur}
          /\ page_table[page[c] + i] \notin Base
      <4>1. CASE i = done[c]
        BY <1>4, <1>5, <1>6, <4>1
      <4>2. CASE i # done[c]
        BY <1>5, <2>1, <4>2 DEF Owned
      <4> QED
        BY <4>1, <4>2
    <3> QED
      BY <1>8, <1>9, <1>11, <3>1, <3>2 DEF Unclaimed, Owned
  <2>3. 0..(done'[c] - 1) = 0..done[c]
    BY <1>5, <1>9
  <2>4. pc'[c] = "frame" =>
            /\ done'[c] < size'[c]
            /\ \A i \in done'[c]..(size'[c] - 1) :
                  page[c] + i \notin virtual_bitset'
    BY <1>5, <1>6, <1>8, <1>9
  <2> QED
    BY <1>5, <1>9, <1>13, <2>2, <2>3, <2>4 DEF RunOf
<1>20. LiveOwned'
  <2> SUFFICES ASSUME NEW d \in Callers, NEW m \in mine[d], Live(d, m)'
               PROVE  Owned(m.page, m.free_physical, d)'
    BY <1>8 DEF LiveOwned
  <2>1. Live(d, m)
    <3>1. CASE d = c
      BY <1>2, <3>1 DEF Live, Freeing
    <3>2. CASE d # c
      BY <1>10, <3>2 DEF Live, Still
    <3> QED
      BY <3>1, <3>2
  <2>2. Owned(m.page, m.free_physical, d)
    BY <2>1 DEF IInv, LiveOwned
  <2> QED
    BY <1>8, <1>11, <2>2 DEF Owned
<1>21. op'[c] = op[c] /\ pc'[c] \notin {"idle", "lock"}
  BY <1>2, <1>9
<1> QED
  BY <1>2, <1>8, <1>10, <1>12, <1>14, <1>15, <1>16, <1>17, <1>18, <1>19, <1>20,
     <1>21, HolderStep

\* The page that is freed is its caller's, and no other caller's.
LEMMA FreeingItsOwn ==
    ASSUME IInv, NEW c \in Callers, op[c] \in Freeing
    PROVE  /\ page[c] >= FirstKernelPage /\ page[c] \notin BootPages
           /\ \A d \in Callers \ {c} : \A m \in mine[d] : m.page # page[c]
<1>1. PICK m \in mine[c] : m = Held(page[c], op[c] = "free")
  BY DEF IInv, CallInv, ArgumentsOf
<1>2. m.page = page[c]
  BY <1>1 DEF Held
<1> QED
  BY <1>2 DEF IInv, HoldingInv

\* page_free takes its page's entry away.
LEMMA UnmapIInv ==
    ASSUME IInv, NEW c \in Callers, Unmap(c)
    PROVE  IInv'
<1> USE DEF At, Goto
<1>1. TypeOK /\ PlaceOf(c) /\ pc[c] = "unmap" /\ ArgumentsOf(c)
  BY DEF Unmap, IInv, LockInv, CallInv
<1>2. Holds(c) /\ op[c] \in Freeing /\ page[c] \in Mapped
  BY <1>1 DEF Holds, PlaceOf, TypeOK, Operations, Freeing, ArgumentsOf
<1>3. Agree /\ BootPages \subseteq virtual_bitset /\ Shared
  BY <1>1, <1>2 DEF IInv, MemoryInv, BitsetOf
<1>4. frames = Base \cup Behind(Mapped \ {page[c]})
  BY <1>1, <1>2 DEF IInv, MemoryInv, FramesOf, HasFrame
<1>5. /\ UNCHANGED <<frames, virtual_bitset, virtual_mutex, op, page, block,
                     size,
                     done, mine, raw>>
      /\ page_table' = [page_table EXCEPT ![page[c]] = Null]
      /\ pc' = [pc EXCEPT ![c] = "clear"]
  BY DEF Unmap, locals, history
<1>6. /\ pc'[c] = "clear" /\ op'[c] = op[c] /\ page'[c] = page[c]
      /\ done'[c] = done[c] /\ block'[c] = block[c]
      /\ \A d \in Callers \ {c} : pc'[d] = pc[d]
  BY <1>1, <1>5 DEF TypeOK
<1>7. \A d \in Callers \ {c} : Still(d)
  BY <1>5, <1>6 DEF Still
<1>8. /\ page_table'[page[c]] = Null
      /\ \A p \in Pages \ {page[c]} : page_table'[p] = page_table[p]
  BY <1>1, <1>5 DEF TypeOK
<1>9. /\ Mapped' = Mapped \ {page[c]} /\ Base' = Base /\ AllRaw' = AllRaw
      /\ Behind(Mapped)' = Behind(Mapped \ {page[c]})
  <2>1. Mapped' = Mapped \ {page[c]}
    BY <1>8 DEF Mapped
  <2>2. Behind(Mapped)' = Behind(Mapped \ {page[c]})
    BY <1>8, <2>1 DEF Behind, Mapped
  <2> QED
    BY <1>5, <2>1, <2>2 DEF Base, AllRaw
<1>10. TypeOK'
  <2>1. pc' \in [Callers -> Labels]
    BY <1>1, <1>5 DEF TypeOK, Labels, Locked
  <2>2. page_table' \in [Pages -> 0..(TotalBlocks - 1)]
    BY <1>1, <1>5, PagingAssumption DEF TypeOK, Null
  <2> QED
    BY <1>1, <1>5, <2>1, <2>2 DEF TypeOK
<1>11. PlaceOf(c)'
  BY <1>2, <1>6 DEF PlaceOf, Freeing
<1>12. BitsetOf(c)'
  BY <1>2, <1>3, <1>5, <1>6, <1>9 DEF BitsetOf, Agree
<1>13. FramesOf(c)'
  BY <1>4, <1>5, <1>6, <1>9 DEF FramesOf, HasFrame, Settled
<1>14. BootPages \subseteq virtual_bitset' /\ Shared'
  <2>1. \A p \in Mapped' : p \in Mapped /\ page_table'[p] = page_table[p]
    BY <1>8, <1>9 DEF Mapped
  <2> QED
    BY <1>3, <1>5, <1>9, <2>1 DEF Shared
<1>15. ArgumentsOf(c)'
  BY <1>1, <1>2, <1>5, <1>6 DEF ArgumentsOf, Freeing
<1>16. AloneOf(c)' /\ RunOf(c)'
  BY <1>2, <1>6 DEF AloneOf, RunOf, Alone, Freeing
<1>17. LiveOwned'
  <2> SUFFICES ASSUME NEW d \in Callers, NEW m \in mine[d], Live(d, m)'
               PROVE  Owned(m.page, m.free_physical, d)'
    BY <1>5 DEF LiveOwned
  <2>1. Live(d, m) /\ m.page # page[c]
    <3>1. CASE d = c
      BY <1>2, <1>6, <3>1 DEF Live
    <3>2. CASE d # c
      BY <1>2, <1>7, <3>2, FreeingItsOwn DEF Live, Still
    <3> QED
      BY <3>1, <3>2
  <2>2. Owned(m.page, m.free_physical, d)
    BY <2>1 DEF IInv, LiveOwned
  <2>3. m.page \in Mapped /\ page_table'[m.page] = page_table[m.page]
    BY <1>8, <2>1, <2>2 DEF Owned, Mapped
  <2> QED
    BY <1>5, <1>9, <2>1, <2>2, <2>3 DEF Owned
<1>18. \A d \in Callers \ {c} :
            pc[d] = "answer" => page_table'[page[d]] = page_table[page[d]]
  <2> SUFFICES ASSUME NEW d \in Callers \ {c}, pc[d] = "answer"
               PROVE  page_table'[page[d]] = page_table[page[d]]
    OBVIOUS
  <2>1. op[d] = "translate" /\ page[d] \in Pages
    BY DEF IInv, TypeOK, LockInv, PlaceOf, Operations
  <2>2. PICK m \in mine[d] : m.page = page[d]
    BY <2>1 DEF IInv, CallInv, ArgumentsOf
  <2>3. page[d] # page[c]
    BY <1>2, <2>2, FreeingItsOwn
  <2> QED
    BY <1>8, <2>1, <2>3
<1>19. op'[c] = op[c] /\ pc'[c] \notin {"idle", "lock"}
  BY <1>6
<1> QED
  BY <1>2, <1>5, <1>7, <1>10, <1>11, <1>12, <1>13, <1>14, <1>15, <1>16, <1>17,
     <1>18, <1>19, HolderStep

\* page_free clears its page's bit last.
LEMMA ClearPageIInv ==
    ASSUME IInv, NEW c \in Callers, ClearPage(c)
    PROVE  IInv'
<1> USE DEF At, Goto
<1>1. TypeOK /\ PlaceOf(c) /\ pc[c] = "clear" /\ ArgumentsOf(c)
  BY DEF ClearPage, IInv, LockInv, CallInv
<1>2. Holds(c) /\ op[c] \in Freeing
  BY <1>1 DEF Holds, PlaceOf, TypeOK, Operations, Freeing
<1>3. /\ page[c] \notin Mapped /\ virtual_bitset = Mapped \cup {0, page[c]}
      /\ Settled /\ BootPages \subseteq virtual_bitset /\ Shared
  BY <1>1, <1>2 DEF IInv, MemoryInv, BitsetOf, FramesOf, HasFrame
<1>4. page[c] # 0 /\ page[c] \notin BootPages
  BY <1>2, FreeingItsOwn, PagingAssumption
<1>5. /\ UNCHANGED <<frames, page_table, virtual_mutex, op, page, block, size,
                     done, mine, raw>>
      /\ virtual_bitset' = virtual_bitset \ {page[c]}
      /\ pc' = [pc EXCEPT ![c] = "unlock"]
  BY DEF ClearPage, locals, history
<1>6. /\ pc'[c] = "unlock" /\ op'[c] = op[c] /\ page'[c] = page[c]
      /\ done'[c] = done[c] /\ block'[c] = block[c]
      /\ \A d \in Callers \ {c} : pc'[d] = pc[d]
  BY <1>1, <1>5 DEF TypeOK
<1>7. \A d \in Callers \ {c} : Still(d)
  BY <1>5, <1>6 DEF Still
<1>8. /\ Mapped' = Mapped /\ Base' = Base /\ Shared' = Shared
      /\ Behind(Mapped)' = Behind(Mapped)
  BY <1>5 DEF Mapped, Base, AllRaw, Behind, Shared
<1>9. TypeOK'
  <2>1. pc' \in [Callers -> Labels] /\ virtual_bitset' \subseteq Pages
    BY <1>1, <1>5 DEF TypeOK, Labels, Locked
  <2> QED
    BY <1>1, <1>5, <2>1 DEF TypeOK
<1>10. PlaceOf(c)'
  BY <1>2, <1>6 DEF PlaceOf, Freeing
<1>11. BitsetOf(c)' /\ FramesOf(c)'
  BY <1>2, <1>3, <1>4, <1>5, <1>6, <1>8
     DEF BitsetOf, Agree, FramesOf, HasFrame, Settled
<1>12. BootPages \subseteq virtual_bitset' /\ Shared'
  BY <1>3, <1>4, <1>5, <1>8
<1>13. ArgumentsOf(c)'
  BY <1>1, <1>2, <1>5, <1>6 DEF ArgumentsOf, Freeing
<1>14. AloneOf(c)' /\ RunOf(c)'
  BY <1>2, <1>6 DEF AloneOf, RunOf, Alone, Freeing
<1>15. LiveOwned'
  <2> SUFFICES ASSUME NEW d \in Callers, NEW m \in mine[d], Live(d, m)'
               PROVE  Owned(m.page, m.free_physical, d)'
    BY <1>5 DEF LiveOwned
  <2>1. Live(d, m) /\ m.page # page[c]
    <3>1. CASE d = c
      BY <1>2, <1>6, <3>1 DEF Live
    <3>2. CASE d # c
      BY <1>2, <1>7, <3>2, FreeingItsOwn DEF Live, Still
    <3> QED
      BY <3>1, <3>2
  <2>2. Owned(m.page, m.free_physical, d)
    BY <2>1 DEF IInv, LiveOwned
  <2> QED
    BY <1>5, <1>8, <2>1, <2>2 DEF Owned
<1>16. op'[c] = op[c] /\ pc'[c] \notin {"idle", "lock"}
  BY <1>6
<1> QED
  BY <1>2, <1>5, <1>7, <1>9, <1>10, <1>11, <1>12, <1>13, <1>14, <1>15, <1>16,
     HolderStep
-----------------------------------------------------------------------------
(* Steps without the lock.                                                 *)

\* The invariant holds initially.
LEMMA InitIInv == ASSUME Init PROVE IInv
<1> USE PagingAssumption DEF Init
<1>1. BootPages \subseteq Pages \ {0}
  BY DEF BootPages, Kernel, Image, Pages
<1>2. \A p \in BootPages : /\ p - FirstKernelPage \in 1..(TotalBlocks - 1)
                           /\ p - FirstKernelPage \in Reserved
                           /\ p >= FirstKernelPage
  BY DEF BootPages, Kernel, Image, Reserved
<1>3. \A p \in Pages : page_table[p] =
                IF p \in BootPages THEN p - FirstKernelPage ELSE Null
  OBVIOUS
<1>4. Mapped = BootPages
  BY <1>1, <1>2, <1>3 DEF Mapped, Null
<1>5. AllRaw = {}
  BY DEF AllRaw
<1>6. \A p \in Mapped : page_table[p] = p - FirstKernelPage
  BY <1>1, <1>3, <1>4
<1>7. TypeOK
  <2>1. page_table \in [Pages -> 0..(TotalBlocks - 1)]
    BY <1>2, <1>3 DEF Null
  <2>2. /\ frames \subseteq 0..(TotalBlocks - 1)
        /\ virtual_bitset \subseteq Pages
        /\ virtual_mutex \in {0, 1}
    BY <1>1 DEF Pages
  <2>3. /\ pc \in [Callers -> Labels] /\ op \in [Callers -> Operations]
        /\ page \in [Callers -> Pages]
        /\ block \in [Callers -> 0..(TotalBlocks - 1)]
        /\ size \in [Callers -> Nat] /\ done \in [Callers -> Nat]
    BY DEF Labels, Operations, Pages
  <2>4. /\ mine \in [Callers -> SUBSET [page : Pages, free_physical : BOOLEAN]]
        /\ raw \in [Callers -> SUBSET (0..(TotalBlocks - 1))]
    OBVIOUS
  <2> QED
    BY <2>1, <2>2, <2>3, <2>4 DEF TypeOK
<1>8. LockInv
  BY DEF LockInv, PlaceOf, Holds
<1>9. MemoryInv
  <2>1. Agree
    BY <1>4 DEF Agree
  <2>2. Behind(Mapped) \subseteq Reserved \cap 0..(TotalBlocks - 1)
    BY <1>2, <1>4, <1>6 DEF Behind
  <2>3. Settled
    BY <1>5, <2>2 DEF Settled, Base
  <2>4. Shared
    BY <1>1, <1>2, <1>4, <1>6 DEF Shared, Pages
  <2>5. \A c \in Callers : ~Holds(c)
    BY DEF Holds
  <2> QED
    BY <2>1, <2>3, <2>4, <2>5 DEF MemoryInv
<1>10. HoldingInv /\ LiveOwned
  BY DEF HoldingInv, LiveOwned
<1>11. CallInv
  BY DEF CallInv, ArgumentsOf, AloneOf, RunOf, Alone, Freeing
<1> QED
  BY <1>7, <1>8, <1>9, <1>10, <1>11 DEF IInv

\* What is needed for a step of a caller that does not hold the lock and leaves
\* memory alone.
LEMMA OutsideStep ==
    ASSUME IInv, NEW c \in Callers, UNCHANGED <<memory, history>>,
           \A d \in Callers \ {c} : Still(d),
           TypeOK', LockInv', virtual_mutex' = 0 => virtual_mutex = 0,
           Holds(c)' => BitsetOf(c)' /\ FramesOf(c)',
           ArgumentsOf(c)', AloneOf(c)', RunOf(c)',
           \A m \in mine[c] : Live(c, m)
    PROVE  IInv'
<1>1. UNCHANGED <<frames, virtual_bitset, page_table, mine, raw>>
  BY DEF memory, history
<1>2. /\ Mapped' = Mapped /\ Base' = Base /\ Shared' = Shared /\ Agree' = Agree
      /\ Behind(Mapped)' = Behind(Mapped)
      /\ \A p, f, d : Owned(p, f, d)' = Owned(p, f, d)
      /\ \A p : Unclaimed(p)' = Unclaimed(p)
  BY <1>1 DEF Mapped, Base, AllRaw, Behind, Shared, Agree, Owned, Unclaimed
<1>3. ASSUME NEW d \in Callers \ {c}
      PROVE  /\ Holds(d)' = Holds(d)
             /\ BitsetOf(d) => BitsetOf(d)'
             /\ FramesOf(d) => FramesOf(d)'
             /\ ArgumentsOf(d) => ArgumentsOf(d)'
             /\ AloneOf(d) => AloneOf(d)'
             /\ RunOf(d) => RunOf(d)'
             /\ \A m : Live(d, m)' = Live(d, m)
  <2>1. UNCHANGED <<pc[d], op[d], page[d], block[d], size[d], done[d]>>
    BY <1>3 DEF Still
  <2>2. Holds(d)' = Holds(d) /\ \A m : Live(d, m)' = Live(d, m)
    BY <2>1 DEF Holds, Live
  <2>3. BitsetOf(d) => BitsetOf(d)'
    BY <1>1, <1>2, <2>1 DEF BitsetOf, Current
  <2>4. FramesOf(d) => FramesOf(d)'
    <3>1. HasFrame(d)' = HasFrame(d)
      BY <2>1 DEF HasFrame
    <3>2. Settled' = Settled
      BY <1>1, <1>2 DEF Settled
    <3>3. Behind(Mapped \ {page[d]})' = Behind(Mapped \ {page[d]})
      BY <1>1, <1>2, <2>1 DEF Behind
    <3> QED
      BY <1>1, <1>2, <2>1, <3>1, <3>2, <3>3 DEF FramesOf
  <2>5. ArgumentsOf(d) => ArgumentsOf(d)'
    BY <1>1, <1>2, <2>1 DEF ArgumentsOf
  <2>6. AloneOf(d) => AloneOf(d)'
    BY <1>2, <2>1 DEF AloneOf
  <2>7. RunOf(d) => RunOf(d)'
    BY <1>1, <1>2, <2>1 DEF RunOf, Current
  <2> QED
    BY <2>2, <2>3, <2>4, <2>5, <2>6, <2>7
<1>4. MemoryInv'
  <2>1. virtual_mutex' = 0 => (Agree /\ Settled)'
    BY <1>1, <1>2 DEF IInv, MemoryInv, Settled
  <2>2. \A d \in Callers : Holds(d)' => (BitsetOf(d) /\ FramesOf(d))'
    BY <1>3 DEF IInv, MemoryInv
  <2> QED
    BY <1>1, <1>2, <2>1, <2>2 DEF IInv, MemoryInv
<1>5. HoldingInv'
  BY <1>1 DEF IInv, HoldingInv
<1>6. LiveOwned'
  <2> SUFFICES ASSUME NEW d \in Callers, NEW m \in mine[d], Live(d, m)'
               PROVE  Owned(m.page, m.free_physical, d)'
    BY <1>1 DEF LiveOwned
  <2>1. Live(d, m)
    BY <1>3
  <2> QED
    BY <1>2, <2>1 DEF IInv, LiveOwned
<1>7. CallInv'
  BY <1>3 DEF IInv, CallInv
<1> QED
  BY <1>4, <1>5, <1>6, <1>7 DEF IInv


\* A call begins, with what is its caller's to use.
LEMMA CallIInv ==
    ASSUME IInv, NEW c \in Callers, Call(c)
    PROVE  IInv'
<1> USE DEF At, Goto
<1>1. TypeOK /\ LockInv /\ PlaceOf(c) /\ ArgumentsOf(c)
  BY DEF IInv, LockInv, CallInv
<1> DEFINE Fits(f, l, p, b, n) ==
        /\ f \in Operations \ {"none"} /\ p \in Pages
        /\ b \in 0..(TotalBlocks - 1) /\ n \in Nat
        /\ l = IF f = "translate" THEN "test" ELSE "lock"
        /\ f = "claim" => b \in Blocks
        /\ f = "handle" => b \in raw[c]
        /\ f \in Freeing => Held(p, f = "free") \in mine[c]
        /\ f = "translate" => \E m \in mine[c] : m.page = p
        /\ f = "contigious" => n > 0
<1> DEFINE Begins == \E f, l, p, b, n :
                        Enter(c, f, l, p, b, n) /\ Fits(f, l, p, b, n)
<1>2. Begins
  <2>0. /\ 0 \in Pages /\ 0 \in 0..(TotalBlocks - 1)
        /\ Blocks \subseteq 0..(TotalBlocks - 1)
        /\ raw[c] \subseteq 0..(TotalBlocks - 1)
        /\ mine[c] \subseteq [page : Pages, free_physical : BOOLEAN]
    BY <1>1, PagingAssumption DEF Pages, Blocks, TypeOK
  <2>1. CASE Enter(c, "random", "lock", 0, 0, 0)
    <3>1. Fits("random", "lock", 0, 0, 0)
      BY <2>0 DEF Operations, Freeing
    <3> HIDE DEF Fits
    <3> QED
      BY <2>1, <3>1
  <2>2. ASSUME NEW b \in Blocks, Enter(c, "claim", "lock", 0, b, 0)
        PROVE  Begins
    <3>1. Fits("claim", "lock", 0, b, 0)
      BY <2>0 DEF Operations, Freeing
    <3> HIDE DEF Fits
    <3> QED
      BY <2>2, <3>1
  <2>3. ASSUME NEW b \in raw[c], Enter(c, "handle", "lock", 0, b, 0)
        PROVE  Begins
    <3>1. Fits("handle", "lock", 0, b, 0)
      BY <2>0 DEF Operations, Freeing
    <3> HIDE DEF Fits
    <3> QED
      BY <2>3, <3>1
  <2>4. ASSUME NEW n \in Sizes, Enter(c, "contigious", "lock", 0, 0, n)
        PROVE  Begins
    <3>1. Fits("contigious", "lock", 0, 0, n)
      BY <2>0, PagingAssumption DEF Operations, Freeing
    <3> HIDE DEF Fits
    <3> QED
      BY <2>4, <3>1
  <2>5. ASSUME NEW m \in mine[c],
               Enter(c, IF m.free_physical THEN "free" ELSE "forget", "lock",
                     m.page, 0, 0)
        PROVE  Begins
    <3> DEFINE f == IF m.free_physical THEN "free" ELSE "forget"
    <3>1. m.page \in Pages /\ m.free_physical \in BOOLEAN
      BY <2>0
    <3>2. m = Held(m.page, f = "free")
      BY <2>0, <3>1 DEF Held
    <3>3. Fits(f, "lock", m.page, 0, 0)
      BY <2>0, <3>1, <3>2 DEF Operations, Freeing
    <3> HIDE DEF Fits
    <3> QED
      BY <2>5, <3>3
  <2>6. ASSUME NEW m \in mine[c], Enter(c, "translate", "test", m.page, 0, 0)
        PROVE  Begins
    <3>1. Fits("translate", "test", m.page, 0, 0)
      BY <2>0 DEF Operations, Freeing
    <3> HIDE DEF Fits
    <3> QED
      BY <2>6, <3>1
  <2> QED
    BY <2>1, <2>2, <2>3, <2>4, <2>5, <2>6 DEF Call
<1>3. PICK f, l, p, b, n : Enter(c, f, l, p, b, n) /\ Fits(f, l, p, b, n)
  BY <1>2
<1>4. /\ UNCHANGED <<memory, virtual_mutex, done, history>>
      /\ pc[c] = "idle"
      /\ op' = [op EXCEPT ![c] = f] /\ page' = [page EXCEPT ![c] = p]
      /\ block' = [block EXCEPT ![c] = b] /\ size' = [size EXCEPT ![c] = n]
      /\ pc' = [pc EXCEPT ![c] = l]
  BY <1>3 DEF Enter
<1>5. Fits(f, l, p, b, n)
  BY <1>3
<1>6. op[c] = "none" /\ done[c] = 0
  BY <1>1, <1>4 DEF PlaceOf, TypeOK, Operations, ArgumentsOf
<1>7. /\ op'[c] = f /\ page'[c] = p /\ block'[c] = b /\ size'[c] = n
      /\ pc'[c] = l /\ done'[c] = 0
  BY <1>1, <1>4, <1>6 DEF TypeOK
<1>8. \A d \in Callers \ {c} : Still(d)
  BY <1>1, <1>4 DEF TypeOK, Still
<1>9. l \in {"lock", "test"}
  BY <1>5
<1>10. TypeOK'
  <2>1. /\ pc' \in [Callers -> Labels] /\ op' \in [Callers -> Operations]
        /\ page' \in [Callers -> Pages]
        /\ block' \in [Callers -> 0..(TotalBlocks - 1)]
        /\ size' \in [Callers -> Nat]
    BY <1>1, <1>4, <1>5, <1>9 DEF TypeOK, Labels
  <2> QED
    BY <1>1, <1>4, <2>1 DEF TypeOK, memory, history
<1>11. PlaceOf(c)' /\ ~Holds(c)' /\ ~Holds(c)
  BY <1>4, <1>5, <1>7 DEF PlaceOf, Holds, Operations
<1>12. LockInv'
  <2>1. \A d \in Callers \ {c} : PlaceOf(d)' /\ (Holds(d)' <=> Holds(d))
    BY <1>1, <1>8, StillPlaced DEF LockInv
  <2> QED
    BY <1>1, <1>4, <1>11, <2>1 DEF LockInv
<1>13. ArgumentsOf(c)'
  <2>1. UNCHANGED <<page_table, mine, raw>>
    BY <1>4 DEF memory, history
  <2> QED
    BY <1>1, <1>5, <1>7, <1>9, <2>1 DEF ArgumentsOf, Freeing
<1>14. AloneOf(c)' /\ RunOf(c)'
  BY <1>7, <1>9 DEF AloneOf, RunOf
<1>15. \A m \in mine[c] : Live(c, m)
  BY <1>6 DEF Live, Freeing
<1> QED
  BY <1>4, <1>8, <1>10, <1>11, <1>12, <1>13, <1>14, <1>15, OutsideStep

\* The lock is taken: memory is as the last holder has left it.
LEMMA LockIInv ==
    ASSUME IInv, NEW c \in Callers, Lock(c)
    PROVE  IInv'
<1> USE DEF At, Goto
<1>1. TypeOK /\ LockInv /\ PlaceOf(c) /\ ArgumentsOf(c) /\ pc[c] = "lock"
  BY DEF IInv, LockInv, CallInv, Lock
<1>2. /\ virtual_mutex = 0 /\ virtual_mutex' = 1
      /\ UNCHANGED <<memory, history, op, page, block, size, done>>
      /\ pc' = [pc EXCEPT ![c] = FirstStep(op[c])]
  BY DEF Lock, locals
<1>3. op[c] \in Operations \ {"none", "translate"}
  BY <1>1 DEF PlaceOf, TypeOK
<1>4. FirstStep(op[c]) = IF op[c] = "random" THEN "frame"
                         ELSE IF op[c] = "claim" THEN "claim"
                         ELSE IF op[c] = "handle" THEN "find"
                         ELSE IF op[c] = "contigious" THEN "scan" ELSE "test"
  BY DEF FirstStep
<1>5. /\ pc'[c] = FirstStep(op[c]) /\ op'[c] = op[c] /\ page'[c] = page[c]
      /\ block'[c] = block[c] /\ size'[c] = size[c] /\ done'[c] = done[c]
  BY <1>1, <1>2 DEF TypeOK
<1>6. \A d \in Callers \ {c} : Still(d)
  BY <1>1, <1>2 DEF TypeOK, Still
<1>7. pc'[c] \in {"frame", "claim", "find", "scan", "test"}
  BY <1>4, <1>5
<1>8. TypeOK'
  <2>1. pc' \in [Callers -> Labels]
    BY <1>1, <1>2, <1>4 DEF TypeOK, Labels, Locked
  <2> QED
    BY <1>1, <1>2, <2>1 DEF TypeOK, memory, history
<1>9. PlaceOf(c)' /\ Holds(c)'
  BY <1>3, <1>4, <1>5 DEF PlaceOf, Holds, Operations
<1>10. LockInv'
  <2>1. \A d \in Callers \ {c} : PlaceOf(d)' /\ ~Holds(d)'
    BY <1>1, <1>2, <1>6, StillPlaced DEF LockInv
  <2> QED
    BY <1>2, <1>9, <2>1 DEF LockInv
<1>11. BitsetOf(c)' /\ FramesOf(c)'
  <2>1. Agree /\ Settled
    BY <1>2 DEF IInv, MemoryInv
  <2>2. Agree' /\ Settled'
    BY <1>2, <2>1 DEF memory, history, Agree, Settled, Mapped, Base, AllRaw,
       Behind
  <2>3. ~HasFrame(c)'
    BY <1>3, <1>4, <1>5 DEF HasFrame
  <2> QED
    BY <1>7, <2>2, <2>3 DEF BitsetOf, FramesOf
<1>12. ArgumentsOf(c)'
  <2>1. UNCHANGED <<page_table, mine, raw>>
    BY <1>2 DEF memory, history
  <2> QED
    BY <1>1, <1>5, <1>7, <2>1 DEF ArgumentsOf, Freeing
<1>13. AloneOf(c)' /\ RunOf(c)'
  BY <1>4, <1>5, <1>7 DEF AloneOf, RunOf
<1>14. \A m \in mine[c] : Live(c, m)
  BY <1>1 DEF Live
<1> QED
  BY <1>2, <1>6, <1>8, <1>10, <1>11, <1>12, <1>13, <1>14, OutsideStep

\* A translation, which takes no lock: the page is its caller's, so it is in use
\* and mapped.
LEMMA TranslateIInv ==
    ASSUME IInv, NEW c \in Callers, op[c] = "translate",
           TestPage(c) \/ ReadEntry(c)
    PROVE  IInv'
<1> USE DEF At, Goto
<1>1. TypeOK /\ LockInv /\ PlaceOf(c) /\ ArgumentsOf(c)
  BY DEF IInv, LockInv, CallInv
<1>2. page[c] \in Mapped /\ page[c] \in virtual_bitset
  <2>1. PICK m \in mine[c] : m.page = page[c]
    BY <1>1 DEF ArgumentsOf
  <2>2. Live(c, m)
    BY DEF Live, Freeing
  <2> QED
    BY <2>1, <2>2 DEF IInv, LiveOwned, Owned
<1>3. /\ UNCHANGED <<memory, virtual_mutex, history, op, page, size, done>>
      /\ \/ pc' = [pc EXCEPT ![c] = "read"] /\ block' = block
         \/ /\ pc' = [pc EXCEPT ![c] = "answer"]
            /\ block' = [block EXCEPT ![c] = page_table[page[c]]]
  BY <1>2 DEF TestPage, ReadEntry, locals, Mapped
<1>4. /\ op'[c] = op[c] /\ page'[c] = page[c] /\ size'[c] = size[c]
      /\ done'[c] = done[c]
      /\ \/ pc'[c] = "read" /\ block'[c] = block[c]
         \/ pc'[c] = "answer" /\ block'[c] = page_table[page[c]]
  BY <1>1, <1>3 DEF TypeOK
<1>5. \A d \in Callers \ {c} : Still(d)
  BY <1>1, <1>3 DEF TypeOK, Still
<1>6. TypeOK'
  <2>1. /\ pc' \in [Callers -> Labels]
        /\ block' \in [Callers -> 0..(TotalBlocks - 1)]
    BY <1>1, <1>2, <1>3 DEF TypeOK, Labels, Locked, Mapped
  <2> QED
    BY <1>1, <1>3, <2>1 DEF TypeOK, memory, history
<1>7. PlaceOf(c)' /\ ~Holds(c)' /\ ~Holds(c)
  BY <1>4 DEF PlaceOf, Holds
<1>8. LockInv'
  <2>1. \A d \in Callers \ {c} : PlaceOf(d)' /\ (Holds(d)' <=> Holds(d))
    BY <1>1, <1>5, StillPlaced DEF LockInv
  <2> QED
    BY <1>1, <1>3, <1>7, <2>1 DEF LockInv
<1>9. ArgumentsOf(c)'
  <2>1. UNCHANGED <<page_table, mine, raw>>
    BY <1>3 DEF memory, history
  <2> QED
    BY <1>1, <1>4, <2>1 DEF ArgumentsOf, Freeing
<1>10. AloneOf(c)' /\ RunOf(c)'
  BY <1>4 DEF AloneOf, RunOf, Alone
<1>11. \A m \in mine[c] : Live(c, m)
  BY DEF Live, Freeing
<1> QED
  BY <1>3, <1>5, <1>6, <1>7, <1>8, <1>9, <1>10, <1>11, OutsideStep

\* The translation's answer changes nothing.
LEMMA AnswerIInv ==
    ASSUME IInv, NEW c \in Callers, Answer(c)
    PROVE  IInv'
<1> USE DEF At, Goto
<1>1. TypeOK /\ LockInv /\ PlaceOf(c) /\ ArgumentsOf(c) /\ pc[c] = "answer"
  BY DEF IInv, LockInv, CallInv, Answer
<1>2. op[c] = "translate"
  BY <1>1 DEF PlaceOf, TypeOK, Operations
<1>3. Returned(c) = mine[c]
  BY <1>2 DEF Returned
<1>4. /\ UNCHANGED <<memory, raw, virtual_mutex>>
      /\ mine' = [mine EXCEPT ![c] = mine[c]]
      /\ op' = [op EXCEPT ![c] = "none"] /\ page' = [page EXCEPT ![c] = 0]
      /\ block' = [block EXCEPT ![c] = 0] /\ size' = [size EXCEPT ![c] = 0]
      /\ done' = [done EXCEPT ![c] = 0] /\ pc' = [pc EXCEPT ![c] = "idle"]
  BY <1>3 DEF Answer, Return
<1>5. mine' = mine
  BY <1>1, <1>4 DEF TypeOK
<1>6. op'[c] = "none" /\ pc'[c] = "idle" /\ done'[c] = 0
  BY <1>1, <1>4 DEF TypeOK
<1>7. \A d \in Callers \ {c} : Still(d)
  BY <1>1, <1>4 DEF TypeOK, Still
<1>8. TypeOK'
  <2>1. /\ pc' \in [Callers -> Labels] /\ op' \in [Callers -> Operations]
        /\ page' \in [Callers -> Pages]
        /\ block' \in [Callers -> 0..(TotalBlocks - 1)]
        /\ size' \in [Callers -> Nat] /\ done' \in [Callers -> Nat]
    BY <1>1, <1>4, PagingAssumption DEF TypeOK, Labels, Operations, Pages
  <2> QED
    BY <1>1, <1>4, <1>5, <2>1 DEF TypeOK, memory
<1>9. PlaceOf(c)' /\ ~Holds(c)' /\ ~Holds(c)
  BY <1>2, <1>6 DEF PlaceOf, Holds
<1>10. LockInv'
  <2>1. \A d \in Callers \ {c} : PlaceOf(d)' /\ (Holds(d)' <=> Holds(d))
    BY <1>1, <1>7, StillPlaced DEF LockInv
  <2> QED
    BY <1>1, <1>4, <1>9, <2>1 DEF LockInv
<1>11. ArgumentsOf(c)'
  BY <1>1, <1>4, <1>6 DEF ArgumentsOf, Freeing
<1>12. AloneOf(c)' /\ RunOf(c)'
  BY <1>6 DEF AloneOf, RunOf, Alone
<1>13. \A m \in mine[c] : Live(c, m)
  BY <1>2 DEF Live, Freeing
<1>14. UNCHANGED <<memory, history>>
  BY <1>4, <1>5 DEF history
<1> QED
  BY <1>4, <1>7, <1>8, <1>9, <1>10, <1>11, <1>12, <1>13, <1>14, OutsideStep

\* What a caller has and may free is mapped to a frame in use.
LEMMA LiveInUse ==
    ASSUME IInv, NEW d \in Callers, NEW m \in mine[d], Live(d, m)
    PROVE  page_table[m.page] \in frames
<1>1. m.page \in Mapped
  BY DEF IInv, LiveOwned, Owned
<1>2. CASE virtual_mutex = 0
  BY <1>1, <1>2 DEF IInv, MemoryInv, Settled, Behind
<1>3. CASE virtual_mutex = 1
  <2>1. PICK e \in Callers : Holds(e)
    BY <1>3 DEF IInv, LockInv
  <2>2. FramesOf(e) /\ PlaceOf(e)
    BY <2>1 DEF IInv, MemoryInv, LockInv
  <2>3. CASE pc[e] = "unmap"
    <3>1. op[e] \in Freeing
      BY <2>2, <2>3 DEF PlaceOf, Freeing, IInv, TypeOK, Operations
    <3>2. m.page # page[e]
      <4>1. CASE d = e
        BY <2>3, <3>1, <4>1 DEF Live
      <4>2. CASE d # e
        BY <3>1, <4>2, FreeingItsOwn
      <4> QED
        BY <4>1, <4>2
    <3>3. ~HasFrame(e)
      BY <2>3 DEF HasFrame
    <3> QED
      BY <1>1, <2>2, <2>3, <3>2, <3>3 DEF FramesOf, Behind
  <2>4. CASE pc[e] # "unmap"
    BY <1>1, <2>2, <2>4 DEF FramesOf, Settled, Behind
  <2> QED
    BY <2>3, <2>4
<1> QED
  BY <1>2, <1>3 DEF IInv, TypeOK

\* process_allocate_page takes a frame that nothing accounts for, whoever has
\* the lock meanwhile.
LEMMA TakeFrameIInv ==
    ASSUME IInv, NEW c \in Callers, TakeFrame(c)
    PROVE  IInv'
<1> DEFINE b == Lowest(Blocks \ frames)
<1>1. TypeOK /\ LockInv /\ MemoryInv
  BY DEF IInv
<1>2. b \in Blocks \ frames
  <2>1. Blocks \ frames \subseteq Nat /\ Blocks \ frames # {}
    BY DEF TakeFrame, Blocks
  <2> QED
    BY <2>1, LowestIsMember
<1>3. /\ frames' = frames \cup {b} /\ raw' = [raw EXCEPT ![c] = @ \cup {b}]
      /\ UNCHANGED <<virtual_bitset, page_table, virtual_mutex, pc, op, page,
                     block,
                     size, done, mine>>
  BY DEF TakeFrame, locals
<1> HIDE DEF b
<1>4. \A d \in Callers : raw'[d] = IF d = c THEN raw[d] \cup {b} ELSE raw[d]
  BY <1>1, <1>3 DEF TypeOK
<1>5. AllRaw' = AllRaw \cup {b} /\ Base' = Base \cup {b}
  <2>1. AllRaw' = AllRaw \cup {b}
    BY <1>4 DEF AllRaw
  <2> QED
    BY <2>1 DEF Base
<1>6. /\ Mapped' = Mapped /\ Agree' = Agree /\ Behind(Mapped)' = Behind(Mapped)
      /\ \A p : Unclaimed(p)' = Unclaimed(p)
  BY <1>3 DEF Mapped, Agree, Behind, Unclaimed
<1>7. TypeOK'
  <2>1. /\ frames' \subseteq 0..(TotalBlocks - 1)
        /\ raw' \in [Callers -> SUBSET (0..(TotalBlocks - 1))]
    BY <1>1, <1>2, <1>3, PagingAssumption DEF TypeOK, Blocks
  <2> QED
    BY <1>1, <1>3, <2>1 DEF TypeOK
<1>8. LockInv'
  BY <1>1, <1>3 DEF LockInv, PlaceOf, Holds
<1>9. MemoryInv'
  <2>1. virtual_mutex' = 0 => Agree' /\ Settled'
    BY <1>1, <1>3, <1>5, <1>6 DEF MemoryInv, Settled
  <2>2. ASSUME NEW d \in Callers, Holds(d)' PROVE (BitsetOf(d) /\ FramesOf(d))'
    <3>1. Holds(d)
      BY <1>3, <2>2 DEF Holds
    <3>2. BitsetOf(d) /\ FramesOf(d)
      BY <1>1, <3>1 DEF MemoryInv
    <3>3. BitsetOf(d)'
      BY <1>3, <1>6, <3>2 DEF BitsetOf, Current
    <3>4. /\ HasFrame(d)' = HasFrame(d)
          /\ Behind(Mapped \ {page[d]})' = Behind(Mapped \ {page[d]})
      BY <1>3, <1>6 DEF HasFrame, Behind
    <3>5. FramesOf(d)'
      <4>1. CASE HasFrame(d)
        BY <1>2, <1>3, <1>5, <1>6, <3>2, <3>4, <4>1 DEF FramesOf
      <4>2. CASE ~HasFrame(d) /\ pc[d] = "unmap"
        BY <1>3, <1>5, <1>6, <3>2, <3>4, <4>2 DEF FramesOf
      <4>3. CASE ~HasFrame(d) /\ pc[d] # "unmap"
        BY <1>3, <1>5, <1>6, <3>2, <3>4, <4>3 DEF FramesOf, Settled
      <4> QED
        BY <4>1, <4>2, <4>3
    <3> QED
      BY <3>3, <3>5
  <2>3. Shared'
    BY <1>1, <1>3, <1>5, <1>6 DEF MemoryInv, Shared
  <2> QED
    BY <1>1, <1>3, <2>1, <2>2, <2>3 DEF MemoryInv
<1>10. HoldingInv'
  BY <1>3 DEF IInv, HoldingInv
<1>11. ASSUME NEW p, NEW f, NEW d \in Callers, Owned(p, f, d),
              page_table[p] \in frames
       PROVE  Owned(p, f, d)'
  BY <1>2, <1>3, <1>4, <1>5, <1>6, <1>11 DEF Owned
<1>12. LiveOwned'
  <2> SUFFICES ASSUME NEW d \in Callers, NEW m \in mine[d], Live(d, m)'
               PROVE  Owned(m.page, m.free_physical, d)'
    BY <1>3 DEF LiveOwned
  <2>1. Live(d, m)
    BY <1>3 DEF Live
  <2> QED
    BY <1>11, <2>1, LiveInUse DEF IInv, LiveOwned
<1>13. CallInv'
  <2> SUFFICES ASSUME NEW d \in Callers
               PROVE  (ArgumentsOf(d) /\ AloneOf(d) /\ RunOf(d))'
    BY DEF CallInv
  <2>1. ArgumentsOf(d) /\ AloneOf(d) /\ RunOf(d) /\ PlaceOf(d)
    BY DEF IInv, CallInv, LockInv
  <2>2. ArgumentsOf(d)'
    BY <1>2, <1>3, <1>4, <1>6, <2>1 DEF ArgumentsOf
  <2>3. pc[d] \in {"unlock", "frame", "map", "mark"}
          /\ op[d] \in Alone \cup {"contigious"} =>
            \A p \in Mapped : page_table[p] \in frames
    <3> SUFFICES ASSUME pc[d] \in {"unlock", "frame", "map", "mark"},
                        op[d] \in Alone \cup {"contigious"}
                 PROVE  \A p \in Mapped : page_table[p] \in frames
      OBVIOUS
    <3>1. Holds(d)
      BY DEF Holds, Alone
    <3>2. FramesOf(d)
      BY <1>1, <3>1 DEF MemoryInv
    <3> QED
      BY <3>2 DEF FramesOf, Settled, Behind
  <2>4. AloneOf(d)'
    <3> SUFFICES ASSUME op[d] \in Alone, pc[d] = "unlock"
                 PROVE  Owned(page[d], op[d] # "handle", d)'
      BY <1>3, <1>6, <2>1 DEF AloneOf
    <3>1. Owned(page[d], op[d] # "handle", d)
      BY <2>1 DEF AloneOf
    <3>2. page_table[page[d]] \in frames
      BY <2>3, <3>1 DEF Owned
    <3> QED
      BY <1>2, <1>3, <1>4, <1>5, <1>6, <3>1, <3>2 DEF Owned
  <2>5. RunOf(d)'
    <3> SUFFICES ASSUME op[d] = "contigious" PROVE RunOf(d)'
      BY <1>3 DEF RunOf
    <3>1. ASSUME pc[d] \in {"frame", "map", "mark", "unlock"},
                 NEW i \in 0..(done[d] - 1)
          PROVE  (Unclaimed(page[d] + i) /\ Owned(page[d] + i, TRUE, d))'
      <4>1. Unclaimed(page[d] + i) /\ Owned(page[d] + i, TRUE, d)
        BY <2>1, <3>1 DEF RunOf
      <4>2. page_table[page[d] + i] \in frames
        BY <2>3, <3>1, <4>1 DEF Owned
      <4> QED
        BY <1>2, <1>3, <1>5, <1>6, <4>1, <4>2 DEF Owned
    <3>2. ASSUME pc[d] = "mark" PROVE page_table[Current(d)] \notin Base'
      <4>1. Holds(d)
        BY <3>2 DEF Holds
      <4>2. /\ Mapped \cup {0} = virtual_bitset \cup {Current(d)}
            /\ page[d] >= FirstKernelPage
        BY <1>1, <2>1, <3>2, <4>1 DEF MemoryInv, BitsetOf, RunOf
      <4>3. Current(d) \in Mapped
        <5>1. page[d] \in Nat /\ done[d] \in Nat
          BY <1>1 DEF TypeOK, Pages
        <5>2. page[d] >= FirstKernelPage /\ FirstKernelPage \in Nat \ {0}
          BY <4>2, PagingAssumption
        <5>3. page[d] + done[d] # 0
          BY <5>1, <5>2
        <5>4. Current(d) # 0
          BY <5>3 DEF Current
        <5> QED
          BY <4>2, <5>4
      <4>4. /\ page_table[Current(d)] \in frames
            /\ page_table[Current(d)] \notin Base
        BY <2>1, <2>3, <3>2, <4>3 DEF RunOf
      <4> QED
        BY <1>2, <1>5, <4>4
    <3>3. Current(d)' = Current(d)
      BY <1>3 DEF Current
    <3>4. pc[d] \in {"frame", "map", "mark"} =>
               /\ done[d] < size[d] /\ page[d] >= FirstKernelPage
               /\ page[d] + size[d] <= MAX_PAGES
               /\ \A i \in done[d]..(size[d] - 1) :
                    page[d] + i \notin virtual_bitset
      BY <2>1 DEF RunOf
    <3> QED
      BY <1>3, <3>1, <3>2, <3>3, <3>4 DEF RunOf
  <2> QED
    BY <2>2, <2>4, <2>5
<1> QED
  BY <1>7, <1>8, <1>9, <1>10, <1>12, <1>13 DEF IInv

\* A call under the lock ends: the caller has what it made and no longer what it
\* freed.
LEMMA UnlockIInv ==
    ASSUME IInv, NEW c \in Callers, Unlock(c)
    PROVE  IInv'
<1> USE DEF At, Goto
<1>1. /\ TypeOK /\ LockInv /\ PlaceOf(c) /\ ArgumentsOf(c) /\ pc[c] = "unlock"
      /\ AloneOf(c) /\ RunOf(c)
  BY DEF IInv, LockInv, CallInv, Unlock
<1>2. Holds(c) /\ op[c] \in Alone \cup Freeing \cup {"contigious"}
  BY <1>1 DEF PlaceOf, TypeOK, Operations, Holds, Alone, Freeing
<1>3. Agree /\ Settled
  BY <1>1, <1>2 DEF IInv, MemoryInv, BitsetOf, FramesOf, HasFrame
<1>4. /\ UNCHANGED <<frames, virtual_bitset, page_table,
                     raw>> /\ virtual_mutex' = 0
      /\ mine' = [mine EXCEPT ![c] = Returned(c)]
      /\ op' = [op EXCEPT ![c] = "none"] /\ page' = [page EXCEPT ![c] = 0]
      /\ block' = [block EXCEPT ![c] = 0] /\ size' = [size EXCEPT ![c] = 0]
      /\ done' = [done EXCEPT ![c] = 0] /\ pc' = [pc EXCEPT ![c] = "idle"]
  BY DEF Unlock, Return, memory
<1>5. /\ op'[c] = "none" /\ pc'[c] = "idle" /\ done'[c] = 0
      /\ mine'[c] = Returned(c) /\ \A d \in Callers \ {c} : mine'[d] = mine[d]
  BY <1>1, <1>4 DEF TypeOK
<1>6. \A d \in Callers \ {c} : Still(d)
  BY <1>1, <1>4 DEF TypeOK, Still
<1>7. /\ Mapped' = Mapped /\ Shared' = Shared /\ Agree' = Agree
      /\ Settled' = Settled
      /\ \A p, f, d : Owned(p, f, d)' = Owned(p, f, d)
  BY <1>4 DEF Mapped, Base, AllRaw, Behind, Shared, Agree, Owned, Settled
\* What the caller has now it had before, or it is new.
<1> DEFINE New(m) == /\ Unclaimed(m.page) /\ Owned(m.page, m.free_physical, c)
                     /\ m \in [page : Pages, free_physical : BOOLEAN]
<1>8. /\ \A m \in Returned(c) : (m \in mine[c] /\ Live(c, m)) \/ New(m)
      /\ \A m, n \in Returned(c) : New(m) /\ New(n) /\ m.page = n.page => m = n
  <2>1. \A p \in Mapped, f \in BOOLEAN :
            /\ Held(p, f) \in [page : Pages, free_physical : BOOLEAN]
            /\ Held(p, f).page = p /\ Held(p, f).free_physical = f
    BY DEF Held, Mapped
  <2>2. \A m \in mine[c] : ~New(m)
    BY DEF Unclaimed
  <2>3. CASE op[c] \in Alone
    <3> DEFINE f == op[c] # "handle"
    <3>1. Returned(c) = mine[c] \cup {Held(page[c], f)}
      BY <2>3 DEF Returned, Alone
    <3>2. Unclaimed(page[c]) /\ Owned(page[c], f, c) /\ page[c] \in Mapped
      BY <1>1, <2>3 DEF AloneOf, Owned
    <3>3. f \in BOOLEAN
      OBVIOUS
    <3> HIDE DEF f
    <3>4. New(Held(page[c], f))
      BY <2>1, <3>2, <3>3
    <3>5. \A m \in mine[c] : Live(c, m)
      BY <2>3 DEF Live, Alone, Freeing
    <3> HIDE DEF New
    <3> QED
      BY <2>2, <3>1, <3>4, <3>5
  <2>4. CASE op[c] = "contigious"
    <3>1. Returned(c) = mine[c]
                \cup {Held(page[c] + i, TRUE) : i \in 0..(done[c] - 1)}
      BY <2>4 DEF Returned
    <3>2. ASSUME NEW i \in 0..(done[c] - 1)
          PROVE  New(Held(page[c] + i, TRUE))
      <4>1. Unclaimed(page[c] + i) /\ Owned(page[c] + i, TRUE, c)
        BY <1>1, <2>4 DEF RunOf
      <4>2. page[c] + i \in Mapped
        BY <4>1 DEF Owned
      <4> QED
        BY <2>1, <4>1, <4>2
    <3>3. \A i, j \in 0..(done[c] - 1) :
            Held(page[c] + i, TRUE).page = Held(page[c] + j, TRUE).page =>
                Held(page[c] + i, TRUE) = Held(page[c] + j, TRUE)
      BY DEF Held
    <3>4. \A m \in mine[c] : Live(c, m)
      BY <2>4 DEF Live, Freeing
    <3> HIDE DEF New
    <3> QED
      BY <2>2, <3>1, <3>2, <3>3, <3>4
  <2>5. CASE op[c] \in Freeing
    <3>1. Returned(c) = {m \in mine[c] : m.page # page[c]}
      BY <2>5 DEF Returned, Freeing
    <3>2. \A m \in Returned(c) : Live(c, m)
      BY <3>1 DEF Live
    <3> HIDE DEF New
    <3> QED
      BY <2>2, <3>1, <3>2
  <2> QED
    BY <1>2, <2>3, <2>4, <2>5
<1>9. TypeOK'
  <2>1. /\ pc' \in [Callers -> Labels] /\ op' \in [Callers -> Operations]
        /\ page' \in [Callers -> Pages]
        /\ block' \in [Callers -> 0..(TotalBlocks - 1)]
        /\ size' \in [Callers -> Nat] /\ done' \in [Callers -> Nat]
    BY <1>1, <1>4, PagingAssumption DEF TypeOK, Labels, Operations, Pages
  <2>2. Returned(c) \subseteq [page : Pages, free_physical : BOOLEAN]
    BY <1>1, <1>8 DEF TypeOK
  <2>3. mine' \in [Callers -> SUBSET [page : Pages, free_physical : BOOLEAN]]
    BY <1>1, <1>4, <2>2 DEF TypeOK
  <2> QED
    BY <1>1, <1>4, <2>1, <2>3 DEF TypeOK
<1>10. PlaceOf(c)' /\ ~Holds(c)'
  BY <1>5 DEF PlaceOf, Holds
<1>11. \A d \in Callers : PlaceOf(d)' /\ ~Holds(d)'
  <2> SUFFICES ASSUME NEW d \in Callers \ {c} PROVE PlaceOf(d)' /\ ~Holds(d)'
    BY <1>10
  <2>1. PlaceOf(d) /\ ~Holds(d)
    BY <1>1, <1>2 DEF LockInv
  <2> QED
    BY <1>6, <2>1, StillPlaced
<1>12. LockInv'
  BY <1>4, <1>11 DEF LockInv
<1>13. MemoryInv'
  BY <1>3, <1>4, <1>7, <1>11 DEF IInv, MemoryInv
<1>14. HoldingInv'
  <2>1. ASSUME NEW d \in Callers, NEW m \in mine'[d]
        PROVE  \/ m \in mine[d]
               \/ d = c /\ New(m) /\ m \in Returned(c)
    BY <1>5, <1>8
  <2>2. ASSUME NEW d \in Callers, NEW m \in mine'[d]
        PROVE  m.page >= FirstKernelPage /\ m.page \notin BootPages
    BY <2>1 DEF IInv, HoldingInv, Unclaimed
  <2>3. ASSUME NEW d \in Callers, NEW m \in mine'[d],
               NEW e \in Callers, NEW n \in mine'[e], m.page = n.page
        PROVE  d = e /\ m = n
    <3>1. CASE m \in mine[d] /\ n \in mine[e]
      BY <2>3, <3>1 DEF IInv, HoldingInv
    <3>2. CASE m \in mine[d] /\ n \notin mine[e]
      BY <2>1, <2>3, <3>2 DEF Unclaimed
    <3>3. CASE m \notin mine[d] /\ n \in mine[e]
      BY <2>1, <2>3, <3>3 DEF Unclaimed
    <3>4. CASE m \notin mine[d] /\ n \notin mine[e]
      <4>1. /\ d = c /\ e = c /\ New(m)
            /\ New(n) /\ m \in Returned(c) /\ n \in Returned(c)
        BY <2>1, <3>4
      <4> HIDE DEF New
      <4> QED
        BY <1>8, <2>3, <4>1
    <3> QED
      BY <3>1, <3>2, <3>3, <3>4
  <2> QED
    BY <2>2, <2>3 DEF HoldingInv
<1>15. LiveOwned'
  <2> SUFFICES ASSUME NEW d \in Callers, NEW m \in mine'[d], Live(d, m)'
               PROVE  Owned(m.page, m.free_physical, d)
    BY <1>7 DEF LiveOwned
  <2>1. CASE d = c
    BY <1>5, <1>8, <2>1 DEF IInv, LiveOwned
  <2>2. CASE d # c
    <3>1. m \in mine[d] /\ Live(d, m)
      BY <1>5, <1>6, <2>2 DEF Still, Live
    <3> QED
      BY <3>1 DEF IInv, LiveOwned
  <2> QED
    BY <2>1, <2>2
<1>16. CallInv'
  <2>1. (ArgumentsOf(c) /\ AloneOf(c) /\ RunOf(c))'
    BY <1>1, <1>4, <1>5 DEF ArgumentsOf, AloneOf, RunOf, Alone, Freeing
  <2>2. ASSUME NEW d \in Callers \ {c}
        PROVE  (ArgumentsOf(d) /\ AloneOf(d) /\ RunOf(d))'
    <3>1. /\ ArgumentsOf(d) /\ PlaceOf(d)' /\ ~Holds(d)'
          /\ Still(d) /\ mine'[d] = mine[d]
      BY <1>5, <1>6, <1>11 DEF IInv, CallInv
    <3>2. ArgumentsOf(d)'
      BY <1>4, <1>7, <3>1 DEF ArgumentsOf, Still
    <3>3. AloneOf(d)' /\ RunOf(d)'
      BY <3>1 DEF AloneOf, RunOf, Alone, Holds
    <3> QED
      BY <3>2, <3>3
  <2> QED
    BY <2>1, <2>2 DEF CallInv
<1> QED
  BY <1>9, <1>12, <1>13, <1>14, <1>15, <1>16 DEF IInv
-----------------------------------------------------------------------------
(* The invariant and what follows from it.                                 *)

\* Every step of every run preserves the invariant.
THEOREM Inductive == Spec => []IInv
<1>1. IInv /\ [Next]_vars => IInv'
  <2> SUFFICES ASSUME IInv, [Next]_vars PROVE IInv'
    OBVIOUS
  <2>1. ASSUME NEW c \in Callers, Call(c) \/ TakeFrame(c) \/ InCall(c)
        PROVE  IInv'
    <3>1. CASE op[c] = "translate" /\ (TestPage(c) \/ ReadEntry(c))
      BY <3>1, TranslateIInv
    <3>2. CASE op[c] # "translate" /\ (TestPage(c) \/ ReadEntry(c))
      BY <3>2, TestPageIInv, ReadEntryIInv
    <3>3. CASE ~(TestPage(c) \/ ReadEntry(c))
      BY <2>1, <3>3, CallIInv, TakeFrameIInv, LockIInv, UnlockIInv,
         AllocFrameIInv, ClaimFrameIInv, FindPageIInv, MapIInv, ScanRunIInv,
         MarkPageIInv, AnswerIInv, ReleaseFrameIInv, UnmapIInv, ClearPageIInv
         DEF InCall
    <3> QED
      BY <3>1, <3>2, <3>3
  <2>2. CASE UNCHANGED vars
    <3>1. UNCHANGED <<frames, virtual_bitset, page_table, virtual_mutex, pc, op,
                      page, block, size, done, mine, raw>>
      BY <2>2 DEF vars, memory, locals, history
    <3>2. TypeOK'
      BY <3>1 DEF IInv, TypeOK
    <3>3. LockInv'
      BY <3>1 DEF IInv, LockInv, PlaceOf, Holds
    <3>4. MemoryInv'
      <4>1. /\ Mapped' = Mapped /\ Base' = Base /\ Shared' = Shared
            /\ Agree' = Agree /\ Settled' = Settled
            /\ Behind(Mapped)' = Behind(Mapped)
        BY <3>1 DEF Mapped, Base, AllRaw, Behind, Shared, Agree, Settled
      <4>2. \A c \in Callers : BitsetOf(c) => BitsetOf(c)'
        BY <3>1, <4>1 DEF BitsetOf, Current
      <4>3. \A c : Behind(Mapped \ {page[c]})' = Behind(Mapped \ {page[c]})
        BY <3>1, <4>1 DEF Behind
      <4>4. \A c \in Callers : FramesOf(c) => FramesOf(c)'
        BY <3>1, <4>1, <4>3 DEF FramesOf, HasFrame
      <4> QED
        BY <3>1, <4>1, <4>2, <4>4 DEF IInv, MemoryInv, Holds
    <3>5. HoldingInv' /\ LiveOwned'
      BY <3>1 DEF IInv, HoldingInv, LiveOwned, Live, Owned, Mapped, Base, AllRaw
    <3>6. CallInv'
      BY <3>1 DEF IInv, CallInv, ArgumentsOf, AloneOf, RunOf, Unclaimed, Owned,
         Current, Mapped, Base, AllRaw
    <3> QED
      BY <3>2, <3>3, <3>4, <3>5, <3>6 DEF IInv
  <2> QED
    BY <2>1, <2>2 DEF Next
<1> QED
  BY InitIInv, <1>1, PTL DEF Spec

\* Type correctness: no call leaves the bitset, the page tables or memory.
THEOREM TypeCorrect == Spec => []TypeOK
<1>1. IInv => TypeOK
  BY DEF IInv
<1> QED
  BY Inductive, <1>1, PTL

\* Whenever virtual_mutex is free, the bitset of paging.c marks what the page
\* tables map.
THEOREM BitsetAgrees == Spec => []MarkedIffMapped
<1>1. IInv => MarkedIffMapped
  BY DEF IInv, MemoryInv, Agree, MarkedIffMapped
<1> QED
  BY Inductive, <1>1, PTL

\* Whenever virtual_mutex is free, no frame is lost and none is mapped that
\* mem.c could hand out again.
THEOREM FramesAreAccountedFor == Spec => []FramesAccountedFor
<1>1. IInv => FramesAccountedFor
  BY DEF IInv, MemoryInv, Settled, Base, Behind, FramesAccountedFor
<1> QED
  BY Inductive, <1>1, PTL

\* Two pages share a frame only through process_allocate_page_handle.
THEOREM SharingIsAskedFor == Spec => []SharedOnlyThroughHandles
<1>1. IInv => SharedOnlyThroughHandles
  BY DEF IInv, MemoryInv, Shared, SharedOnlyThroughHandles
<1> QED
  BY Inductive, <1>1, PTL

\* Every page handed out has one owner, and stays mapped to a frame in use
\* until its owner frees it.
THEOREM PagesHaveOneOwner == Spec => []PagesBelongToOne
<1>1. IInv => PagesBelongToOne
  <2> SUFFICES ASSUME IInv PROVE PagesBelongToOne
    OBVIOUS
  <2>1. ASSUME NEW c \in Callers, NEW m \in mine[c],
               op[c] \notin Freeing \/ page[c] # m.page
        PROVE  /\ m.page \in virtual_bitset
               /\ page_table[m.page] \in frames \ {Null}
    <3>1. Live(c, m)
      BY <2>1 DEF Live
    <3>2. Owned(m.page, m.free_physical, c)
      BY <3>1 DEF IInv, LiveOwned
    <3> QED
      BY <3>1, <3>2, LiveInUse DEF Owned, Mapped
  <2> QED
    BY <2>1 DEF PagesBelongToOne, IInv, HoldingInv, Freeing
<1> QED
  BY Inductive, <1>1, PTL

\* What callers took directly has one owner.
RawInv == \A c, d \in Callers : c # d => raw[c] \cap raw[d] = {}

\* A page that is forgotten is a handle, and one that is freed is not mapped.
UnmapInv ==
    \A c \in Callers :
        /\ op[c] = "forget" /\ pc[c] = "unmap" => page_table[page[c]] \in raw[c]
        /\ op[c] \in Freeing /\ pc[c] = "unlock" => page[c] \notin Mapped

\* Frames taken directly are mapped through handles.
HandleInv ==
    \A p \in Mapped, d \in Callers :
        page_table[p] \in raw[d] => HandleOf(d, p) \/ BeingUnmapped(p)

StaleInv == RawInv /\ UnmapInv /\ HandleInv

\* At every step, whoever holds the lock, no frame that is accounted for is free,
\* save the one page_free has just released.
LEMMA NoneIsFree ==
    ASSUME IInv, UnmapInv
    PROVE  /\ \A c \in Callers : raw[c] \subseteq frames
           /\ \A p \in Mapped : page_table[p] \in frames \/ BeingUnmapped(p)
<1>1. \A c \in Callers : raw[c] \subseteq Base
  BY DEF Base, AllRaw
<1>2. CASE virtual_mutex = 0
  BY <1>1, <1>2 DEF IInv, MemoryInv, Settled, Behind
<1>3. CASE virtual_mutex = 1
  <2>1. PICK c \in Callers : Holds(c)
    BY <1>3 DEF IInv, LockInv
  <2>2. FramesOf(c) /\ PlaceOf(c) /\ TypeOK
    BY <2>1 DEF IInv, MemoryInv, LockInv
  <2>3. CASE HasFrame(c) \/ pc[c] # "unmap"
    BY <1>1, <2>2, <2>3 DEF FramesOf, Settled, Behind
  <2>4. CASE ~HasFrame(c) /\ pc[c] = "unmap"
    <3>1. frames = Base \cup Behind(Mapped \ {page[c]})
      BY <2>2, <2>4 DEF FramesOf
    <3>2. op[c] \in {"free", "forget"}
      BY <2>2, <2>4 DEF PlaceOf, TypeOK, Operations
    <3>3. op[c] = "forget" => page_table[page[c]] \in Base
      BY <1>1, <2>4 DEF UnmapInv
    <3>4. op[c] = "free" => BeingUnmapped(page[c])
      BY <2>4 DEF BeingUnmapped, At
    <3> QED
      BY <1>1, <3>1, <3>2, <3>3, <3>4 DEF Behind
  <2> QED
    BY <2>3, <2>4
<1> QED
  BY <1>2, <1>3 DEF IInv, TypeOK

\* What a step needs that maps nothing and hands nothing over.
LEMMA QuietStep ==
    ASSUME StaleInv, NEW c \in Callers, UNCHANGED <<page_table, mine, raw>>,
           \A d \in Callers \ {c} : Still(d),
           pc[c] \notin {"unmap", "unlock"},
           op'[c] = "forget" /\ pc'[c] = "unmap" =>
               page_table[page'[c]] \in raw[c],
           op'[c] \in Freeing /\ pc'[c] = "unlock" => page'[c] \notin Mapped
    PROVE  StaleInv'
<1>1. Mapped' = Mapped
  BY DEF Mapped
<1>2. RawInv'
  BY DEF StaleInv, RawInv
<1>3. UnmapInv'
  BY <1>1 DEF StaleInv, UnmapInv, Still
<1>4. HandleInv'
  <2> SUFFICES ASSUME NEW p \in Mapped, NEW d \in Callers,
                      page_table[p] \in raw[d]
               PROVE  HandleOf(d, p)' \/ BeingUnmapped(p)'
    BY <1>1 DEF HandleInv
  <2>1. CASE HandleOf(d, p)
    BY <2>1 DEF HandleOf, At, Still
  <2>2. CASE BeingUnmapped(p)
    BY <2>2 DEF BeingUnmapped, At, Still
  <2> QED
    BY <2>1, <2>2 DEF StaleInv, HandleInv
<1> QED
  BY <1>2, <1>3, <1>4 DEF StaleInv

\* A frame is taken that is nobody's, and mapped at most where it was given back.
LEMMA TakeFrameStale ==
    ASSUME IInv, StaleInv, NEW c \in Callers, TakeFrame(c)
    PROVE  StaleInv'
<1> DEFINE b == Lowest(Blocks \ frames)
<1>1. /\ UNCHANGED <<page_table, pc, op, page, mine>>
      /\ raw' = [raw EXCEPT ![c] = @ \cup {b}]
  BY DEF TakeFrame, locals
<1>2. b \notin frames
  <2>1. Blocks \ frames \subseteq Nat /\ Blocks \ frames # {}
    BY PagingAssumption DEF TakeFrame, Blocks
  <2> QED
    BY <2>1, LowestIsMember
<1>3. /\ \A d \in Callers \ {c} : raw'[d] = raw[d]
      /\ raw'[c] = raw[c] \cup {b}
  BY <1>1 DEF IInv, TypeOK
<1>4. \A d \in Callers : b \notin raw[d]
  BY <1>2, NoneIsFree DEF StaleInv
<1>5. Mapped' = Mapped
  BY <1>1 DEF Mapped
<1>6. RawInv'
  <2> SUFFICES ASSUME NEW d \in Callers, NEW e \in Callers, d # e
               PROVE  raw'[d] \cap raw'[e] = {}
    BY DEF RawInv
  <2>1. raw[d] \cap raw[e] = {} /\ b \notin raw[d] /\ b \notin raw[e]
    BY <1>4 DEF StaleInv, RawInv
  <2>2. CASE d = c
    BY <1>3, <2>1, <2>2
  <2>3. CASE d # c
    BY <1>3, <2>1, <2>3
  <2> QED
    BY <2>2, <2>3
<1>7. UnmapInv'
  <2>1. \A d \in Callers : raw[d] \subseteq raw'[d]
    BY <1>3
  <2> QED
    BY <1>1, <1>5, <2>1 DEF StaleInv, UnmapInv
<1>8. HandleInv'
  <2> SUFFICES ASSUME NEW p \in Mapped, NEW d \in Callers,
                      page_table[p] \in raw'[d]
               PROVE  HandleOf(d, p) \/ BeingUnmapped(p)
    BY <1>1, <1>5 DEF HandleInv, HandleOf, BeingUnmapped, At
  <2>1. CASE page_table[p] = b
    BY <1>2, <2>1, NoneIsFree DEF StaleInv
  <2>2. CASE page_table[p] # b
    BY <1>3, <2>2 DEF StaleInv, HandleInv
  <2> QED
    BY <2>1, <2>2
<1> QED
  BY <1>6, <1>7, <1>8 DEF StaleInv

\* Only a handle maps a frame somebody took.
LEMMA MapStale ==
    ASSUME IInv, StaleInv, NEW c \in Callers, Map(c)
    PROVE  StaleInv'
<1> DEFINE p == Current(c)
<1>1. /\ TypeOK /\ PlaceOf(c) /\ pc[c] = "map"
      /\ UNCHANGED <<op, page, mine, raw>>
  BY DEF Map, At, locals, history, IInv, LockInv
<1>2. Holds(c) /\ op[c] \in Alone \cup {"contigious"}
  BY <1>1 DEF Holds, PlaceOf, TypeOK, Operations, Alone
<1>3. /\ \A q \in Pages \ {p} : page_table'[q] = page_table[q]
      /\ p \in Pages => page_table'[p] = block[c]
      /\ \A d \in Callers \ {c} : pc'[d] = pc[d]
      /\ pc'[c] = IF op[c] = "contigious" THEN "mark" ELSE "unlock"
  BY <1>1 DEF Map, Goto, TypeOK
<1>4. RawInv'
  BY <1>1 DEF StaleInv, RawInv
<1>5. \A d \in Callers \ {c} :
            ~(op[d] \in Freeing /\ pc[d] \in {"unmap", "unlock"})
  BY <1>2 DEF IInv, LockInv, Holds, Freeing
<1>6. UnmapInv'
  BY <1>1, <1>2, <1>3, <1>5 DEF UnmapInv, Freeing, Alone
<1>7. HandleInv'
  <2> SUFFICES ASSUME NEW q \in Mapped', NEW d \in Callers,
                      page_table'[q] \in raw[d]
               PROVE  HandleOf(d, q)' \/ BeingUnmapped(q)'
    BY <1>1 DEF HandleInv
  <2>1. CASE q = p
    <3>1. block[c] \in raw[d]
      BY <1>3, <2>1 DEF Mapped
    <3>2. op[c] = "handle"
      <4>1. op[c] # "handle" => block[c] \notin Base
        BY <1>1, <1>2 DEF IInv, MemoryInv, FramesOf, HasFrame, Alone
      <4> QED
        BY <3>1, <4>1 DEF Base, AllRaw
    <3>3. d = c
      BY <3>1, <3>2 DEF IInv, CallInv, ArgumentsOf, StaleInv, RawInv
    <3>4. p = page[c]
      <4>1. done[c] = 0 /\ page[c] \in Nat
        BY <1>1, <3>2, PagingAssumption
           DEF IInv, CallInv, ArgumentsOf, TypeOK, Pages
      <4> QED
        BY <4>1 DEF Current
    <3> QED
      BY <1>1, <1>3, <2>1, <3>2, <3>3, <3>4 DEF HandleOf, At
  <2>2. CASE q # p
    <3>1. q \in Mapped /\ page_table[q] \in raw[d]
      BY <1>3, <2>2 DEF Mapped
    <3>2. CASE HandleOf(d, q)
      BY <1>1, <1>3, <3>2 DEF HandleOf, At
    <3>3. CASE BeingUnmapped(q)
      BY <1>1, <1>3, <3>3 DEF BeingUnmapped, At
    <3> QED
      BY <3>1, <3>2, <3>3 DEF StaleInv, HandleInv
  <2> QED
    BY <2>1, <2>2
<1> QED
  BY <1>4, <1>6, <1>7 DEF StaleInv

\* What page_free unmaps is no longer mapped to anything.
LEMMA UnmapStale ==
    ASSUME IInv, StaleInv, NEW c \in Callers, Unmap(c)
    PROVE  StaleInv'
<1>1. /\ TypeOK /\ pc[c] = "unmap"
      /\ UNCHANGED <<op, page, mine, raw>>
  BY DEF Unmap, At, locals, history, IInv
<1>2. /\ page_table' = [page_table EXCEPT ![page[c]] = Null]
      /\ \A d \in Callers \ {c} : pc'[d] = pc[d]
      /\ pc'[c] = "clear"
  BY <1>1 DEF Unmap, Goto, TypeOK
<1>3. Holds(c)
  BY <1>1 DEF Holds, IInv, LockInv, PlaceOf, TypeOK
<1>4. /\ Mapped' = Mapped \ {page[c]}
      /\ \A q \in Mapped' : page_table'[q] = page_table[q]
  BY <1>1, <1>2 DEF Mapped, TypeOK
<1>5. RawInv'
  BY <1>1 DEF StaleInv, RawInv
<1>6. UnmapInv'
  <2>1. \A d \in Callers \ {c} :
            ~(op[d] \in Freeing /\ pc[d] \in {"unmap", "unlock"})
    BY <1>3 DEF IInv, LockInv, Holds, Freeing
  <2> QED
    BY <1>1, <1>2, <2>1 DEF UnmapInv, Freeing
<1>7. HandleInv'
  <2> SUFFICES ASSUME NEW q \in Mapped', NEW d \in Callers,
                      page_table[q] \in raw[d]
               PROVE  HandleOf(d, q)' \/ BeingUnmapped(q)'
    BY <1>1, <1>4 DEF HandleInv
  <2>1. q \in Mapped /\ q # page[c]
    BY <1>4
  <2>2. CASE HandleOf(d, q)
    BY <1>1, <1>2, <2>2 DEF HandleOf, At
  <2>3. CASE BeingUnmapped(q)
    BY <1>1, <1>2, <2>1, <2>3 DEF BeingUnmapped, At
  <2> QED
    BY <2>1, <2>2, <2>3 DEF StaleInv, HandleInv
<1> QED
  BY <1>5, <1>6, <1>7 DEF StaleInv

\* A call that returns hands its handle over, and drops only what is unmapped.
LEMMA ReturnStale ==
    ASSUME IInv, StaleInv, NEW c \in Callers, Unlock(c) \/ Answer(c)
    PROVE  StaleInv'
<1>1. /\ TypeOK /\ PlaceOf(c) /\ pc[c] \in {"unlock", "answer"} /\ Return(c)
      /\ UNCHANGED <<page_table, raw>>
  BY DEF Unlock, Answer, At, Return, memory, IInv, LockInv
<1>2. /\ \A d \in Callers \ {c} : /\ pc'[d] = pc[d] /\ op'[d] = op[d]
                                  /\ page'[d] = page[d] /\ mine'[d] = mine[d]
      /\ pc'[c] = "idle" /\ mine'[c] = Returned(c)
  BY <1>1 DEF Return, Goto, TypeOK
<1>3. Mapped' = Mapped
  BY <1>1 DEF Mapped
<1>4. RawInv' /\ UnmapInv'
  BY <1>1, <1>2, <1>3 DEF StaleInv, RawInv, UnmapInv
<1>5. \A p \in Mapped : HandleOf(c, p) => Held(p, FALSE) \in Returned(c)
  <2> SUFFICES ASSUME NEW p \in Mapped, HandleOf(c, p)
               PROVE  Held(p, FALSE) \in Returned(c)
    OBVIOUS
  <2>1. CASE op[c] = "handle" /\ page[c] = p
    BY <2>1 DEF Returned
  <2>2. CASE Held(p, FALSE) \in mine[c]
    <3>1. CASE op[c] \in Freeing
      <4>1. page[c] # p
        BY <1>1, <3>1 DEF StaleInv, UnmapInv, PlaceOf, Freeing
      <4> QED
        BY <2>2, <3>1, <4>1 DEF Returned, Freeing, Held
    <3>2. CASE op[c] \notin Freeing
      <4>1. op[c] \in {"random", "claim", "handle", "contigious", "translate"}
        BY <1>1, <3>2 DEF TypeOK, Operations, PlaceOf, Freeing
      <4> QED
        BY <2>2, <4>1 DEF Returned
    <3> QED
      BY <3>1, <3>2
  <2> QED
    BY <2>1, <2>2 DEF HandleOf
<1>6. HandleInv'
  <2> SUFFICES ASSUME NEW p \in Mapped, NEW d \in Callers,
                      page_table[p] \in raw[d]
               PROVE  HandleOf(d, p)' \/ BeingUnmapped(p)'
    BY <1>1, <1>3 DEF HandleInv
  <2>1. CASE HandleOf(d, p)
    BY <1>2, <1>5, <2>1 DEF HandleOf, At, Held
  <2>2. CASE BeingUnmapped(p)
    BY <1>1, <1>2, <2>2 DEF BeingUnmapped, At
  <2> QED
    BY <2>1, <2>2 DEF StaleInv, HandleInv
<1> QED
  BY <1>4, <1>6 DEF StaleInv

\* A page that page_free is told to keep the frame of is a handle; one that it
\* has unmapped is not mapped.
LEMMA QuietStale ==
    ASSUME IInv, StaleInv, NEW c \in Callers,
           \/ Call(c) \/ Lock(c) \/ AllocFrame(c) \/ ClaimFrame(c)
           \/ FindPage(c) \/ ScanRun(c) \/ MarkPage(c) \/ TestPage(c)
           \/ ReadEntry(c) \/ ReleaseFrame(c) \/ ClearPage(c)
    PROVE  StaleInv'
<1> USE DEF At, Goto
<1>1. TypeOK /\ PlaceOf(c) /\ ArgumentsOf(c)
  BY DEF IInv, LockInv, CallInv
<1>2. /\ UNCHANGED <<page_table, mine, raw>>
      /\ \A d \in Callers \ {c} : Still(d)
  BY <1>1 DEF Call, Enter, Lock, AllocFrame, ClaimFrame, FindPage, ScanRun,
     MarkPage, TestPage, ReadEntry, ReleaseFrame, ClearPage, memory, history,
     locals, Still, TypeOK
<1>3. pc[c] \notin {"unmap", "unlock"}
  BY DEF Call, Enter, Lock, AllocFrame, ClaimFrame, FindPage, ScanRun,
     MarkPage, TestPage, ReadEntry, ReleaseFrame, ClearPage
<1>4. ASSUME op'[c] = "forget", pc'[c] = "unmap"
      PROVE  page_table[page'[c]] \in raw[c]
  <2>1. TestPage(c) \/ ReleaseFrame(c)
    BY <1>1, <1>4 DEF Call, Enter, Lock, FirstStep, AllocFrame, ClaimFrame,
       FindPage, ScanRun, MarkPage, ReadEntry, ClearPage, TypeOK
  <2>2. op[c] = "forget" /\ page'[c] = page[c]
    BY <1>4, <2>1 DEF TestPage, ReleaseFrame, locals
  <2>3. pc[c] = "test"
    BY <1>1, <2>1, <2>2 DEF TestPage, ReleaseFrame, PlaceOf
  <2>4. Held(page[c], FALSE) \in mine[c] /\ Live(c, Held(page[c], FALSE))
    BY <1>1, <2>2, <2>3 DEF ArgumentsOf, Freeing, Live
  <2>5. Owned(page[c], FALSE, c)
    BY <2>4 DEF IInv, LiveOwned, Held
  <2> QED
    BY <2>2, <2>5 DEF Owned
<1>5. ASSUME op'[c] \in Freeing, pc'[c] = "unlock"
      PROVE  page'[c] \notin Mapped
  <2>1. op[c] \in Freeing => ClearPage(c)
    BY <1>1, <1>5 DEF Call, Enter, Lock, FirstStep, AllocFrame, ClaimFrame,
       FindPage, ScanRun, MarkPage, TestPage, ReadEntry, ReleaseFrame, TypeOK,
       PlaceOf, Freeing
  <2>2. op[c] \in Freeing
    BY <1>1, <1>5 DEF Call, Enter, Lock, AllocFrame, ClaimFrame,
       FindPage, ScanRun, MarkPage, TestPage, ReadEntry, ReleaseFrame,
       ClearPage, locals, TypeOK
  <2>3. pc[c] = "clear" /\ page'[c] = page[c]
    BY <2>1, <2>2 DEF ClearPage, locals
  <2>4. Holds(c)
    BY <2>2, <2>3 DEF Holds, Freeing
  <2> QED
    BY <2>3, <2>4 DEF IInv, MemoryInv, BitsetOf
<1> QED
  BY <1>2, <1>3, <1>4, <1>5, QuietStep

\* Both invariants together.
THEOREM NothingIsStale == Spec => []StaleInv
<1>1. Init => StaleInv
  BY DEF Init, StaleInv, RawInv, UnmapInv, HandleInv
<1>2. IInv /\ StaleInv /\ [Next]_vars => StaleInv'
  <2> SUFFICES ASSUME IInv, StaleInv, [Next]_vars PROVE StaleInv'
    OBVIOUS
  <2>1. ASSUME NEW c \in Callers, Call(c) \/ TakeFrame(c) \/ InCall(c)
        PROVE  StaleInv'
    BY <2>1, TakeFrameStale, MapStale, UnmapStale, ReturnStale, QuietStale
       DEF InCall
  <2>2. CASE UNCHANGED vars
    <3>1. UNCHANGED <<page_table, pc, op, page, mine, raw>>
      BY <2>2 DEF vars, memory, locals, history
    <3> QED
      BY <3>1 DEF StaleInv, RawInv, UnmapInv, HandleInv, Mapped, HandleOf,
         BeingUnmapped, At
  <2> QED
    BY <2>1, <2>2 DEF Next
<1> QED
  BY Inductive, <1>1, <1>2, PTL DEF Spec

\* A frame taken directly is never given back by somebody's page_free, nor
\* handed out a second time, whoever holds the lock.
THEOREM DirectFramesAreKept == Spec => []DirectFramesStay
<1>1. IInv /\ StaleInv => DirectFramesStay
  BY NoneIsFree DEF StaleInv, RawInv, DirectFramesStay
<1> QED
  BY Inductive, NothingIsStale, <1>1, PTL

\* At every step, page_free's two lines excepted, what is mapped is in use, and
\* is no other thread's.
THEOREM NoMappingIsStale == Spec => []MappingsAreCurrent
<1>1. IInv /\ StaleInv => MappingsAreCurrent
  BY NoneIsFree DEF StaleInv, HandleInv, MappingsAreCurrent
<1> QED
  BY Inductive, NothingIsStale, <1>1, PTL

\* page_kernel_virtual_t0_pyhsical needs no lock: its caller's page cannot be
\* mapped elsewhere between the read and the return.
THEOREM TranslationNeedsNoLock == Spec => []TranslationIsRight
<1>1. IInv => TranslationIsRight
  BY DEF IInv, CallInv, ArgumentsOf, TranslationIsRight, At
<1> QED
  BY Inductive, <1>1, PTL
=============================================================================
