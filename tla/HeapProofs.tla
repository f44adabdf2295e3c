----------------------------- MODULE HeapProofs -----------------------------
(***************************************************************************)
(* For any arena and any requests: the list of heap.c tiles the arena, no  *)
(* two neighbours are free and no assertion fails, until block_count is    *)
(* lost; and heap_alloc, heap_free and heap_realloc implement              *)
(* RegionAllocator until then.                                             *)
(***************************************************************************)
EXTENDS Heap, FiniteSetTheorems, WellFoundedInduction, TLAPS

\* A list as the walks of heap.c need it.
Listed(h) ==
    /\ DOMAIN h \subseteq Addresses /\ h \in [DOMAIN h -> BlockType]
    /\ Tiled(h)
    /\ \E b \in DOMAIN h : h[b].next = Null

NoFree(h) == \A b \in DOMAIN h : h[b].free => ~RightIsFree(h, b)

InUse(h) == {c \in DOMAIN h : ~h[c].free}

\* The scalars, and what callers hold.
TypeInv ==
    /\ block_count \in Int
    /\ status \in Outcomes \cup Assertions
    /\ DOMAIN live \subseteq Addresses /\ live \in [DOMAIN live -> Requests]
    /\ rewound \in BOOLEAN

\* The list is one whatever happens: even after the count is lost, heap_alloc
\* lays a new list over the old one.
ListInv == (hdr = NoBlocks /\ block_count = 0) \/ Listed(hdr)

\* The blocks in use are the ones callers hold, each with its footer in place
\* and room for what was asked.
HeldInv ==
    /\ DOMAIN live = {Payload(b) : b \in InUse(hdr)}
    /\ \A b \in InUse(hdr) :
         /\ hdr[b].foot = FooterAt(hdr, b)
         /\ live[Payload(b)] + SizeOfFooter <= hdr[b].size

\* What is true until the count is lost.
KeptInv ==
    /\ block_count = Cardinality(DOMAIN hdr)
    /\ NoFree(hdr)
    /\ status \in Outcomes
    /\ status = "ok" => HeldInv

IInv ==
    /\ TypeInv
    /\ ListInv
    /\ ~rewound => KeptInv

-----------------------------------------------------------------------------
(* What the operations make of a list.                                     *)
-----------------------------------------------------------------------------
(* What the operations make of a list.                                     *)

\* The fields of a block are what they should be.
LEMMA Fields ==
    ASSUME NEW h, Listed(h), NEW b \in DOMAIN h
    PROVE  /\ b \in Nat /\ b >= Base /\ b # Null
           /\ h[b] \in BlockType
           /\ h[b].size \in Nat /\ h[b].free \in BOOLEAN
           /\ h[b].next \in Addresses /\ h[b].pevious \in Addresses
           /\ End(h, b) = b + SizeOfBlock + h[b].size /\ End(h, b) \in Nat
           /\ End(h, b) <= HEAP_SIZE /\ b < End(h, b)
<1>1. h[b] \in BlockType /\ b \in Addresses
  BY DEF Listed
<1>2. b >= Base /\ End(h, b) <= HEAP_SIZE
  BY DEF Listed, Tiled
<1> QED
  BY <1>1, <1>2, HeapAssumption
  DEF BlockType, Addresses, End, Payload, Base, Null

\* Neighbours know each other, and lie side by side.
LEMMA Next_Of ==
    ASSUME NEW h, Listed(h), NEW b \in DOMAIN h, h[b].next # Null
    PROVE  /\ h[b].next \in DOMAIN h /\ h[b].next = End(h, b) /\ b < h[b].next
           /\ h[h[b].next].pevious = b
  BY Fields DEF Listed, Tiled

\* And backwards.
LEMMA Previous_Of ==
    ASSUME NEW h, Listed(h), NEW b \in DOMAIN h, h[b].pevious # Null
    PROVE  /\ h[b].pevious \in DOMAIN h /\ h[b].pevious < b
           /\ h[h[b].pevious].next = b
<1>1. b # Base
  BY DEF Listed, Tiled
<1>2. /\ h[b].pevious \in DOMAIN h /\ h[h[b].pevious].next = b
  BY <1>1 DEF Listed, Tiled
<1>3. b # Null
  BY Fields
<1> QED
  BY <1>2, <1>3, Next_Of

\* A list whose blocks change in nothing the walks read is a list still.
LEMMA StaysListed ==
    ASSUME NEW h, NEW g, Listed(h), g \in [DOMAIN h -> BlockType],
           \A c \in DOMAIN h : /\ g[c].size = h[c].size /\ g[c].next = h[c].next
                               /\ g[c].pevious = h[c].pevious
    PROVE  Listed(g)
<1>1. DOMAIN g = DOMAIN h
  OBVIOUS
<1>2. \A c \in DOMAIN h : End(g, c) = End(h, c)
  BY DEF End
<1>3. Tiled(g)
  BY <1>1, <1>2 DEF Listed, Tiled
<1> QED
  BY <1>1, <1>3 DEF Listed

\* merge_block_right: the block after n, if any, points back to b.
LEMMA AbsorbFields ==
    ASSUME NEW h, Listed(h), NEW b \in DOMAIN h, h[b].next # Null,
           NEW g, g = Absorb(h, b), NEW n, n = h[b].next
    PROVE  /\ DOMAIN g = DOMAIN h \ {n} /\ b \in DOMAIN g
           /\ g \in [DOMAIN g -> BlockType]
           /\ \A c \in DOMAIN g :
                /\ g[c].size = IF c = b THEN h[b].size + SizeOfBlock + h[n].size
                                        ELSE h[c].size
                /\ g[c].next = IF c = b THEN h[n].next ELSE h[c].next
                /\ g[c].pevious = IF c = h[n].next THEN b ELSE h[c].pevious
                /\ g[c].free = h[c].free /\ g[c].foot = h[c].foot
<1>1. /\ n \in DOMAIN h /\ n = End(h, b) /\ b < n /\ b \in Nat /\ n \in Nat
      /\ End(h, n) = n + SizeOfBlock + h[n].size
      /\ End(h, b) = b + SizeOfBlock + h[b].size
      /\ End(h, n) <= HEAP_SIZE
      /\ h[b].size \in Nat /\ h[n].size \in Nat
  BY Next_Of, Fields
<1>2. \A c \in DOMAIN h : h[c] \in BlockType
  BY Fields
<1>3. h[n].next # b
  <2>1. h[n].next # Null => n < h[n].next
    BY <1>1, Next_Of
  <2>2. b # Null
    BY Fields
  <2> QED
    BY <1>1, <2>1, <2>2 DEF Null
<1>4. DOMAIN g = DOMAIN h \ {n} /\ b \in DOMAIN g
  BY <1>1 DEF Absorb
<1> DEFINE size == h[b].size + h[n].size + SizeOfBlock
<1>5. size \in 0..HEAP_SIZE /\ size = h[b].size + SizeOfBlock + h[n].size
  BY <1>1, HeapAssumption
<1>6. /\ g[b] = [h[b] EXCEPT !.size = size, !.next = h[n].next]
      /\ \A c \in DOMAIN g \ {b} :
            g[c] = IF c = h[n].next THEN [h[c] EXCEPT !.pevious = b] ELSE h[c]
  <2>1. g[b] = [h[b] EXCEPT !.size = h[b].size + h[n].size + SizeOfBlock,
                            !.next = h[n].next]
    BY <1>3, <1>4 DEF Absorb
  <2>2. ASSUME NEW c \in DOMAIN g \ {b}
        PROVE  g[c] = IF c = h[n].next THEN [h[c] EXCEPT !.pevious = b]
                                       ELSE h[c]
    BY <1>3, <1>4 DEF Absorb
  <2> QED
    BY <2>1, <2>2
<1> HIDE DEF size
<1>7. /\ g[b] \in BlockType /\ g[b].size = size /\ g[b].next = h[n].next
      /\ g[b].pevious = h[b].pevious /\ g[b].free = h[b].free
      /\ g[b].foot = h[b].foot
  BY <1>1, <1>2, <1>5, <1>6 DEF BlockType
<1>8. ASSUME NEW c \in DOMAIN g \ {b}
      PROVE  /\ g[c] \in BlockType /\ g[c].size = h[c].size
             /\ g[c].next = h[c].next /\ g[c].free = h[c].free
             /\ g[c].foot = h[c].foot
             /\ g[c].pevious = IF c = h[n].next THEN b ELSE h[c].pevious
  <2>1. h[c] \in BlockType /\ b \in Addresses
    BY <1>2, <1>4 DEF Listed
  <2> QED
    BY <1>6, <2>1 DEF BlockType
<1>9. g = [c \in DOMAIN g |-> g[c]]
  BY DEF Absorb
<1> QED
  BY <1>3, <1>4, <1>5, <1>7, <1>8, <1>9

\* merge_block_right leaves a list.
LEMMA AbsorbListed ==
    ASSUME NEW h, Listed(h), NEW b \in DOMAIN h, h[b].next # Null
    PROVE  Listed(Absorb(h, b))
<1> DEFINE g == Absorb(h, b)
           n == h[b].next
<1>1. /\ DOMAIN g = DOMAIN h \ {n} /\ b \in DOMAIN g
      /\ g \in [DOMAIN g -> BlockType]
      /\ \A c \in DOMAIN g :
           /\ g[c].size = IF c = b THEN h[b].size + SizeOfBlock + h[n].size
                                   ELSE h[c].size
           /\ g[c].next = IF c = b THEN h[n].next ELSE h[c].next
           /\ g[c].pevious = IF c = h[n].next THEN b ELSE h[c].pevious
  BY AbsorbFields
<1> HIDE DEF g
<1>2. /\ n \in DOMAIN h /\ n = End(h, b) /\ b < n /\ h[n].pevious = b
      /\ h[n].next # Null => /\ h[n].next \in DOMAIN h /\ n < h[n].next
                             /\ h[n].next = End(h, n)
  BY Next_Of
<1>3. \A c \in DOMAIN h : /\ c \in Nat /\ c >= Base /\ c # Null
                          /\ h[c].size \in Nat
                          /\ End(h, c) = c + SizeOfBlock + h[c].size
                          /\ End(h, c) <= HEAP_SIZE /\ c < End(h, c)
  BY Fields
<1>4. \A c \in DOMAIN g : End(g, c) = IF c = b THEN End(h, n) ELSE End(h, c)
  BY <1>1, <1>2, <1>3, HeapAssumption DEF End, Payload
<1>5. Base \in DOMAIN g /\ g[Base].pevious = Null
  <2>1. Base \in DOMAIN h /\ h[Base].pevious = Null
    BY DEF Listed, Tiled
  <2>2. Base # n /\ Base # h[n].next
    BY <1>2, <1>3, <2>1, HeapAssumption DEF Base
  <2> QED
    BY <1>1, <2>1, <2>2
<1>6. \A c, e \in DOMAIN h : c < e => End(h, c) <= e
  BY DEF Listed, Tiled
<1>7. \A c, e \in DOMAIN g : c < e => End(g, c) <= e
  BY <1>1, <1>2, <1>3, <1>4, <1>6
<1>8. ASSUME NEW c \in DOMAIN g
      PROVE  /\ c >= Base /\ End(g, c) <= HEAP_SIZE
             /\ g[c].next # Null =>
                  /\ g[c].next = End(g, c)
                  /\ g[c].next \in DOMAIN g
                  /\ g[g[c].next].pevious = c
             /\ g[c].next = Null => \A e \in DOMAIN g : e <= c
             /\ c # Base =>
                  /\ g[c].pevious \in DOMAIN g
                  /\ g[g[c].pevious].next = c
  <2>1. c >= Base /\ End(g, c) <= HEAP_SIZE
    BY <1>1, <1>2, <1>3, <1>4
  <2>2. ASSUME g[c].next # Null
        PROVE  /\ g[c].next = End(g, c)
               /\ g[c].next \in DOMAIN g
               /\ g[g[c].next].pevious = c
    <3>1. CASE c = b
      <4>1. /\ g[c].next = h[n].next /\ h[n].next \in DOMAIN h
            /\ h[n].next # n /\ h[n].next = End(h, n)
        BY <1>1, <1>2, <1>3, <2>2, <3>1
      <4>2. h[n].next \in DOMAIN g /\ g[h[n].next].pevious = b
        BY <1>1, <4>1
      <4> QED
        BY <1>4, <3>1, <4>1, <4>2
    <3>2. CASE c # b
      <4>1. /\ g[c].next = h[c].next /\ h[c].next \in DOMAIN h
            /\ h[c].next = End(h, c) /\ h[h[c].next].pevious = c
        BY <1>1, <2>2, <3>2, Next_Of
      <4>2. h[c].next # n /\ (h[n].next # Null => h[h[n].next].pevious = n)
        BY <1>2, <3>2, <4>1, Next_Of
      <4>3. h[c].next # h[n].next
        BY <1>1, <1>2, <1>3, <4>1, <4>2
      <4> QED
        BY <1>1, <1>4, <3>2, <4>1, <4>2, <4>3
    <3> QED
      BY <3>1, <3>2
  <2>3. ASSUME g[c].next = Null PROVE \A e \in DOMAIN g : e <= c
    <3>1. CASE c = b
      <4>1. \A e \in DOMAIN h : e <= n
        BY <1>1, <1>2, <2>3, <3>1 DEF Listed, Tiled
      <4>2. \A e \in DOMAIN h : b < e => n <= e
        BY <1>2, <1>6
      <4> QED
        BY <1>1, <1>2, <1>3, <3>1, <4>1, <4>2
    <3>2. CASE c # b
      BY <1>1, <2>3, <3>2 DEF Listed, Tiled
    <3> QED
      BY <3>1, <3>2
  <2>4. ASSUME c # Base
        PROVE  g[c].pevious \in DOMAIN g /\ g[g[c].pevious].next = c
    <3>1. CASE c = h[n].next
      BY <1>1, <3>1
    <3>2. CASE c # h[n].next
      <4>1. /\ g[c].pevious = h[c].pevious /\ h[c].pevious \in DOMAIN h
            /\ h[h[c].pevious].next = c
        BY <1>1, <2>4, <3>2 DEF Listed, Tiled
      <4>2. h[c].pevious # n /\ c # n
        BY <1>1, <3>2, <4>1
      <4>3. h[c].pevious # b
        BY <4>1, <4>2
      <4> QED
        BY <1>1, <4>1, <4>2, <4>3
    <3> QED
      BY <3>1, <3>2
  <2> QED
    BY <2>1, <2>2, <2>3, <2>4
<1>9. Tiled(g)
  BY <1>5, <1>7, <1>8 DEF Tiled
<1>10. \E c \in DOMAIN g : g[c].next = Null
  <2>1. PICK c \in DOMAIN h : h[c].next = Null
    BY DEF Listed
  <2>2. CASE c = n
    BY <1>1, <2>1, <2>2
  <2>3. CASE c # n
    BY <1>1, <2>1, <2>3
  <2> QED
    BY <2>2, <2>3
<1> QED
  BY <1>1, <1>9, <1>10 DEF Listed, g


\* What find_free_fitting_block and heap_realloc ensure of a block they split.
Fits(h, b, size) == size <= h[b].size

\* split_into_two, when it leaves a free block behind: the new block fills what
\* b gives up.
LEMMA SplitFields ==
    ASSUME NEW h, Listed(h), NEW b \in DOMAIN h, NEW size \in Nat,
           ~Whole(h, b, size), ~CutsTail(h, b, size), Fits(h, b, size),
           NEW g, g = SplitIntoTwo(h, b, size),
           NEW rest, rest = Payload(b) + size, NEW n, n = h[b].next
    PROVE  /\ DOMAIN g = DOMAIN h \cup {rest} /\ rest \notin DOMAIN h
           /\ rest \in Nat /\ b < rest /\ rest < n /\ n \in DOMAIN h
           /\ End(h, b) = rest + SizeOfBlock + g[rest].size
           /\ g \in [DOMAIN g -> BlockType]
           /\ g[rest].size \in Nat /\ g[rest].free
           /\ g[rest].next = n /\ g[rest].pevious = b
           /\ \A c \in DOMAIN h :
                /\ g[c].size = IF c = b THEN size ELSE h[c].size
                /\ g[c].next = IF c = b THEN rest ELSE h[c].next
                /\ g[c].pevious = IF c = n THEN rest ELSE h[c].pevious
                /\ c = b => ~g[c].free
                /\ c # b => g[c].free = h[c].free
                /\ g[c].foot = h[c].foot
<1>1. /\ n \in DOMAIN h /\ n # Null /\ n = End(h, b) /\ b \in Nat /\ n \in Nat
      /\ End(h, b) = b + SizeOfBlock + h[b].size
      /\ End(h, b) <= HEAP_SIZE /\ h[b].size \in Nat
  BY Next_Of, Fields DEF CutsTail
<1>2. h[b].size >= size + SizeOfBlock
  BY <1>1, HeapAssumption DEF Whole
<1>3. rest \in Nat /\ b < rest /\ rest < n /\ rest = b + SizeOfBlock + size
  BY <1>1, <1>2, HeapAssumption DEF Payload
<1>4. rest \notin DOMAIN h
  <2>1. \A c \in DOMAIN h : b < c => n <= c
    BY <1>1 DEF Listed, Tiled
  <2> QED
    BY <1>1, <1>3, <2>1
<1>5. \A c \in DOMAIN h : h[c] \in BlockType
  BY Fields
<1>6. n # b /\ rest # b /\ rest # n
  BY <1>1, <1>3
<1> DEFINE tail == h[b].size - (size + SizeOfBlock)
<1>7. tail \in 0..HEAP_SIZE /\ End(h, b) = rest + SizeOfBlock + tail
  BY <1>1, <1>2, <1>3, HeapAssumption
<1>8. DOMAIN g = DOMAIN h \cup {rest} /\ g = [c \in DOMAIN g |-> g[c]]
  <2>1. DOMAIN g = DOMAIN h \cup {rest}
    BY DEF SplitIntoTwo
  <2>2. g = [c \in DOMAIN g |-> g[c]]
    <3> DEFINE
          cut == [[h[b] EXCEPT !.free = FALSE] EXCEPT !.size = size]
          f(c) == CASE c = b    -> [cut EXCEPT !.next = rest]
                    [] c = rest -> Block(tail, TRUE, n, b, Null)
                    [] c = n    -> [h[c] EXCEPT !.pevious = rest]
                    [] OTHER    -> h[c]
    <3>1. g = [c \in DOMAIN h \cup {rest} |-> f(c)]
      BY DEF SplitIntoTwo
    <3> HIDE DEF f
    <3> QED
      BY <3>1, Zenon
  <2> QED
    BY <2>1, <2>2
<1>9. g[b] = [h[b] EXCEPT !.free = FALSE, !.size = size, !.next = rest]
  BY <1>5, <1>6, <1>8 DEF SplitIntoTwo, BlockType
<1>10. g[rest] = Block(tail, TRUE, n, b, Null)
  BY <1>6, <1>8 DEF SplitIntoTwo
<1>11. ASSUME NEW c \in DOMAIN h \ {b}
       PROVE  g[c] = IF c = n THEN [h[c] EXCEPT !.pevious = rest] ELSE h[c]
  BY <1>4, <1>6, <1>8 DEF SplitIntoTwo
<1> HIDE DEF tail
<1>12. /\ g[rest].size = tail /\ g[rest].free /\ g[rest].next = n
       /\ g[rest].pevious = b /\ g[rest] \in BlockType
  <2>1. n \in Addresses /\ b \in Addresses /\ Null \in Addresses
    BY <1>1, <1>3, HeapAssumption DEF Addresses, Null
  <2> QED
    BY <1>7, <1>10, <2>1 DEF Block, BlockType
<1>13. /\ g[b].size = size /\ g[b].next = rest /\ ~g[b].free
       /\ g[b].pevious = h[b].pevious /\ g[b].foot = h[b].foot
       /\ g[b] \in BlockType
  <2>1. rest \in Addresses /\ size \in 0..HEAP_SIZE
    BY <1>1, <1>2, <1>3, HeapAssumption DEF Addresses
  <2> QED
    BY <1>5, <1>9, <2>1 DEF BlockType
<1>14. ASSUME NEW c \in DOMAIN h \ {b}
       PROVE  /\ g[c].size = h[c].size /\ g[c].next = h[c].next
              /\ g[c].pevious = IF c = n THEN rest ELSE h[c].pevious
              /\ g[c].free = h[c].free /\ g[c].foot = h[c].foot
              /\ g[c] \in BlockType
  <2>1. rest \in Addresses
    BY <1>1, <1>3, HeapAssumption DEF Addresses
  <2> QED
    BY <1>5, <1>11, <2>1 DEF BlockType
<1>15. g \in [DOMAIN g -> BlockType]
  <2>1. \A c \in DOMAIN g : c = rest \/ c = b \/ c \in DOMAIN h \ {b}
    BY <1>8
  <2>2. \A c \in DOMAIN g : g[c] \in BlockType
    BY <1>12, <1>13, <1>14, <2>1
  <2> QED
    BY <1>8, <2>2
<1> QED
  BY <1>1, <1>3, <1>4, <1>6, <1>7, <1>8, <1>12, <1>13, <1>14, <1>15

\* The other two branches change one block only.
LEMMA SplitInPlace ==
    ASSUME NEW h, Listed(h), NEW b \in DOMAIN h, NEW size \in Nat,
           Whole(h, b, size) \/ CutsTail(h, b, size), Fits(h, b, size),
           NEW g, g = SplitIntoTwo(h, b, size)
    PROVE  /\ DOMAIN g = DOMAIN h /\ g \in [DOMAIN h -> BlockType]
           /\ \A c \in DOMAIN h :
                /\ g[c].size = IF c = b /\ ~Whole(h, b, size) THEN size
                                                              ELSE h[c].size
                /\ g[c].next = h[c].next /\ g[c].pevious = h[c].pevious
                /\ c = b => ~g[c].free
                /\ c # b => g[c].free = h[c].free
                /\ g[c].foot = h[c].foot
<1>1. \A c \in DOMAIN h : h[c] \in BlockType
  BY Fields
<1>2. CASE Whole(h, b, size)
  <2>1. g = [h EXCEPT ![b] = [h[b] EXCEPT !.free = FALSE]]
    BY <1>2 DEF SplitIntoTwo, CutsTail
  <2>2. g[b] = [h[b] EXCEPT !.free = FALSE] /\ DOMAIN g = DOMAIN h
    BY <2>1
  <2>3. /\ g[b].size = h[b].size /\ g[b].next = h[b].next /\ ~g[b].free
        /\ g[b].pevious = h[b].pevious /\ g[b].foot = h[b].foot
        /\ g[b] \in BlockType
    BY <1>1, <2>2 DEF BlockType
  <2>4. \A c \in DOMAIN h \ {b} : g[c] = h[c]
    BY <2>1
  <2>5. g \in [DOMAIN h -> BlockType]
    BY <1>1, <2>1, <2>3, <2>4
  <2> QED
    BY <1>2, <2>2, <2>3, <2>4, <2>5
<1>3. CASE ~Whole(h, b, size)
  <2>1. g = [h EXCEPT ![b] = [h[b] EXCEPT !.free = FALSE, !.size = size]]
    BY <1>1, <1>3 DEF SplitIntoTwo, CutsTail, BlockType
  <2>2. /\ g[b] = [h[b] EXCEPT !.free = FALSE, !.size = size]
        /\ DOMAIN g = DOMAIN h
    BY <2>1
  <2>3. size \in 0..HEAP_SIZE
    <3>1. h[b].size \in 0..HEAP_SIZE
      BY <1>1 DEF BlockType
    <3> QED
      BY <3>1, HeapAssumption DEF Fits
  <2>4. /\ g[b].size = size /\ g[b].next = h[b].next /\ ~g[b].free
        /\ g[b].pevious = h[b].pevious /\ g[b].foot = h[b].foot
        /\ g[b] \in BlockType
    BY <1>1, <2>2, <2>3 DEF BlockType
  <2>5. \A c \in DOMAIN h \ {b} : g[c] = h[c]
    BY <2>1
  <2>6. g \in [DOMAIN h -> BlockType]
    BY <1>1, <2>1, <2>4, <2>5
  <2> QED
    BY <1>3, <2>2, <2>4, <2>5, <2>6
<1> QED
  BY <1>2, <1>3

\* Whichever branch it takes, split_into_two leaves a list.
LEMMA SplitListed ==
    ASSUME NEW h, Listed(h), NEW b \in DOMAIN h, NEW size \in Nat,
           Fits(h, b, size)
    PROVE  Listed(SplitIntoTwo(h, b, size))
<1> DEFINE g == SplitIntoTwo(h, b, size)
           n == h[b].next
           rest == Payload(b) + size
<1>1. \A c \in DOMAIN h : /\ c \in Nat /\ c >= Base /\ c # Null
                          /\ h[c].size \in Nat
                          /\ End(h, c) = c + SizeOfBlock + h[c].size
                          /\ End(h, c) <= HEAP_SIZE /\ c < End(h, c)
                          /\ End(h, c) \in Nat
  BY Fields
<1>2. \A c, e \in DOMAIN h : c < e => End(h, c) <= e
  BY DEF Listed, Tiled
<1>0. g = SplitIntoTwo(h, b, size) /\ rest = Payload(b) + size
  OBVIOUS
<1> HIDE DEF g, rest
<1>3. CASE Whole(h, b, size)
  <2>1. /\ g \in [DOMAIN h -> BlockType]
        /\ \A c \in DOMAIN h :
             /\ g[c].size = h[c].size /\ g[c].next = h[c].next
             /\ g[c].pevious = h[c].pevious
    BY <1>0, <1>3, SplitInPlace
  <2> QED
    BY <1>0, <2>1, StaysListed
<1>4. CASE CutsTail(h, b, size)
  <2>1. /\ DOMAIN g = DOMAIN h /\ g \in [DOMAIN h -> BlockType]
        /\ \A c \in DOMAIN h :
             /\ g[c].size = IF c = b THEN size ELSE h[c].size
             /\ g[c].next = h[c].next /\ g[c].pevious = h[c].pevious
    <3>1. ~Whole(h, b, size)
      BY <1>4 DEF CutsTail
    <3> QED
      BY <1>0, <1>4, <3>1, SplitInPlace
  <2>2. /\ h[b].next = Null
        /\ \A c \in DOMAIN h : c <= b
    BY <1>4 DEF CutsTail, Listed, Tiled
  <2>3. \A c \in DOMAIN h :
          /\ End(g, c) <= End(h, c)
          /\ c # b => End(g, c) = End(h, c)
    BY <1>1, <2>1, HeapAssumption DEF End, Payload, Fits
  <2>4. \A c \in DOMAIN h : h[c].next # Null => c # b
    BY <2>2
  <2>5. /\ Base \in DOMAIN h /\ h[Base].pevious = Null
        /\ \A c \in DOMAIN h :
             /\ h[c].next # Null =>
                  /\ h[c].next = End(h, c)
                  /\ h[c].next \in DOMAIN h
                  /\ h[h[c].next].pevious = c
             /\ h[c].next = Null => \A e \in DOMAIN h : e <= c
             /\ c # Base => /\ h[c].pevious \in DOMAIN h
                            /\ h[h[c].pevious].next = c
    BY DEF Listed, Tiled
  <2>6. \A c \in DOMAIN g : /\ c \in Nat /\ End(g, c) \in Int
                            /\ End(g, c) <= HEAP_SIZE
    BY <1>1, <2>1, <2>3, HeapAssumption DEF End, Payload
  <2>7. \A c, e \in DOMAIN g : c < e => End(g, c) <= e
    BY <1>1, <1>2, <2>1, <2>2, <2>3
  <2>8. Tiled(g)
    BY <1>1, <2>1, <2>3, <2>4, <2>5, <2>6, <2>7 DEF Tiled
  <2> QED
    BY <2>1, <2>8 DEF Listed, g
<1>5. CASE ~Whole(h, b, size) /\ ~CutsTail(h, b, size)
  <2>1. /\ DOMAIN g = DOMAIN h \cup {rest} /\ rest \notin DOMAIN h
        /\ rest \in Nat /\ b < rest /\ rest < n /\ n \in DOMAIN h
        /\ End(h, b) = rest + SizeOfBlock + g[rest].size
        /\ g \in [DOMAIN g -> BlockType]
        /\ g[rest].size \in Nat
        /\ g[rest].next = n /\ g[rest].pevious = b
        /\ \A c \in DOMAIN h :
             /\ g[c].size = IF c = b THEN size ELSE h[c].size
             /\ g[c].next = IF c = b THEN rest ELSE h[c].next
             /\ g[c].pevious = IF c = n THEN rest ELSE h[c].pevious
    BY <1>0, <1>5, SplitFields
  <2>2. rest = b + SizeOfBlock + size
    BY <1>0, <1>1, HeapAssumption DEF Payload
  <2>3. n = End(h, b) /\ h[n].pevious = b /\ n # Null
    BY <1>1, <2>1, <1>5, Next_Of DEF CutsTail
  <2>4. /\ \A c \in DOMAIN h : End(g, c) = IF c = b THEN rest ELSE End(h, c)
        /\ End(g, rest) = n
    BY <1>1, <2>1, <2>2, <2>3, HeapAssumption DEF End, Payload
  <2>5. /\ Base \in DOMAIN h /\ h[Base].pevious = Null /\ Base \in Nat
        /\ \A c \in DOMAIN h :
             /\ h[c].next # Null =>
                  /\ h[c].next = End(h, c)
                  /\ h[c].next \in DOMAIN h
                  /\ h[h[c].next].pevious = c
             /\ h[c].next = Null => \A e \in DOMAIN h : e <= c
             /\ c # Base => /\ h[c].pevious \in DOMAIN h
                            /\ h[h[c].pevious].next = c
    BY <1>1 DEF Listed, Tiled
  <2>6. \A c \in DOMAIN h : b < c => n <= c
    BY <1>2, <2>3
  <2>7. \A c \in DOMAIN h : c < b => End(h, c) <= b
    BY <1>2
  <2>8. \A c, e \in DOMAIN g : c < e => End(g, c) <= e
    <3>1. ASSUME NEW c \in DOMAIN h, NEW e \in DOMAIN h, c < e
          PROVE  End(g, c) <= e
      BY <1>1, <1>2, <2>1, <2>4, <2>6, <3>1
    <3>2. ASSUME NEW c \in DOMAIN h, c < rest PROVE End(g, c) <= rest
      <4>1. c = b \/ c < b \/ b < c
        BY <1>1
      <4>2. CASE c = b
        BY <2>1, <2>4, <4>2
      <4>3. CASE c < b
        BY <1>1, <2>1, <2>4, <2>7, <4>3
      <4>4. CASE b < c
        BY <1>1, <2>1, <2>6, <3>2, <4>4
      <4> QED
        BY <4>1, <4>2, <4>3, <4>4
    <3>3. ASSUME NEW e \in DOMAIN h, rest < e PROVE End(g, rest) <= e
      BY <1>1, <2>1, <2>4, <2>6, <3>3
    <3> QED
      BY <2>1, <3>1, <3>2, <3>3
  <2>9. Base \in DOMAIN g /\ g[Base].pevious = Null
    <3>1. Base # n
      BY <1>1, <2>1, <2>5
    <3> QED
      BY <2>1, <2>5, <3>1
  <2>10. ASSUME NEW c \in DOMAIN g
         PROVE  /\ c >= Base /\ End(g, c) <= HEAP_SIZE
                /\ g[c].next # Null =>
                     /\ g[c].next = End(g, c)
                     /\ g[c].next \in DOMAIN g
                     /\ g[g[c].next].pevious = c
                /\ g[c].next = Null => \A e \in DOMAIN g : e <= c
                /\ c # Base =>
                     /\ g[c].pevious \in DOMAIN g
                     /\ g[g[c].pevious].next = c
    <3>1. CASE c = rest
      <4>1. /\ c >= Base /\ End(g, c) = n /\ n <= HEAP_SIZE
        BY <1>1, <2>1, <2>3, <2>4, <2>5, <3>1
      <4>2. g[n].pevious = rest /\ g[b].next = rest
        BY <2>1
      <4> QED
        BY <2>1, <2>3, <3>1, <4>1, <4>2
    <3>2. CASE c = b
      <4>1. c >= Base /\ End(g, c) = rest /\ rest <= HEAP_SIZE
        BY <1>1, <2>1, <2>3, <2>4, <3>2, HeapAssumption
      <4>2. g[c].next = rest /\ rest # Null /\ b # n
        BY <1>1, <2>1, <3>2 DEF Null
      <4>3. c # Base => /\ h[c].pevious \in DOMAIN h /\ h[c].pevious # b
                        /\ h[h[c].pevious].next = c
        BY <1>1, <2>1, <2>3, <2>5, <3>2
      <4>4. c # Base => /\ g[c].pevious \in DOMAIN g
                        /\ g[g[c].pevious].next = c
        BY <2>1, <3>2, <4>2, <4>3
      <4> QED
        BY <2>1, <3>2, <4>1, <4>2, <4>4
    <3>3. CASE c # b /\ c # rest
      <4>1. c \in DOMAIN h /\ c >= Base /\ End(g, c) <= HEAP_SIZE
        BY <1>1, <2>1, <2>4, <3>3
      <4>2. ASSUME g[c].next # Null
            PROVE  /\ g[c].next = End(g, c)
                   /\ g[c].next \in DOMAIN g
                   /\ g[g[c].next].pevious = c
        <5>1. /\ g[c].next = h[c].next /\ h[c].next \in DOMAIN h
              /\ h[c].next = End(h, c) /\ h[h[c].next].pevious = c
          BY <2>1, <2>5, <3>3, <4>1, <4>2
        <5>2. h[c].next # n
          BY <2>3, <3>3, <5>1
        <5> QED
          BY <2>1, <2>4, <3>3, <4>1, <5>1, <5>2
      <4>3. ASSUME g[c].next = Null PROVE \A e \in DOMAIN g : e <= c
        <5>1. \A e \in DOMAIN h : e <= c
          BY <2>1, <2>5, <3>3, <4>1, <4>3
        <5>2. rest <= c
          BY <1>1, <2>1, <4>1, <5>1
        <5> QED
          BY <2>1, <5>1, <5>2
      <4>4. ASSUME c # Base
            PROVE  g[c].pevious \in DOMAIN g /\ g[g[c].pevious].next = c
        <5>1. CASE c = n
          BY <2>1, <4>1, <5>1
        <5>2. CASE c # n
          <6>1. /\ g[c].pevious = h[c].pevious /\ h[c].pevious \in DOMAIN h
                /\ h[h[c].pevious].next = c
            BY <2>1, <2>5, <4>1, <4>4, <5>2
          <6>2. h[c].pevious # b
            BY <5>2, <6>1
          <6> QED
            BY <2>1, <6>1, <6>2
        <5> QED
          BY <5>1, <5>2
      <4> QED
        BY <4>1, <4>2, <4>3, <4>4
    <3> QED
      BY <3>1, <3>2, <3>3
  <2>11. Tiled(g)
    BY <2>8, <2>9, <2>10 DEF Tiled
  <2>12. DOMAIN g \subseteq Addresses
    <3>1. \A c \in DOMAIN g : c \in Nat
      BY <1>1, <2>1
    <3>2. \A c \in DOMAIN g : c <= HEAP_SIZE
      BY <1>1, <2>1, <2>3, HeapAssumption
    <3> QED
      BY <3>1, <3>2, HeapAssumption DEF Addresses
  <2>13. \E c \in DOMAIN g : g[c].next = Null
    <3>1. PICK c \in DOMAIN h : h[c].next = Null
      BY DEF Listed
    <3>2. c # b
      BY <2>3, <3>1
    <3> QED
      BY <2>1, <3>1, <3>2
  <2> QED
    BY <2>1, <2>11, <2>12, <2>13 DEF Listed, g
<1> QED
  BY <1>3, <1>4, <1>5

\* append_new_block: a used block after the last.
LEMMA AppendFields ==
    ASSUME NEW h, Listed(h), NEW size \in Nat, Appends(h, size),
           NEW last, last = LastBlock(h), NEW new, new = NewBlock(h),
           NEW g, g = AppendNewBlock(h, size)
    PROVE  /\ last \in DOMAIN h /\ h[last].next = Null
           /\ \A c \in DOMAIN h : c <= last /\ c < new
           /\ new = End(h, last) /\ new \in Nat /\ new # Null
           /\ new + SizeOfBlock + size <= HEAP_SIZE - 1
           /\ DOMAIN g = DOMAIN h \cup {new} /\ new \notin DOMAIN h
           /\ g \in [DOMAIN g -> BlockType]
           /\ g[new].size = size /\ ~g[new].free
           /\ g[new].next = Null /\ g[new].pevious = last
           /\ \A c \in DOMAIN h :
                /\ g[c].size = h[c].size /\ g[c].free = h[c].free
                /\ g[c].next = IF c = last THEN new ELSE h[c].next
                /\ g[c].pevious = h[c].pevious /\ g[c].foot = h[c].foot
<1>1. \A c \in DOMAIN h : /\ c \in Nat /\ h[c].size \in Nat
                          /\ h[c] \in BlockType
                          /\ End(h, c) = c + SizeOfBlock + h[c].size
                          /\ c < End(h, c)
  BY Fields
<1>2. last \in DOMAIN h /\ h[last].next = Null
  <2>1. \E c \in DOMAIN h : h[c].next = Null
    BY DEF Listed
  <2> QED
    BY <2>1 DEF LastBlock
<1>3. \A c \in DOMAIN h : c <= last
  BY <1>2 DEF Listed, Tiled
<1>4. new = End(h, last) /\ new \in Nat /\ new # Null
  BY <1>1, <1>2, HeapAssumption DEF NewBlock, Null
<1>5. \A c \in DOMAIN h : c < new
  BY <1>1, <1>2, <1>3, <1>4
<1>6. new \notin DOMAIN h
  BY <1>4, <1>5
<1>7. new + SizeOfBlock + size <= HEAP_SIZE - 1
  BY <1>4, HeapAssumption DEF Appends, Payload
<1>8. DOMAIN g = DOMAIN h \cup {new} /\ g = [c \in DOMAIN g |-> g[c]]
  <2>1. DOMAIN g = DOMAIN h \cup {new}
    BY DEF AppendNewBlock
  <2>2. g = [c \in DOMAIN g |-> g[c]]
    <3> DEFINE f(c) == CASE c = new  -> Block(size, FALSE, Null, last, Null)
                         [] c = last -> [h[c] EXCEPT !.next = new]
                         [] OTHER    -> h[c]
    <3>1. g = [c \in DOMAIN h \cup {new} |-> f(c)]
      BY DEF AppendNewBlock
    <3> HIDE DEF f
    <3> QED
      BY <3>1, Zenon
  <2> QED
    BY <2>1, <2>2
<1>9. /\ g[new] = Block(size, FALSE, Null, last, Null)
      /\ g[last] = [h[last] EXCEPT !.next = new]
      /\ \A c \in DOMAIN h \ {last} : g[c] = h[c]
  BY <1>2, <1>6, <1>8 DEF AppendNewBlock
<1>10. /\ new \in Addresses /\ last \in Addresses /\ size \in 0..HEAP_SIZE
       /\ Null \in Addresses
  BY <1>1, <1>2, <1>4, <1>5, <1>7, HeapAssumption DEF Addresses, Null
<1>11. /\ g[new] \in BlockType /\ g[new].size = size /\ ~g[new].free
       /\ g[new].next = Null /\ g[new].pevious = last
  BY <1>9, <1>10 DEF Block, BlockType
<1>12. /\ g[last] \in BlockType /\ g[last].size = h[last].size
       /\ g[last].free = h[last].free /\ g[last].next = new
       /\ g[last].pevious = h[last].pevious /\ g[last].foot = h[last].foot
  BY <1>1, <1>2, <1>9, <1>10 DEF BlockType
<1>13. g \in [DOMAIN g -> BlockType]
  BY <1>1, <1>8, <1>9, <1>11, <1>12
<1> QED
  BY <1>2, <1>3, <1>4, <1>5, <1>6, <1>7, <1>8, <1>9, <1>11, <1>12, <1>13

\* append_new_block leaves a list.
LEMMA AppendListed ==
    ASSUME NEW h, Listed(h), NEW size \in Nat, Appends(h, size)
    PROVE  Listed(AppendNewBlock(h, size))
<1> DEFINE g == AppendNewBlock(h, size)
           last == LastBlock(h)
           new == NewBlock(h)
<1>0. g = AppendNewBlock(h, size) /\ last = LastBlock(h) /\ new = NewBlock(h)
  OBVIOUS
<1> HIDE DEF g, last, new
<1>1. /\ last \in DOMAIN h /\ h[last].next = Null
      /\ \A c \in DOMAIN h : c <= last /\ c < new
      /\ new = End(h, last) /\ new \in Nat /\ new # Null
      /\ new + SizeOfBlock + size <= HEAP_SIZE - 1
      /\ DOMAIN g = DOMAIN h \cup {new} /\ new \notin DOMAIN h
      /\ g \in [DOMAIN g -> BlockType]
      /\ g[new].size = size /\ g[new].next = Null /\ g[new].pevious = last
      /\ \A c \in DOMAIN h :
           /\ g[c].size = h[c].size
           /\ g[c].next = IF c = last THEN new ELSE h[c].next
           /\ g[c].pevious = h[c].pevious
  BY <1>0, AppendFields
<1>2. \A c \in DOMAIN h : /\ c \in Nat /\ c >= Base /\ h[c].size \in Nat
                          /\ End(h, c) = c + SizeOfBlock + h[c].size
                          /\ End(h, c) <= HEAP_SIZE /\ c < End(h, c)
                          /\ End(h, c) \in Nat
  BY Fields
<1>3. /\ \A c \in DOMAIN h : End(g, c) = End(h, c)
      /\ End(g, new) = new + SizeOfBlock + size
  BY <1>1 DEF End, Payload
<1>4. /\ Base \in DOMAIN h /\ h[Base].pevious = Null /\ Base \in Nat
      /\ \A c \in DOMAIN h :
           /\ h[c].next # Null =>
                /\ h[c].next = End(h, c)
                /\ h[c].next \in DOMAIN h
                /\ h[h[c].next].pevious = c
           /\ h[c].next = Null => \A e \in DOMAIN h : e <= c
           /\ c # Base => /\ h[c].pevious \in DOMAIN h
                          /\ h[h[c].pevious].next = c
      /\ \A c, e \in DOMAIN h : c < e => End(h, c) <= e
  BY <1>2 DEF Listed, Tiled
<1>5. Base \in DOMAIN g /\ g[Base].pevious = Null
  BY <1>1, <1>4
<1>6. \A c, e \in DOMAIN g : c < e => End(g, c) <= e
  <2>1. ASSUME NEW c \in DOMAIN h PROVE End(g, c) <= new
    <3>1. c = last \/ c < last
      BY <1>1, <1>2
    <3>2. c < last => End(h, c) <= last
      BY <1>1, <1>4
    <3>3. last < new
      BY <1>1
    <3>4. CASE c < last
      BY <1>1, <1>2, <1>3, <3>2, <3>3, <3>4
    <3>5. CASE c = last
      BY <1>1, <1>2, <1>3, <3>5
    <3> QED
      BY <3>1, <3>4, <3>5
  <2>2. ASSUME NEW e \in DOMAIN h PROVE ~(new < e)
    BY <1>1, <1>2
  <2>3. ~(new < new)
    BY <1>1
  <2> QED
    BY <1>1, <1>3, <1>4, <2>1, <2>2, <2>3
<1>7. ASSUME NEW c \in DOMAIN g
      PROVE  /\ c >= Base /\ End(g, c) <= HEAP_SIZE
             /\ g[c].next # Null =>
                  /\ g[c].next = End(g, c)
                  /\ g[c].next \in DOMAIN g
                  /\ g[g[c].next].pevious = c
             /\ g[c].next = Null => \A e \in DOMAIN g : e <= c
             /\ c # Base =>
                  /\ g[c].pevious \in DOMAIN g
                  /\ g[g[c].pevious].next = c
  <2>1. CASE c = new
    <3>1. c >= Base /\ End(g, c) <= HEAP_SIZE
      BY <1>1, <1>2, <1>3, <1>4, <2>1, HeapAssumption
    <3>2. \A e \in DOMAIN g : e <= c
      BY <1>1, <1>2, <2>1
    <3> QED
      BY <1>1, <2>1, <3>1, <3>2
  <2>2. CASE c \in DOMAIN h
    <3>1. c >= Base /\ End(g, c) <= HEAP_SIZE
      BY <1>2, <1>3, <2>2
    <3>2. c = last => /\ g[c].next = new /\ g[c].next = End(g, c)
      BY <1>1, <1>3
    <3>3. c # last => g[c].next = h[c].next
      BY <1>1, <2>2
    <3>4. h[c].next = Null => c = last
      <4>1. h[c].next = Null => last <= c
        BY <1>1, <1>4, <2>2
      <4> QED
        BY <1>1, <1>2, <2>2, <4>1
    <3>5. ASSUME g[c].next # Null
          PROVE  /\ g[c].next = End(g, c)
                 /\ g[c].next \in DOMAIN g
                 /\ g[g[c].next].pevious = c
      BY <1>1, <1>3, <1>4, <2>2, <3>2, <3>3, <3>5
    <3>6. ASSUME c # Base
          PROVE  g[c].pevious \in DOMAIN g /\ g[g[c].pevious].next = c
      <4>1. /\ h[c].pevious \in DOMAIN h /\ h[h[c].pevious].next = c
        BY <1>4, <2>2, <3>6
      <4>2. c # Null
        BY <1>2, <1>4, <2>2, HeapAssumption DEF Base, Null
      <4> QED
        BY <1>1, <2>2, <4>1, <4>2
    <3>7. g[c].next # Null
      BY <1>1, <3>2, <3>3, <3>4
    <3> QED
      BY <3>1, <3>5, <3>6, <3>7
  <2> QED
    BY <1>1, <2>1, <2>2
<1>8. Tiled(g)
  BY <1>5, <1>6, <1>7 DEF Tiled
<1>9. DOMAIN g \subseteq Addresses
  BY <1>1, <1>2, HeapAssumption DEF Addresses
<1> QED
  BY <1>1, <1>8, <1>9 DEF Listed, g

-----------------------------------------------------------------------------
(* What the operations make of free neighbours and of the blocks in use.   *)

\* The blocks in use other than b are what they were.
SameBut(h, g, b) ==
    /\ InUse(g) \ {b} = InUse(h) \ {b}
    /\ \A c \in InUse(h) \ {b} : g[c].size = h[c].size /\ g[c].foot = h[c].foot

\* There are no more blocks than addresses.
LEMMA Finite ==
    ASSUME NEW h, DOMAIN h \subseteq Addresses
    PROVE  IsFiniteSet(DOMAIN h)
<1>1. IsFiniteSet(0..HEAP_SIZE)
  <2>1. 0 \in Int /\ HEAP_SIZE \in Int
    BY HeapAssumption
  <2> QED
    BY <2>1, FS_Interval
<1> QED
  BY <1>1, FS_Subset DEF Addresses

\* So does a merge in either direction, if one is made.
LEMMA MergeRightListed ==
    ASSUME NEW h, Listed(h), NEW b \in DOMAIN h
    PROVE  Listed(MergeRight(h, b)) /\ b \in DOMAIN MergeRight(h, b)
<1>1. CASE RightIsFree(h, b)
  <2>1. h[b].next # Null /\ MergeRight(h, b) = Absorb(h, b)
    BY <1>1 DEF RightIsFree, MergeRight
  <2>2. Listed(Absorb(h, b))
    BY <2>1, AbsorbListed
  <2>3. b \in DOMAIN Absorb(h, b)
    BY <2>1, AbsorbFields
  <2> QED
    BY <2>1, <2>2, <2>3
<1> QED
  BY <1>1 DEF MergeRight

\* To the left it is the neighbour that absorbs.
LEMMA MergeLeftListed ==
    ASSUME NEW h, Listed(h), NEW b \in DOMAIN h
    PROVE  Listed(MergeLeft(h, b))
<1>1. CASE LeftIsFree(h, b)
  <2>1. h[b].pevious # Null /\ MergeLeft(h, b) = Absorb(h, h[b].pevious)
    BY <1>1 DEF LeftIsFree, MergeLeft
  <2>2. h[b].pevious \in DOMAIN h /\ h[h[b].pevious].next # Null
    BY <2>1, Previous_Of, Fields
  <2> QED
    BY <2>1, <2>2, AbsorbListed
<1> QED
  BY <1>1 DEF MergeLeft

\* A block that absorbs a free neighbour leaves the blocks in use as they are.
LEMMA AbsorbSame ==
    ASSUME NEW h, Listed(h), NEW b \in DOMAIN h, RightIsFree(h, b),
           NEW g, g = Absorb(h, b)
    PROVE  /\ SameBut(h, g, b) /\ g[b].size >= h[b].size
           /\ ~h[b].free => g[b].foot = h[b].foot
           /\ h[b].free => b \notin InUse(g) /\ b \notin InUse(h)
           /\ Cardinality(DOMAIN g) = Cardinality(DOMAIN h) - 1
<1> DEFINE n == h[b].next
<1>1. n # Null /\ n \in DOMAIN h /\ b # n /\ h[n].free
  BY Next_Of, Fields DEF RightIsFree
<1>2. /\ DOMAIN g = DOMAIN h \ {n} /\ b \in DOMAIN g
      /\ \A c \in DOMAIN g :
           /\ g[c].size = IF c = b THEN h[b].size + SizeOfBlock + h[n].size
                                   ELSE h[c].size
           /\ g[c].free = h[c].free /\ g[c].foot = h[c].foot
  BY <1>1, AbsorbFields
<1> HIDE DEF n
<1>3. SameBut(h, g, b)
  BY <1>1, <1>2 DEF SameBut, InUse
<1>4. g[b].size >= h[b].size
  BY <1>1, <1>2, Fields, HeapAssumption
<1>5. Cardinality(DOMAIN g) = Cardinality(DOMAIN h) - 1
  <2>1. IsFiniteSet(DOMAIN h)
    BY Finite DEF Listed
  <2> QED
    BY <1>1, <1>2, <2>1, FS_RemoveElement
<1> QED
  BY <1>2, <1>3, <1>4, <1>5 DEF InUse

\* A free block with a free right neighbour is b, or that neighbour is b.
FreeOnlyBy(h, b) ==
    \A c \in DOMAIN h : h[c].free /\ RightIsFree(h, c) => c = b \/ h[c].next = b

FreeOnlyBefore(h, b) ==
    \A c \in DOMAIN h : h[c].free /\ RightIsFree(h, c) => h[c].next = b

\* merge_block_right: if b was the only free block with a free neighbour on
\* its right, or that neighbour itself, only the latter is left.
LEMMA MergeRightKeeps ==
    ASSUME NEW h, Listed(h), NEW b \in DOMAIN h,
           FreeOnlyBy(h, b), NEW g, g = MergeRight(h, b)
    PROVE  /\ g[b].free <=> h[b].free
           /\ g[b].foot = h[b].foot /\ g[b].size >= h[b].size
           /\ g[b].pevious = h[b].pevious /\ ~RightIsFree(g, b)
           /\ FreeOnlyBefore(g, b)
           /\ SameBut(h, g, b)
           /\ Cardinality(DOMAIN g)
                = CountAfter(RightIsFree(h, b), Cardinality(DOMAIN h))
<1>1. CASE ~RightIsFree(h, b)
  <2>1. g = h
    BY <1>1 DEF MergeRight
  <2>2. SameBut(h, g, b) /\ g[b].size >= h[b].size
    BY <2>1, Fields DEF SameBut
  <2>3. FreeOnlyBefore(g, b)
    BY <1>1, <2>1 DEF FreeOnlyBy, FreeOnlyBefore
  <2> QED
    BY <1>1, <2>1, <2>2, <2>3 DEF CountAfter
<1>2. CASE RightIsFree(h, b)
  <2> DEFINE n == h[b].next
  <2>1. g = Absorb(h, b)
    BY <1>2 DEF MergeRight
  <2>2. /\ n # Null /\ n \in DOMAIN h /\ b < n /\ h[n].free
        /\ b \in Nat /\ n \in Nat
    BY <1>2, Next_Of, Fields DEF RightIsFree
  <2>3. /\ DOMAIN g = DOMAIN h \ {n} /\ b \in DOMAIN g
        /\ \A c \in DOMAIN g :
             /\ g[c].next = IF c = b THEN h[n].next ELSE h[c].next
             /\ g[c].pevious = IF c = h[n].next THEN b ELSE h[c].pevious
             /\ g[c].free = h[c].free /\ g[c].foot = h[c].foot
    BY <2>1, <2>2, AbsorbFields
  <2>4. h[n].next # Null => /\ h[n].next \in DOMAIN h /\ n < h[n].next
                            /\ h[n].next # n /\ h[n].next # b
                            /\ ~h[h[n].next].free
    <3>1. h[n].next # Null => /\ h[n].next \in DOMAIN h /\ n < h[n].next
                              /\ h[n].next # n /\ h[n].next # b
      BY <2>2, Next_Of, Fields
    <3>2. n # b
      BY <2>2
    <3> QED
      BY <2>2, <3>1, <3>2 DEF RightIsFree, FreeOnlyBy
  <2> HIDE DEF n
  <2>5. b # h[n].next
    <3>1. b # Null
      BY Fields
    <3> QED
      BY <2>4, <3>1
  <2>6. ~RightIsFree(g, b)
    BY <2>3, <2>4 DEF RightIsFree
  <2>7. ASSUME NEW c \in DOMAIN g, g[c].free, RightIsFree(g, c)
        PROVE  g[c].next = b
    <3>1. c # b /\ c \in DOMAIN h /\ g[c].next = h[c].next /\ h[c].free
      BY <2>3, <2>6, <2>7
    <3>2. h[c].next # Null /\ h[c].next \in DOMAIN h
      BY <2>7, <3>1, Next_Of DEF RightIsFree
    <3>3. h[c].next # n
      <4>1. h[n].pevious = b
        BY <2>2, Next_Of DEF n
      <4>2. h[h[c].next].pevious = c
        BY <3>1, <3>2, Next_Of
      <4> QED
        BY <3>1, <4>1, <4>2
    <3>4. h[h[c].next].free
      BY <2>3, <2>7, <3>1, <3>2, <3>3 DEF RightIsFree
    <3> QED
      BY <3>1, <3>2, <3>4 DEF RightIsFree, FreeOnlyBy
  <2>8. /\ SameBut(h, g, b) /\ g[b].size >= h[b].size
        /\ Cardinality(DOMAIN g) = Cardinality(DOMAIN h) - 1
    BY <1>2, <2>1, AbsorbSame
  <2> QED
    BY <1>2, <2>3, <2>5, <2>6, <2>7, <2>8 DEF CountAfter, FreeOnlyBefore
<1> QED
  BY <1>1, <1>2

\* merge_block_left: no two free neighbours are left.
LEMMA MergeLeftKeeps ==
    ASSUME NEW h, Listed(h), NEW b \in DOMAIN h, h[b].free,
           ~RightIsFree(h, b), FreeOnlyBefore(h, b),
           NEW g, g = MergeLeft(h, b)
    PROVE  /\ NoFree(g) /\ SameBut(h, g, b) /\ b \notin InUse(g)
           /\ Cardinality(DOMAIN g)
                = CountAfter(LeftIsFree(h, b), Cardinality(DOMAIN h))
<1>1. CASE ~LeftIsFree(h, b)
  <2>1. g = h
    BY <1>1 DEF MergeLeft
  <2>2. ASSUME NEW c \in DOMAIN h, h[c].free, RightIsFree(h, c) PROVE FALSE
    <3>1. h[c].next = b /\ h[c].next # Null
      BY <2>2 DEF RightIsFree, FreeOnlyBefore
    <3>2. h[b].pevious = c /\ c # Null
      BY <3>1, Next_Of, Fields
    <3> QED
      BY <1>1, <2>2, <3>2 DEF LeftIsFree
  <2> QED
    BY <1>1, <2>1, <2>2 DEF NoFree, SameBut, InUse, CountAfter
<1>2. CASE LeftIsFree(h, b)
  <2> DEFINE p == h[b].pevious
  <2>1. p \in DOMAIN h /\ h[p].next = b /\ h[p].free /\ p # b /\ b # Null
    BY <1>2, Previous_Of, Fields DEF LeftIsFree
  <2>2. g = Absorb(h, p)
    BY <1>2 DEF MergeLeft
  <2> HIDE DEF p
  <2>3. /\ DOMAIN g = DOMAIN h \ {b} /\ p \in DOMAIN g
        /\ \A c \in DOMAIN g :
             /\ g[c].next = IF c = p THEN h[b].next ELSE h[c].next
             /\ g[c].free = h[c].free /\ g[c].foot = h[c].foot
    BY <2>1, <2>2, AbsorbFields
  <2>4. RightIsFree(h, p)
    BY <2>1 DEF RightIsFree
  <2>5. /\ SameBut(h, g, p) /\ p \notin InUse(g) /\ p \notin InUse(h)
        /\ Cardinality(DOMAIN g) = Cardinality(DOMAIN h) - 1
    BY <2>1, <2>2, <2>4, AbsorbSame
  <2>6. SameBut(h, g, b) /\ b \notin InUse(g)
    BY <2>3, <2>5 DEF SameBut, InUse
  <2>7. ASSUME NEW c \in DOMAIN g, g[c].free, RightIsFree(g, c) PROVE FALSE
    <3>1. CASE c = p
      <4>1. /\ h[b].next # Null /\ h[b].next \in DOMAIN g
            /\ g[h[b].next].free
        <5>1. h[b].next # Null /\ g[h[b].next].free
          BY <2>3, <2>7, <3>1 DEF RightIsFree
        <5>2. h[b].next \in DOMAIN h /\ h[b].next # b
          BY <5>1, Next_Of, Fields
        <5> QED
          BY <2>3, <5>1, <5>2
      <4> QED
        BY <2>3, <4>1 DEF RightIsFree
    <3>2. CASE c # p
      <4>1. c \in DOMAIN h /\ g[c].next = h[c].next /\ h[c].free
        BY <2>3, <2>7, <3>2
      <4>2. h[c].next # Null /\ h[c].next \in DOMAIN h
            /\ h[h[c].next].pevious = c
        BY <2>7, <4>1, Next_Of DEF RightIsFree
      <4>3. h[c].next # b
        BY <3>2, <4>2 DEF p
      <4>4. h[h[c].next].free
        BY <2>3, <2>7, <4>1, <4>2, <4>3 DEF RightIsFree
      <4> QED
        BY <4>1, <4>2, <4>3, <4>4 DEF RightIsFree, FreeOnlyBefore
    <3> QED
      BY <3>1, <3>2
  <2> QED
    BY <1>2, <2>5, <2>6, <2>7 DEF NoFree, CountAfter
<1> QED
  BY <1>1, <1>2

\* split_into_two: its caller's block is in use, what is left over is free and,
\* as the code asserts, has no free neighbour.
LEMMA SplitKeeps ==
    ASSUME NEW h, Listed(h), NoFree(h), NEW b \in DOMAIN h, NEW size \in Nat,
           Fits(h, b, size), SplitOutcome(h, b, size) = "ok",
           NEW g, g = SplitIntoTwo(h, b, size)
    PROVE  /\ NoFree(g) /\ SameBut(h, g, b) /\ b \in InUse(g)
           /\ g[b].size >= size /\ g[b].foot = h[b].foot
           /\ ~CutsTail(h, b, size) =>
                Cardinality(DOMAIN g)
                  = SplitCount(h, b, size, Cardinality(DOMAIN h))
<1>1. \A c \in DOMAIN h : h[c].next # Null => h[c].next \in DOMAIN h
  BY Next_Of
<1>2. CASE Whole(h, b, size) \/ CutsTail(h, b, size)
  <2>1. /\ DOMAIN g = DOMAIN h
        /\ \A c \in DOMAIN h :
             /\ g[c].size = IF c = b /\ ~Whole(h, b, size) THEN size
                                                           ELSE h[c].size
             /\ g[c].next = h[c].next
             /\ c = b => ~g[c].free
             /\ c # b => g[c].free = h[c].free
             /\ g[c].foot = h[c].foot
    BY <1>2, SplitInPlace
  <2>2. NoFree(g)
    BY <1>1, <2>1 DEF NoFree, RightIsFree
  <2>3. SameBut(h, g, b) /\ b \in InUse(g)
    BY <2>1 DEF SameBut, InUse
  <2>4. g[b].size >= size
    BY <2>1, Fields DEF Fits
  <2> QED
    BY <1>2, <2>1, <2>2, <2>3, <2>4 DEF SplitCount
<1>3. CASE ~Whole(h, b, size) /\ ~CutsTail(h, b, size)
  <2> DEFINE rest == Payload(b) + size
             n == h[b].next
  <2>1. /\ DOMAIN g = DOMAIN h \cup {rest} /\ rest \notin DOMAIN h
        /\ n \in DOMAIN h
        /\ g[rest].free /\ g[rest].next = n
        /\ \A c \in DOMAIN h :
             /\ g[c].size = IF c = b THEN size ELSE h[c].size
             /\ g[c].next = IF c = b THEN rest ELSE h[c].next
             /\ c = b => ~g[c].free
             /\ c # b => g[c].free = h[c].free
             /\ g[c].foot = h[c].foot
    BY <1>3, SplitFields
  <2>2. n # Null /\ ~h[n].free /\ n # b
    <3>1. n # Null
      BY <1>3 DEF CutsTail
    <3>2. ~RightIsFree(h, b)
      BY <1>3 DEF SplitOutcome
    <3>3. n # b
      BY <3>1, Next_Of, Fields
    <3> QED
      BY <3>1, <3>2, <3>3 DEF RightIsFree
  <2> HIDE DEF n, rest
  <2>3. NoFree(g)
    <3>1. ~RightIsFree(g, rest)
      BY <2>1, <2>2 DEF RightIsFree
    <3>2. ASSUME NEW c \in DOMAIN h, g[c].free PROVE ~RightIsFree(g, c)
      <4>1. c # b /\ h[c].free /\ g[c].next = h[c].next /\ ~RightIsFree(h, c)
        BY <2>1, <3>2 DEF NoFree
      <4> QED
        BY <1>1, <2>1, <4>1 DEF RightIsFree
    <3> QED
      BY <2>1, <3>1, <3>2 DEF NoFree
  <2>4. SameBut(h, g, b) /\ b \in InUse(g)
    BY <2>1 DEF SameBut, InUse
  <2>5. Cardinality(DOMAIN g) = Cardinality(DOMAIN h) + 1
    <3>1. IsFiniteSet(DOMAIN h)
      BY Finite DEF Listed
    <3> QED
      BY <2>1, <3>1, FS_AddElement
  <2> QED
    BY <1>3, <2>1, <2>3, <2>4, <2>5 DEF SplitCount
<1> QED
  BY <1>2, <1>3

\* append_new_block: nothing free is added.
LEMMA AppendKeeps ==
    ASSUME NEW h, Listed(h), NEW size \in Nat, Appends(h, size),
           NEW g, g = AppendNewBlock(h, size)
    PROVE  /\ NewBlock(h) \in InUse(g) /\ NewBlock(h) \notin DOMAIN h
           /\ g[NewBlock(h)].size = size
           /\ SameBut(h, g, NewBlock(h))
           /\ NoFree(h) => NoFree(g)
           /\ Cardinality(DOMAIN g) = Cardinality(DOMAIN h) + 1
<1> DEFINE last == LastBlock(h)
           new == NewBlock(h)
<1>0. last = LastBlock(h) /\ new = NewBlock(h)
  OBVIOUS
<1> HIDE DEF last, new
<1>1. /\ last \in DOMAIN h /\ h[last].next = Null
      /\ DOMAIN g = DOMAIN h \cup {new} /\ new \notin DOMAIN h
      /\ g[new].size = size /\ ~g[new].free
      /\ g[new].next = Null
      /\ \A c \in DOMAIN h :
           /\ g[c].size = h[c].size /\ g[c].free = h[c].free
           /\ g[c].next = IF c = last THEN new ELSE h[c].next
           /\ g[c].foot = h[c].foot
  BY <1>0, AppendFields
<1>2. SameBut(h, g, new) /\ new \in InUse(g)
  BY <1>1 DEF SameBut, InUse
<1>3. ASSUME NoFree(h) PROVE NoFree(g)
  <2>1. \A c \in DOMAIN h : h[c].next # Null => h[c].next \in DOMAIN h
    BY Next_Of
  <2> QED
    BY <1>1, <1>3, <2>1 DEF NoFree, RightIsFree
<1>4. Cardinality(DOMAIN g) = Cardinality(DOMAIN h) + 1
  <2>1. IsFiniteSet(DOMAIN h)
    BY Finite DEF Listed
  <2> QED
    BY <1>1, <2>1, FS_AddElement
<1> QED
  BY <1>0, <1>1, <1>2, <1>3, <1>4

\* The footer of a block fills its last word, and writing it changes no more.
LEMMA FooterWritten ==
    ASSUME NEW h, Listed(h), NEW b \in DOMAIN h, h[b].size >= SizeOfFooter,
           NEW g, g = WriteFooter(h, b)
    PROVE  /\ Listed(g) /\ DOMAIN g = DOMAIN h
           /\ g[b].foot = FooterAt(g, b)
           /\ \A c \in DOMAIN h :
                /\ g[c].size = h[c].size /\ g[c].free = h[c].free
                /\ g[c].next = h[c].next /\ g[c].pevious = h[c].pevious
                /\ c # b => g[c].foot = h[c].foot
<1>1. \A c \in DOMAIN h : h[c] \in BlockType
  BY Fields
<1>2. FooterAt(h, b) \in Addresses
  BY Fields, HeapAssumption DEF FooterAt, Addresses
<1>3. DOMAIN g = DOMAIN h /\ \A c \in DOMAIN h \ {b} : g[c] = h[c]
  BY DEF WriteFooter
<1>4. g[b] = [h[b] EXCEPT !.foot = FooterAt(h, b)]
  BY DEF WriteFooter
<1>5. /\ g[b] \in BlockType
      /\ g[b].size = h[b].size /\ g[b].free = h[b].free
      /\ g[b].next = h[b].next /\ g[b].pevious = h[b].pevious
      /\ g[b].foot = FooterAt(h, b)
  BY <1>1, <1>2, <1>4 DEF BlockType
<1>6. g \in [DOMAIN h -> BlockType]
  <2>1. \A c \in DOMAIN h : g[c] \in BlockType
    BY <1>1, <1>3, <1>5
  <2> QED
    BY <1>3, <2>1 DEF WriteFooter
<1>7. Listed(g)
  BY <1>3, <1>5, <1>6, StaysListed
<1>8. FooterAt(g, b) = FooterAt(h, b)
  BY <1>5 DEF FooterAt, End
<1> QED
  BY <1>3, <1>5, <1>7, <1>8

-----------------------------------------------------------------------------
(* What callers see: the blocks in use, as regions.                        *)

\* Regions, of any list h and holdings l; and what it says of block b.
RegionsOf(h, l) ==
    [p \in {Payload(b) : b \in InUse(h)} |->
        [asked |-> IF p \in DOMAIN l THEN l[p] ELSE 0,
         size |-> h[BlockOf(p)].size - SizeOfFooter]]

RegionOf(h, l, b) ==
    [asked |-> IF Payload(b) \in DOMAIN l THEN l[Payload(b)] ELSE 0,
     size |-> h[b].size - SizeOfFooter]

\* block_ushift undoes block_shift.
LEMMA BlockOfPayload ==
    ASSUME NEW b \in Int
    PROVE  BlockOf(Payload(b)) = b
  BY HeapAssumption DEF BlockOf, Payload

\* One region for each block in use.
LEMMA RegionsFields ==
    ASSUME NEW h, DOMAIN h \subseteq Int, NEW l, NEW r, r = RegionsOf(h, l)
    PROVE  /\ DOMAIN r = {Payload(b) : b \in InUse(h)}
           /\ \A b \in InUse(h) : r[Payload(b)] = RegionOf(h, l, b)
<1>1. DOMAIN r = {Payload(b) : b \in InUse(h)}
  BY DEF RegionsOf
<1>2. ASSUME NEW b \in InUse(h)
      PROVE  r[Payload(b)] = RegionOf(h, l, b)
  <2>1. b \in Int
    BY DEF InUse
  <2>2. BlockOf(Payload(b)) = b
    BY <2>1, BlockOfPayload
  <2> QED
    BY <2>2 DEF RegionsOf, RegionOf
<1> QED
  BY <1>1, <1>2

\* The regions of a list lie in the arena and apart, even the one heap_realloc
\* has cut to nothing, because a header is larger than a footer.
LEMMA RegionsApart ==
    ASSUME NEW h, Listed(h), NEW l, \A b \in InUse(h) : Payload(b) < HEAP_SIZE
    PROVE  Promise!Apart(RegionsOf(h, l))
<1> DEFINE r == RegionsOf(h, l)
<1>0. r = RegionsOf(h, l)
  OBVIOUS
<1> HIDE DEF r
<1>1. /\ DOMAIN r = {Payload(b) : b \in InUse(h)}
      /\ \A b \in InUse(h) : r[Payload(b)].size = h[b].size - SizeOfFooter
  <2>1. DOMAIN h \subseteq Int
    BY HeapAssumption DEF Listed, Addresses
  <2>2. /\ DOMAIN r = {Payload(b) : b \in InUse(h)}
        /\ \A b \in InUse(h) : r[Payload(b)] = RegionOf(h, l, b)
    BY <1>0, <2>1, RegionsFields
  <2>3. \A b : RegionOf(h, l, b).size = h[b].size - SizeOfFooter
    BY Zenon DEF RegionOf
  <2> QED
    BY <2>2, <2>3
<1>2. \A b \in InUse(h) :
        /\ b \in DOMAIN h /\ b \in Nat /\ b >= Base /\ h[b].size \in Nat
        /\ Payload(b) = b + SizeOfBlock
        /\ End(h, b) = b + SizeOfBlock + h[b].size /\ End(h, b) <= HEAP_SIZE
  BY Fields DEF InUse, Payload
<1>3. \A b \in InUse(h) :
        Promise!Last(r, Payload(b)) = End(h, b) - SizeOfFooter - 1
  <2> TAKE b \in InUse(h)
  <2>1. Promise!Last(r, Payload(b))
          = Payload(b) + (h[b].size - SizeOfFooter) - 1
    BY <1>1 DEF Promise!Last
  <2> QED
    BY <1>2, <2>1, HeapAssumption
<1>4. ASSUME NEW b \in InUse(h)
      PROVE  /\ Payload(b) \in Base..(HEAP_SIZE - 1)
             /\ Promise!Last(r, Payload(b)) \in Base..(HEAP_SIZE - 1)
  BY <1>2, <1>3, HeapAssumption DEF Base
<1>5. ASSUME NEW b \in InUse(h), NEW c \in InUse(h), Payload(b) < Payload(c)
      PROVE  Promise!Last(r, Payload(b)) < Payload(c)
  <2>1. b < c
    BY <1>2, <1>5, HeapAssumption
  <2>2. End(h, b) <= c
    BY <1>2, <2>1 DEF Listed, Tiled
  <2> QED
    BY <1>2, <1>3, <2>2, HeapAssumption
<1>6. Promise!Apart(r)
  BY <1>1, <1>4, <1>5 DEF Promise!Apart
<1> QED
  BY <1>0, <1>6

\* Blocks somebody holds begin inside the arena.
LEMMA HeldInside ==
    ASSUME IInv, ~rewound, status = "ok", NEW b \in InUse(hdr)
    PROVE  /\ Listed(hdr) /\ b \in DOMAIN hdr /\ b \in Nat
           /\ Payload(b) \in DOMAIN live /\ live[Payload(b)] \in Nat
           /\ Payload(b) < HEAP_SIZE /\ hdr[b].size \in Nat
           /\ hdr[b].size >= live[Payload(b)] + SizeOfFooter
<1>1. HeldInv /\ b \in DOMAIN hdr
  BY DEF IInv, KeptInv, InUse
<1>2. Listed(hdr)
  BY <1>1 DEF IInv, ListInv, NoBlocks
<1>3. Payload(b) \in DOMAIN live /\ live[Payload(b)] \in Nat
  BY <1>1, HeapAssumption DEF HeldInv, IInv, TypeInv
<1>4. /\ b \in Nat /\ hdr[b].size \in Nat /\ End(hdr, b) <= HEAP_SIZE
      /\ End(hdr, b) = b + SizeOfBlock + hdr[b].size
  BY <1>1, <1>2, Fields
<1>5. hdr[b].size >= live[Payload(b)] + SizeOfFooter
  BY <1>1, <1>3, <1>4, HeapAssumption DEF HeldInv
<1> QED
  BY <1>1, <1>2, <1>3, <1>4, <1>5, HeapAssumption DEF Payload

-----------------------------------------------------------------------------
(* heap_alloc.                                                             *)

\* What heap_alloc hands out has room for the request and the footer.
Roomy(h, b, req) == h[b].size >= req + SizeOfFooter

\* The end all three ways through heap_alloc share: the footer is written and
\* the block handed out.
LEMMA HandedTyped ==
    ASSUME TypeInv, NEW req \in Requests, NEW g, Listed(g), NEW b \in DOMAIN g,
           Roomy(g, b, req),
           hdr' = WriteFooter(g, b), HandOut(b, req)
    PROVE  /\ Listed(hdr') /\ DOMAIN hdr' = DOMAIN g
           /\ hdr'[b].foot = FooterAt(hdr', b)
           /\ \A c \in DOMAIN g :
                /\ hdr'[c].size = g[c].size /\ hdr'[c].free = g[c].free
                /\ hdr'[c].next = g[c].next
                /\ c # b => hdr'[c].foot = g[c].foot
           /\ live'[Payload(b)] = req
           /\ \A p \in DOMAIN live : p # Payload(b) => live'[p] = live[p]
           /\ DOMAIN live' \subseteq Addresses
           /\ live' \in [DOMAIN live' -> Requests]
           /\ Payload(b) \in Base..(HEAP_SIZE - 1)
<1>1. /\ b \in Nat /\ b >= Base /\ g[b].size \in Nat /\ req \in Nat
      /\ End(g, b) = b + SizeOfBlock + g[b].size /\ End(g, b) <= HEAP_SIZE
  BY Fields, HeapAssumption
<1>2. g[b].size >= SizeOfFooter
  BY <1>1, HeapAssumption DEF Roomy
<1>3. Payload(b) \in Base..(HEAP_SIZE - 1)
  BY <1>1, <1>2, HeapAssumption DEF Payload, Base
<1>4. /\ DOMAIN live' = DOMAIN live \cup {Payload(b)}
      /\ live'[Payload(b)] = req
      /\ \A p \in DOMAIN live : p # Payload(b) => live'[p] = live[p]
  BY DEF HandOut
<1>5. DOMAIN live' \subseteq Addresses
  BY <1>3, <1>4, HeapAssumption DEF TypeInv, Addresses, Base
<1>6. live' \in [DOMAIN live' -> Requests]
  <2>1. \A p \in DOMAIN live \cup {Payload(b)} :
          (IF p = Payload(b) THEN req ELSE live[p]) \in Requests
    BY DEF TypeInv
  <2> QED
    BY <2>1, <1>4 DEF HandOut
<1> QED
  BY <1>2, <1>3, <1>4, <1>5, <1>6, FooterWritten

\* A block nobody held is handed out, and no other changes hands.
LEMMA Handed ==
    ASSUME IInv, ~rewound, status = "ok", status' = "ok",
           NEW req \in Requests, NEW g, Listed(g), NoFree(g),
           NEW b \in InUse(g), b \notin InUse(hdr), SameBut(hdr, g, b),
           Roomy(g, b, req),
           hdr' = WriteFooter(g, b), HandOut(b, req)
    PROVE  NoFree(hdr)' /\ HeldInv' /\ Promise!Next
<1>1. HeldInv /\ TypeInv /\ b \in DOMAIN g
  BY DEF IInv, KeptInv, InUse
<1>2. /\ Listed(hdr') /\ DOMAIN hdr' = DOMAIN g
      /\ hdr'[b].foot = FooterAt(hdr', b)
      /\ \A c \in DOMAIN g :
           /\ hdr'[c].size = g[c].size /\ hdr'[c].free = g[c].free
           /\ hdr'[c].next = g[c].next
           /\ c # b => hdr'[c].foot = g[c].foot
      /\ DOMAIN live' = DOMAIN live \cup {Payload(b)}
      /\ live'[Payload(b)] = req
      /\ \A p \in DOMAIN live : p # Payload(b) => live'[p] = live[p]
      /\ Payload(b) \in Base..(HEAP_SIZE - 1)
  <2>1. DOMAIN live' = DOMAIN live \cup {Payload(b)}
    BY DEF HandOut
  <2> QED
    BY <1>1, <2>1, HandedTyped
<1>3. InUse(hdr') = InUse(hdr) \cup {b}
  BY <1>1, <1>2 DEF InUse, SameBut
<1>4. \A c \in InUse(hdr) :
        /\ c # b /\ c \in DOMAIN g /\ c \in DOMAIN hdr
        /\ hdr'[c].size = hdr[c].size /\ hdr'[c].foot = hdr[c].foot
  BY <1>1, <1>2 DEF InUse, SameBut
<1>5. NoFree(hdr')
  <2>1. \A c \in DOMAIN g : g[c].next # Null => g[c].next \in DOMAIN g
    BY Next_Of
  <2> QED
    BY <1>2, <2>1 DEF NoFree, RightIsFree
<1>6. /\ \A c \in InUse(hdr) : c \in Nat /\ Payload(c) # Payload(b)
      /\ b \in Nat
  BY <1>1, <1>4, HeldInside, Fields, HeapAssumption DEF Payload
<1>7. DOMAIN live' = {Payload(c) : c \in InUse(hdr')}
  BY <1>1, <1>2, <1>3 DEF HeldInv
<1>8. ASSUME NEW c \in InUse(hdr')
      PROVE  /\ hdr'[c].foot = FooterAt(hdr', c)
             /\ live'[Payload(c)] + SizeOfFooter <= hdr'[c].size
  <2>1. CASE c = b
    BY <1>1, <1>2, <2>1, HeapAssumption DEF Roomy
  <2>2. CASE c # b
    <3>1. c \in InUse(hdr) /\ Payload(c) \in DOMAIN live
      BY <1>1, <1>3, <2>2 DEF HeldInv
    <3>2. hdr'[c].foot = FooterAt(hdr', c)
      BY <1>1, <1>4, <3>1 DEF HeldInv, FooterAt, End
    <3>3. live'[Payload(c)] = live[Payload(c)]
      BY <1>2, <1>6, <3>1
    <3> QED
      BY <1>1, <1>4, <3>1, <3>2, <3>3 DEF HeldInv
  <2> QED
    BY <2>1, <2>2
<1>9. HeldInv'
  BY <1>7, <1>8 DEF HeldInv
<1> DEFINE r == RegionsOf(hdr, live)
           s == RegionsOf(hdr', live')
<1>10. Regions = r /\ Regions' = s
  BY DEF Regions, RegionsOf, InUse
<1>11. /\ DOMAIN r = {Payload(c) : c \in InUse(hdr)}
       /\ \A c \in InUse(hdr) : r[Payload(c)] = RegionOf(hdr, live, c)
  <2>1. DOMAIN hdr \subseteq Int
    BY HeapAssumption
    DEF IInv, ListInv, Listed, Addresses, NoBlocks
  <2> QED
    BY <2>1, RegionsFields
<1>12. /\ DOMAIN s = {Payload(c) : c \in InUse(hdr')}
       /\ \A c \in InUse(hdr') : s[Payload(c)] = RegionOf(hdr', live', c)
  <2>1. DOMAIN hdr' \subseteq Int
    BY <1>2, HeapAssumption DEF Listed, Addresses
  <2> QED
    BY <2>1, RegionsFields
<1>13. Promise!Apart(s)
  <2>1. \A c \in InUse(hdr') : Payload(c) < HEAP_SIZE
    <3>1. Payload(b) < HEAP_SIZE
      BY <1>2, HeapAssumption DEF Base
    <3> QED
      BY <1>3, <3>1, HeldInside
  <2> QED
    BY <1>2, <2>1, RegionsApart
<1>14. s[Payload(b)] = Promise!Region(req, s[Payload(b)].size)
       /\ s[Payload(b)].size >= req
  <2>1. s[Payload(b)] = [asked |-> req, size |-> hdr'[b].size - SizeOfFooter]
    BY <1>2, <1>3, <1>12 DEF RegionOf
  <2>2. hdr'[b].size - SizeOfFooter >= req
    <3>1. hdr'[b].size = g[b].size /\ g[b].size \in Nat /\ req \in Nat
      BY <1>1, <1>2, Fields, HeapAssumption
    <3> QED
      BY <3>1, HeapAssumption DEF Roomy
  <2> QED
    BY <2>1, <2>2 DEF Promise!Region
<1>15. ASSUME NEW p \in DOMAIN r \ {Payload(b)} PROVE s[p] = r[p]
  <2>1. PICK c \in InUse(hdr) : p = Payload(c)
    BY <1>11
  <2>2. /\ r[p] = RegionOf(hdr, live, c) /\ s[p] = RegionOf(hdr', live', c)
    BY <1>3, <1>11, <1>12, <2>1
  <2>3. /\ Payload(c) \in DOMAIN live /\ Payload(c) \in DOMAIN live'
        /\ live'[Payload(c)] = live[Payload(c)] /\ hdr'[c].size = hdr[c].size
    BY <1>1, <1>2, <1>4, <1>6 DEF HeldInv
  <2> QED
    BY <2>2, <2>3 DEF RegionOf
<1> HIDE DEF r, s
<1>16. Promise!Alloc(Payload(b), req)
  <2>1. Payload(b) \notin DOMAIN r
    BY <1>6, <1>11
  <2>2. DOMAIN s = DOMAIN r \cup {Payload(b)}
    BY <1>3, <1>11, <1>12
  <2> QED
    BY <1>10, <1>13, <1>14, <1>15, <2>1, <2>2
    DEF Promise!Alloc, Promise!SameBut
<1> QED
  BY <1>2, <1>5, <1>9, <1>16 DEF Promise!Next, NoFree

\* heap_alloc lays out the first block of an arena it takes to be empty.
LEMMA AllocFirstStep ==
    ASSUME IInv, NEW req \in Requests, HeapAllocFirst(req)
    PROVE  IInv' /\ (~rewound => Promise!Next)
<1> DEFINE size == req + SizeOfFooter
           g == [b \in {Base} |-> Block(size, FALSE, Null, Null, Null)]
<1>1. /\ status = "ok" /\ status' = "ok" /\ rewound' = rewound
      /\ block_count = 0 /\ block_count' = 1 /\ CanFit(size)
      /\ hdr' = WriteFooter(g, Base) /\ HandOut(Base, req)
  BY DEF HeapAllocFirst, Unlocked
<1>2. /\ req \in Nat /\ size \in Nat /\ size <= HEAP_SIZE
      /\ Base + SizeOfBlock + size <= HEAP_SIZE /\ Base \in Addresses
  BY <1>1, HeapAssumption DEF CanFit, Base, Addresses
<1>3. /\ DOMAIN g = {Base} /\ g[Base].size = size /\ g[Base].next = Null
      /\ ~g[Base].free /\ g[Base].pevious = Null
      /\ g[Base] \in BlockType
  BY <1>2, HeapAssumption DEF Block, BlockType, Addresses, Null
<1>4. Listed(g)
  <2>1. g \in [{Base} -> BlockType]
    BY <1>3
  <2>2. End(g, Base) <= HEAP_SIZE
    BY <1>2, <1>3, HeapAssumption DEF End, Payload, Base
  <2> HIDE DEF g
  <2>3. Base \in Nat
    BY HeapAssumption DEF Base
  <2>4. Tiled(g)
    BY <1>3, <2>2, <2>3 DEF Tiled
  <2> QED
    BY <1>2, <1>3, <2>1, <2>4 DEF Listed
<1> HIDE DEF g
<1>5. Roomy(g, Base, req)
  BY <1>2, <1>3, HeapAssumption DEF Roomy
<1> HIDE DEF size
<1>6. /\ Listed(hdr') /\ DOMAIN hdr' = {Base}
      /\ DOMAIN live' \subseteq Addresses
      /\ live' \in [DOMAIN live' -> Requests]
  BY <1>1, <1>3, <1>4, <1>5, HandedTyped DEF IInv
<1>7. TypeInv' /\ ListInv'
  BY <1>1, <1>6 DEF IInv, TypeInv, ListInv
<1>8. ASSUME ~rewound PROVE KeptInv' /\ Promise!Next
  <2>1. DOMAIN hdr = {}
    <3>1. IsFiniteSet(DOMAIN hdr) /\ Cardinality(DOMAIN hdr) = 0
      <4>1. DOMAIN hdr \subseteq Addresses
        BY DEF IInv, ListInv, NoBlocks, Listed
      <4> QED
        BY <1>1, <1>8, <4>1, Finite DEF IInv, KeptInv
    <3> QED
      BY <3>1, FS_EmptySet
  <2>2. Base \notin InUse(hdr) /\ Base \in InUse(g) /\ SameBut(hdr, g, Base)
    BY <1>3, <2>1 DEF InUse, SameBut
  <2>3. NoFree(g)
    BY <1>3 DEF NoFree, RightIsFree
  <2>4. NoFree(hdr)' /\ HeldInv' /\ Promise!Next
    BY <1>1, <1>4, <1>5, <1>8, <2>2, <2>3, Handed
  <2>5. Cardinality(DOMAIN hdr') = 1
    BY <1>6, FS_Singleton
  <2> QED
    BY <1>1, <2>4, <2>5 DEF KeptInv, NoFree, Outcomes
<1> QED
  BY <1>1, <1>7, <1>8 DEF IInv

\* Of the blocks of a list that fit, if there are any, one is the first.
LEMMA LeastOfNats ==
    ASSUME NEW S, S \subseteq Nat, S # {}
    PROVE  \E m \in S : \A n \in S : m <= n
<1> DEFINE R == OpToRel(<, Nat)
<1>1. IsWellFoundedOn(R, Nat)
  BY NatLessThanWellFounded, Zenon
<1>2. PICK m \in S : \A n \in S : ~(<<n, m>> \in R)
  BY <1>1, WFMin, Zenon
<1>3. \A n \in S : ~(n < m)
  BY <1>2 DEF OpToRel
<1> QED
  BY <1>3

\* find_free_fitting_block finds one that is free and fits.
LEMMA FirstFits ==
    ASSUME NEW h, Listed(h), NEW size \in Nat, Fitting(h, size) # {},
           NEW b, b = FirstFitting(h, size)
    PROVE  b \in DOMAIN h /\ h[b].free /\ Fits(h, b, size)
<1>1. Fitting(h, size) \subseteq Nat
  BY Fields DEF Fitting
<1>2. \E m \in Fitting(h, size) : \A c \in Fitting(h, size) : m <= c
  BY <1>1, LeastOfNats
<1>3. b \in Fitting(h, size)
  BY <1>2 DEF FirstFitting
<1> QED
  BY <1>3, Fields DEF Fitting, Fits

\* heap_alloc splits the first free block that fits.
LEMMA AllocReuseStep ==
    ASSUME IInv, NEW req \in Requests, HeapAllocReuse(req)
    PROVE  IInv' /\ (~rewound => Promise!Next)
<1> DEFINE size == req + SizeOfFooter
           b == FirstFitting(hdr, size)
           g == SplitIntoTwo(hdr, b, size)
<1>1. /\ status = "ok" /\ block_count # 0 /\ Fitting(hdr, size) # {}
      /\ status' = SplitOutcome(hdr, b, size)
      /\ status' = "ok" =>
           /\ hdr' = WriteFooter(g, b)
           /\ block_count' = SplitCount(hdr, b, size, block_count)
           /\ rewound' = (rewound \/ CutsTail(hdr, b, size))
           /\ HandOut(b, req)
      /\ status' # "ok" => UNCHANGED <<hdr, block_count, rewound, live>>
  BY DEF HeapAllocReuse, Unlocked
<1>2. req \in Nat /\ size \in Nat /\ size = req + SizeOfFooter
  BY HeapAssumption
<1>3. g = SplitIntoTwo(hdr, b, size) /\ b = FirstFitting(hdr, size)
  OBVIOUS
<1> HIDE DEF g, b, size
<1>4. Listed(hdr)
  BY <1>1 DEF IInv, ListInv
<1>5. b \in DOMAIN hdr /\ hdr[b].free /\ Fits(hdr, b, size)
  BY <1>1, <1>2, <1>3, <1>4, FirstFits
<1>6. Listed(g) /\ b \in DOMAIN g /\ g[b].size >= size
  <2>1. Listed(g)
    BY <1>2, <1>3, <1>4, <1>5, SplitListed
  <2>2. CASE Whole(hdr, b, size) \/ CutsTail(hdr, b, size)
    <3>1. /\ DOMAIN g = DOMAIN hdr
          /\ g[b].size = IF ~Whole(hdr, b, size) THEN size ELSE hdr[b].size
      BY <1>2, <1>3, <1>4, <1>5, <2>2, SplitInPlace
    <3> QED
      BY <1>2, <1>4, <1>5, <2>1, <3>1, Fields DEF Fits
  <2>3. CASE ~Whole(hdr, b, size) /\ ~CutsTail(hdr, b, size)
    <3>1. b \in DOMAIN g /\ g[b].size = size
      <4> DEFINE rest == Payload(b) + size
      <4>1. /\ DOMAIN g = DOMAIN hdr \cup {rest}
            /\ \A c \in DOMAIN hdr :
                 g[c].size = IF c = b THEN size ELSE hdr[c].size
        BY <1>2, <1>3, <1>4, <1>5, <2>3, SplitFields
      <4> QED
        BY <1>5, <4>1
    <3> QED
      BY <1>2, <2>1, <3>1
  <2> QED
    BY <2>2, <2>3
<1>7. Roomy(g, b, req)
  BY <1>2, <1>6 DEF Roomy
<1>8. CASE status' # "ok"
  <2>1. TypeInv' /\ ListInv'
    BY <1>1, <1>8 DEF IInv, TypeInv, ListInv, SplitOutcome, Assertions
  <2>2. rewound
    <3>1. status' = "two free neighbors detected" /\ RightIsFree(hdr, b)
      BY <1>1, <1>8 DEF SplitOutcome
    <3> QED
      BY <1>5, <3>1 DEF IInv, KeptInv, NoFree, TypeInv
  <2> QED
    BY <1>1, <1>8, <2>1, <2>2 DEF IInv
<1>9. CASE status' = "ok"
  <2>1. /\ Listed(hdr') /\ DOMAIN hdr' = DOMAIN g
        /\ DOMAIN live' \subseteq Addresses
        /\ live' \in [DOMAIN live' -> Requests]
    BY <1>1, <1>6, <1>7, <1>9, HandedTyped DEF IInv
  <2>2. block_count' \in Int
    BY <1>1, <1>9 DEF SplitCount, IInv, TypeInv
  <2>3. TypeInv' /\ ListInv'
    BY <1>1, <1>9, <2>1, <2>2 DEF IInv, TypeInv, ListInv, Outcomes
  <2>4. ASSUME ~rewound
        PROVE  Promise!Next /\ (~rewound' => KeptInv')
    <3>1. NoFree(hdr) /\ block_count = Cardinality(DOMAIN hdr)
      BY <2>4 DEF IInv, KeptInv
    <3>2. SplitOutcome(hdr, b, size) = "ok"
      BY <1>1, <1>9
    <3>3. /\ NoFree(g) /\ SameBut(hdr, g, b) /\ b \in InUse(g)
          /\ ~CutsTail(hdr, b, size) =>
               Cardinality(DOMAIN g)
                 = SplitCount(hdr, b, size, Cardinality(DOMAIN hdr))
      BY <1>2, <1>3, <1>4, <1>5, <3>1, <3>2, SplitKeeps
    <3>4. b \notin InUse(hdr)
      BY <1>5 DEF InUse
    <3>5. NoFree(hdr)' /\ HeldInv' /\ Promise!Next
      BY <1>1, <1>6, <1>7, <1>9, <2>4, <3>3, <3>4, Handed
    <3>6. ~rewound' => block_count' = Cardinality(DOMAIN hdr')
      BY <1>1, <1>9, <2>1, <3>1, <3>3
    <3> QED
      BY <1>9, <3>5, <3>6 DEF KeptInv, NoFree, Outcomes
  <2>5. rewound => rewound'
    BY <1>1, <1>9
  <2> QED
    BY <2>3, <2>4, <2>5 DEF IInv
<1> QED
  BY <1>8, <1>9

\* heap_alloc adds a block at the end of the list.
LEMMA AllocAppendStep ==
    ASSUME IInv, NEW req \in Requests, HeapAllocAppend(req)
    PROVE  IInv' /\ (~rewound => Promise!Next)
<1> DEFINE size == req + SizeOfFooter
           new == NewBlock(hdr)
           g == AppendNewBlock(hdr, size)
<1>1. /\ status = "ok" /\ status' = "ok" /\ rewound' = rewound
      /\ block_count # 0 /\ Appends(hdr, size)
      /\ hdr' = WriteFooter(g, new) /\ block_count' = block_count + 1
      /\ HandOut(new, req)
  BY DEF HeapAllocAppend, Unlocked
<1>2. req \in Nat /\ size \in Nat /\ size = req + SizeOfFooter
  BY HeapAssumption
<1>3. g = AppendNewBlock(hdr, size) /\ new = NewBlock(hdr)
  OBVIOUS
<1> HIDE DEF g, new, size
<1>4. Listed(hdr)
  BY <1>1 DEF IInv, ListInv
<1>5. Listed(g)
  BY <1>1, <1>2, <1>3, <1>4, AppendListed
<1>6. /\ new \in InUse(g) /\ new \notin DOMAIN hdr /\ g[new].size = size
      /\ SameBut(hdr, g, new) /\ (NoFree(hdr) => NoFree(g))
      /\ Cardinality(DOMAIN g) = Cardinality(DOMAIN hdr) + 1
  BY <1>1, <1>2, <1>3, <1>4, AppendKeeps
<1>7. Roomy(g, new, req) /\ new \in DOMAIN g
  BY <1>2, <1>6, HeapAssumption DEF Roomy, InUse
<1>8. /\ Listed(hdr') /\ DOMAIN hdr' = DOMAIN g
      /\ DOMAIN live' \subseteq Addresses
      /\ live' \in [DOMAIN live' -> Requests]
  BY <1>1, <1>5, <1>7, HandedTyped DEF IInv
<1>9. TypeInv' /\ ListInv'
  BY <1>1, <1>8 DEF IInv, TypeInv, ListInv
<1>10. ASSUME ~rewound PROVE KeptInv' /\ Promise!Next
  <2>1. NoFree(hdr) /\ block_count = Cardinality(DOMAIN hdr)
    BY <1>10 DEF IInv, KeptInv
  <2>2. new \notin InUse(hdr)
    BY <1>6 DEF InUse
  <2>3. NoFree(hdr)' /\ HeldInv' /\ Promise!Next
    BY <1>1, <1>5, <1>6, <1>7, <1>10, <2>1, <2>2, Handed
  <2> QED
    BY <1>1, <1>6, <1>8, <2>1, <2>3 DEF KeptInv, NoFree, Outcomes
<1> QED
  BY <1>1, <1>9, <1>10 DEF IInv

-----------------------------------------------------------------------------
(* heap_free and heap_realloc.                                             *)

\* What a caller holds is in use, and its footer is where they look for it.
LEMMA HolderKnows ==
    ASSUME IInv, ~rewound, status = "ok", NEW ptr \in DOMAIN live,
           NEW b, b = BlockOf(ptr)
    PROVE  /\ b \in InUse(hdr) /\ b \in DOMAIN hdr /\ ~hdr[b].free
           /\ ptr = Payload(b)
           /\ FooterOutcome(b) = "ok"
           /\ Cardinality(DOMAIN hdr) >= 1 /\ block_count \in Nat
<1>1. HeldInv
  BY DEF IInv, KeptInv
<1>2. PICK c \in InUse(hdr) : ptr = Payload(c)
  BY <1>1 DEF HeldInv
<1>3. c \in Int
  BY <1>2, HeldInside
<1>4. b = c
  BY <1>2, <1>3, BlockOfPayload
<1>5. FooterOutcome(b) = "ok"
  BY <1>1, <1>2, <1>4 DEF HeldInv, FooterOutcome
<1>6. b \in DOMAIN hdr /\ ~hdr[b].free
  BY <1>2, <1>4 DEF InUse
<1>7. IsFiniteSet(DOMAIN hdr)
  BY <1>2, HeldInside, Finite DEF Listed
<1>8. Cardinality(DOMAIN hdr) \in Nat /\ Cardinality(DOMAIN hdr) # 0
  BY <1>6, <1>7, FS_CardinalityType, FS_EmptySet
<1> QED
  BY <1>2, <1>4, <1>5, <1>6, <1>8 DEF IInv, KeptInv

\* A block is freed, and merged with its free neighbours.
LEMMA FreeStep ==
    ASSUME IInv, NEW ptr \in DOMAIN live, HeapFree(ptr)
    PROVE  IInv' /\ (~rewound => Promise!Next)
<1> DEFINE b == BlockOf(ptr)
           freed == [hdr EXCEPT ![b].free = TRUE]
           right == MergeRight(freed, b)
           left == MergeLeft(right, b)
           afterRight == CountAfter(RightIsFree(freed, b), block_count)
           afterLeft == CountAfter(LeftIsFree(right, b), afterRight)
           checked ==
               CASE b \notin DOMAIN hdr -> "freeing invalid pointer detected"
                 [] b \in DOMAIN hdr /\ hdr[b].free -> "double free detected"
                 [] OTHER -> FooterOutcome(b)
<1>1. /\ status = "ok" /\ rewound' = rewound
      /\ checked # "ok" =>
           status' = checked /\ UNCHANGED <<hdr, block_count, live>>
      /\ checked = "ok" /\ afterRight < 0 =>
           /\ status' = "block overflow" /\ hdr' = right
           /\ block_count' = afterRight /\ live' = live
      /\ checked = "ok" /\ ~(afterRight < 0) =>
           /\ status' = IF afterLeft < 0 THEN "block overflow" ELSE "ok"
           /\ hdr' = left /\ block_count' = afterLeft
           /\ live' = [p \in DOMAIN live \ {ptr} |-> live[p]]
  BY DEF HeapFree, Unlocked
<1>2. /\ checked = "ok" => b \in DOMAIN hdr /\ ~hdr[b].free
      /\ b \in DOMAIN hdr /\ ~hdr[b].free => checked = FooterOutcome(b)
      /\ checked \in Assertions \cup {"ok"}
  BY DEF FooterOutcome, Assertions
<1>3. afterRight \in Int /\ afterLeft \in Int
  BY DEF CountAfter, IInv, TypeInv
<1>4. /\ freed = [hdr EXCEPT ![b].free = TRUE] /\ right = MergeRight(freed, b)
      /\ left = MergeLeft(right, b) /\ b = BlockOf(ptr)
      /\ afterRight = CountAfter(RightIsFree(freed, b), block_count)
      /\ afterLeft = CountAfter(LeftIsFree(right, b), afterRight)
  OBVIOUS
<1> HIDE DEF b, freed, right, left, afterRight, afterLeft, checked
<1>5. ASSUME checked = "ok"
      PROVE  /\ Listed(hdr) /\ Listed(freed) /\ Listed(right) /\ Listed(left)
             /\ DOMAIN freed = DOMAIN hdr /\ b \in DOMAIN freed
             /\ b \in DOMAIN right
             /\ freed[b].free
             /\ \A c \in DOMAIN hdr :
                  /\ freed[c].size = hdr[c].size /\ freed[c].next = hdr[c].next
                  /\ freed[c].foot = hdr[c].foot
                  /\ c # b => freed[c].free = hdr[c].free
  <2>1. b \in DOMAIN hdr /\ ~hdr[b].free /\ Listed(hdr)
    BY <1>2, <1>5 DEF IInv, ListInv, NoBlocks
  <2>2. /\ DOMAIN freed = DOMAIN hdr /\ freed[b] = [hdr[b] EXCEPT !.free = TRUE]
        /\ \A c \in DOMAIN hdr \ {b} : freed[c] = hdr[c]
    BY <1>4, <2>1
  <2>3. \A c \in DOMAIN hdr : hdr[c] \in BlockType
    BY <2>1, Fields
  <2>4. /\ freed[b] \in BlockType /\ freed[b].size = hdr[b].size
        /\ freed[b].next = hdr[b].next /\ freed[b].pevious = hdr[b].pevious
        /\ freed[b].foot = hdr[b].foot /\ freed[b].free
    BY <2>1, <2>2, <2>3 DEF BlockType
  <2>5. freed \in [DOMAIN hdr -> BlockType]
    <3>1. \A c \in DOMAIN hdr : freed[c] \in BlockType
      BY <2>2, <2>3, <2>4
    <3> QED
      BY <1>4, <2>2, <3>1
  <2>6. Listed(freed)
    BY <2>1, <2>2, <2>4, <2>5, StaysListed
  <2>7. Listed(right) /\ b \in DOMAIN right
    BY <1>4, <2>1, <2>2, <2>6, MergeRightListed
  <2>8. Listed(left)
    BY <1>4, <2>7, MergeLeftListed
  <2> QED
    BY <2>1, <2>2, <2>4, <2>6, <2>7, <2>8
<1>6. TypeInv' /\ ListInv'
  <2>1. CASE checked # "ok"
    BY <1>1, <1>2, <2>1 DEF IInv, TypeInv, ListInv
  <2>2. CASE checked = "ok" /\ afterRight < 0
    BY <1>1, <1>3, <1>5, <2>2 DEF IInv, TypeInv, ListInv, Assertions
  <2>3. CASE checked = "ok" /\ ~(afterRight < 0)
    <3>1. status' \in Outcomes \cup Assertions
      BY <1>1, <2>3 DEF Outcomes, Assertions
    <3>2. /\ DOMAIN live' \subseteq Addresses
          /\ live' \in [DOMAIN live' -> Requests]
      BY <1>1, <2>3 DEF IInv, TypeInv
    <3> QED
      BY <1>1, <1>3, <1>5, <2>3, <3>1, <3>2 DEF IInv, TypeInv, ListInv
  <2> QED
    BY <2>1, <2>2, <2>3
<1>7. ASSUME ~rewound PROVE KeptInv' /\ Promise!Next
  <2>1. /\ b \in InUse(hdr) /\ b \in DOMAIN hdr /\ ~hdr[b].free
        /\ ptr = Payload(b) /\ FooterOutcome(b) = "ok"
    BY <1>1, <1>4, <1>7, HolderKnows
  <2>2. checked = "ok"
    BY <1>2, <2>1
  <2>3. /\ NoFree(hdr) /\ HeldInv /\ block_count = Cardinality(DOMAIN hdr)
    BY <1>1, <1>7 DEF IInv, KeptInv
  <2>4. FreeOnlyBy(freed, b)
    <3>1. \A c \in DOMAIN hdr : hdr[c].next # Null => hdr[c].next \in DOMAIN hdr
      BY <1>5, <2>2, Next_Of
    <3> QED
      BY <1>5, <2>2, <2>3, <3>1 DEF RightIsFree, NoFree, FreeOnlyBy
  <2>5. /\ right[b].free /\ ~RightIsFree(right, b)
        /\ FreeOnlyBefore(right, b)
        /\ SameBut(freed, right, b)
        /\ Cardinality(DOMAIN right) = afterRight
    <3>1. /\ right[b].free <=> freed[b].free
          /\ ~RightIsFree(right, b) /\ FreeOnlyBefore(right, b)
          /\ SameBut(freed, right, b)
          /\ Cardinality(DOMAIN right)
               = CountAfter(RightIsFree(freed, b), Cardinality(DOMAIN freed))
      <4>1. Listed(freed) /\ b \in DOMAIN freed /\ right = MergeRight(freed, b)
        BY <1>4, <1>5, <2>2
      <4> QED
        BY <2>4, <4>1, MergeRightKeeps
    <3> QED
      BY <1>4, <1>5, <2>2, <2>3, <3>1
  <2>6. /\ NoFree(left) /\ SameBut(right, left, b) /\ b \notin InUse(left)
        /\ Cardinality(DOMAIN left) = afterLeft
    BY <1>4, <1>5, <2>2, <2>5, MergeLeftKeeps
  <2>7. afterRight \in Nat /\ afterLeft \in Nat
    BY <1>5, <2>2, <2>5, <2>6, Finite, FS_CardinalityType DEF Listed
  <2>8. /\ status' = "ok" /\ hdr' = left /\ block_count' = afterLeft
        /\ live' = [p \in DOMAIN live \ {ptr} |-> live[p]]
    <3>1. ~(afterRight < 0) /\ ~(afterLeft < 0)
      BY <2>7
    <3> QED
      BY <1>1, <2>2, <3>1
  <2>9. /\ InUse(hdr') = InUse(hdr) \ {b}
        /\ \A c \in InUse(hdr') : /\ hdr'[c].size = hdr[c].size
                                  /\ hdr'[c].foot = hdr[c].foot
    <3>1. SameBut(hdr, freed, b)
      BY <1>5, <2>2 DEF SameBut, InUse
    <3> QED
      BY <2>5, <2>6, <2>8, <3>1 DEF SameBut
  <2>10. \A c \in InUse(hdr) : c \in Int /\ (Payload(c) = ptr <=> c = b)
    <3>1. \A c \in InUse(hdr) : c \in Int
      <4>1. status = "ok"
        BY <1>1
      <4> QED
        BY <1>7, <4>1, HeldInside
    <3>2. ASSUME NEW c \in InUse(hdr) PROVE Payload(c) = ptr <=> c = b
      <4>1. c \in Int /\ b \in Int /\ SizeOfBlock \in Int
        BY <2>1, <3>1, HeapAssumption
      <4>2. ptr = b + SizeOfBlock
        BY <2>1 DEF Payload
      <4> QED
        BY <4>1, <4>2 DEF Payload
    <3> QED
      BY <3>1, <3>2
  <2>11. HeldInv'
    <3>1. DOMAIN live' = {Payload(c) : c \in InUse(hdr')}
      BY <2>3, <2>8, <2>9, <2>10 DEF HeldInv
    <3>2. ASSUME NEW c \in InUse(hdr')
          PROVE  /\ hdr'[c].foot = FooterAt(hdr', c)
                 /\ live'[Payload(c)] + SizeOfFooter <= hdr'[c].size
      <4>1. /\ c \in InUse(hdr) /\ hdr'[c].size = hdr[c].size
            /\ hdr'[c].foot = hdr[c].foot
        BY <2>9
      <4>2. live'[Payload(c)] = live[Payload(c)]
        BY <2>3, <2>8, <2>9, <2>10, <4>1 DEF HeldInv
      <4> QED
        BY <2>3, <4>1, <4>2 DEF HeldInv, FooterAt, End
    <3> QED
      BY <3>1, <3>2 DEF HeldInv
  <2>12. KeptInv'
    BY <2>6, <2>8, <2>11 DEF KeptInv, NoFree, Outcomes
  <2> DEFINE r == RegionsOf(hdr, live)
             s == RegionsOf(hdr', live')
  <2>13. Regions = r /\ Regions' = s
    BY DEF Regions, RegionsOf, InUse
  <2>14. /\ DOMAIN r = {Payload(c) : c \in InUse(hdr)}
         /\ \A c \in InUse(hdr) : r[Payload(c)] = RegionOf(hdr, live, c)
    <3>1. DOMAIN hdr \subseteq Int
      BY <1>5, <2>2, HeapAssumption DEF Listed, Addresses
    <3> QED
      BY <3>1, RegionsFields
  <2>15. /\ DOMAIN s = {Payload(c) : c \in InUse(hdr')}
         /\ \A c \in InUse(hdr') : s[Payload(c)] = RegionOf(hdr', live', c)
    <3>1. DOMAIN hdr' \subseteq Int
      BY <1>5, <2>2, <2>8, HeapAssumption DEF Listed, Addresses
    <3> QED
      BY <3>1, RegionsFields
  <2>16. DOMAIN s = DOMAIN r \ {ptr}
    BY <2>9, <2>10, <2>14, <2>15
  <2>17. ASSUME NEW p \in DOMAIN s PROVE s[p] = r[p]
    <3>1. PICK c \in InUse(hdr') : p = Payload(c)
      BY <2>15
    <3>2. c \in InUse(hdr) /\ s[p] = RegionOf(hdr', live', c)
          /\ r[p] = RegionOf(hdr, live, c)
      BY <2>9, <2>14, <2>15, <3>1
    <3>3. /\ Payload(c) \in DOMAIN live' /\ Payload(c) \in DOMAIN live
          /\ live'[Payload(c)] = live[Payload(c)] /\ hdr'[c].size = hdr[c].size
      BY <2>3, <2>8, <2>9, <2>10, <3>2 DEF HeldInv
    <3> QED
      BY <3>2, <3>3 DEF RegionOf
  <2>18. s = [p \in DOMAIN r \ {ptr} |-> r[p]]
    <3>1. s = [p \in DOMAIN s |-> s[p]]
      BY DEF RegionsOf
    <3> HIDE DEF s, r
    <3> QED
      BY <2>16, <2>17, <3>1
  <2>19. ptr \in DOMAIN r
    BY <2>1, <2>14
  <2> HIDE DEF r, s
  <2>20. Promise!Free(ptr)
    BY <1>1, <2>8, <2>13, <2>18 DEF Promise!Free
  <2> QED
    BY <2>12, <2>13, <2>19, <2>20 DEF Promise!Next
<1> QED
  BY <1>1, <1>6, <1>7 DEF IInv

\* A block absorbs a free right neighbour and is split again if it has become
\* large enough; the heap stops either way.
LEMMA ReallocStep ==
    ASSUME IInv, NEW ptr \in DOMAIN live, NEW new_size \in Requests,
           HeapRealloc(ptr, new_size)
    PROVE  IInv' /\ (~rewound => Promise!Next)
<1> DEFINE b == BlockOf(ptr)
           right == MergeRight(hdr, b)
           split == SplitIntoTwo(right, b, new_size)
           afterRight == CountAfter(RightIsFree(hdr, b), block_count)
           outcome == SplitOutcome(right, b, new_size)
           checked == IF b \notin DOMAIN hdr
                      THEN "realloc invalid pointer detected"
                      ELSE FooterOutcome(b)
           stays == checked # "ok"
           merged == checked = "ok" /\ (afterRight < 0
                       \/ ~Fits(right, b, new_size) \/ outcome # "ok")
           resized == /\ checked = "ok" /\ ~(afterRight < 0)
                      /\ Fits(right, b, new_size) /\ outcome = "ok"
<1>1. status = "ok" /\ live' = live
  BY DEF HeapRealloc, Unlocked
<1>2. stays => status' = checked /\ UNCHANGED <<hdr, block_count, rewound>>
  BY DEF HeapRealloc
<1>3. merged => /\ hdr' = right /\ block_count' = afterRight
                /\ rewound' = rewound
                /\ status' \in {"block overflow", "spins", outcome}
                /\ ~(afterRight < 0) =>
                     status' = IF ~Fits(right, b, new_size) THEN "spins"
                                                            ELSE outcome
  <2>1. CASE merged /\ (afterRight < 0 \/ ~Fits(right, b, new_size))
    BY <2>1 DEF HeapRealloc, Fits
  <2>2. CASE /\ merged /\ ~(afterRight < 0) /\ Fits(right, b, new_size)
    BY <2>2 DEF HeapRealloc, Fits
  <2> QED
    BY <2>1, <2>2
<1>4. resized =>
        /\ status' = "held" /\ hdr' = split
        /\ block_count' = SplitCount(right, b, new_size, afterRight)
        /\ rewound' = (rewound \/ CutsTail(right, b, new_size))
  BY DEF HeapRealloc, Fits
<1>5. /\ stays \/ merged \/ resized
      /\ checked = "ok" => b \in DOMAIN hdr
      /\ b \in DOMAIN hdr => checked = FooterOutcome(b)
      /\ checked \in Assertions \cup {"ok"}
      /\ outcome \in Assertions \cup {"ok"}
  BY DEF FooterOutcome, SplitOutcome, Assertions
<1>6. /\ right = MergeRight(hdr, b) /\ b = BlockOf(ptr)
      /\ split = SplitIntoTwo(right, b, new_size)
      /\ outcome = SplitOutcome(right, b, new_size)
  OBVIOUS
<1>7. /\ afterRight = CountAfter(RightIsFree(hdr, b), block_count)
      /\ afterRight \in Int
  BY DEF CountAfter, IInv, TypeInv
<1>8. /\ stays => checked # "ok"
      /\ merged => checked = "ok"
      /\ merged => afterRight < 0 \/ ~Fits(right, b, new_size) \/ outcome # "ok"
      /\ resized => /\ checked = "ok" /\ Fits(right, b, new_size)
                    /\ outcome = "ok" /\ ~(afterRight < 0)
  OBVIOUS
<1> HIDE DEF b, right, split, afterRight, outcome, checked, stays, merged,
             resized
<1>9. ASSUME checked = "ok"
      PROVE  /\ Listed(hdr) /\ b \in DOMAIN hdr
             /\ Listed(right) /\ b \in DOMAIN right
  <2>1. b \in DOMAIN hdr /\ Listed(hdr)
    BY <1>5, <1>9 DEF IInv, ListInv, NoBlocks
  <2> QED
    BY <1>6, <2>1, MergeRightListed
<1>10. new_size \in Nat
  BY HeapAssumption
<1>11. ASSUME resized PROVE Listed(split)
  <2>1. Listed(right) /\ b \in DOMAIN right /\ Fits(right, b, new_size)
    BY <1>8, <1>9, <1>11
  <2> QED
    BY <1>6, <1>10, <2>1, SplitListed
<1>12. TypeInv' /\ ListInv'
  <2>1. CASE stays
    BY <1>1, <1>2, <1>5, <1>8, <2>1 DEF IInv, TypeInv, ListInv
  <2>2. CASE merged
    <3>1. status' \in Outcomes \cup Assertions
      BY <1>3, <1>5, <2>2 DEF Outcomes, Assertions
    <3>2. Listed(hdr') /\ block_count' \in Int
      BY <1>3, <1>7, <1>8, <1>9, <2>2
    <3> QED
      BY <1>1, <1>3, <2>2, <3>1, <3>2 DEF IInv, TypeInv, ListInv
  <2>3. CASE resized
    <3>1. block_count' \in Int
      BY <1>4, <1>7, <2>3 DEF SplitCount
    <3>2. rewound' \in BOOLEAN /\ status' \in Outcomes
      BY <1>4, <2>3 DEF Outcomes, IInv, TypeInv
    <3>3. Listed(hdr')
      BY <1>4, <1>11, <2>3
    <3> QED
      BY <1>1, <3>1, <3>2, <3>3 DEF IInv, TypeInv, ListInv
  <2> QED
    BY <1>5, <2>1, <2>2, <2>3
<1>13. rewound => rewound'
  BY <1>2, <1>3, <1>4, <1>5
<1>14. ASSUME ~rewound PROVE (~rewound' => KeptInv') /\ Promise!Next
  <2>1. /\ b \in InUse(hdr) /\ b \in DOMAIN hdr /\ ~hdr[b].free
        /\ ptr = Payload(b) /\ FooterOutcome(b) = "ok"
    BY <1>1, <1>6, <1>14, HolderKnows
  <2>2. checked = "ok" /\ ~stays
    BY <1>5, <1>8, <2>1
  <2>3. /\ NoFree(hdr) /\ HeldInv /\ block_count = Cardinality(DOMAIN hdr)
    BY <1>1, <1>14 DEF IInv, KeptInv
  <2>4. Listed(hdr) /\ Listed(right) /\ b \in DOMAIN right
    BY <1>9, <2>2
  <2>5. /\ ~right[b].free /\ ~RightIsFree(right, b)
        /\ FreeOnlyBefore(right, b) /\ SameBut(hdr, right, b)
        /\ Cardinality(DOMAIN right) = afterRight
    <3>1. FreeOnlyBy(hdr, b)
      BY <2>3 DEF NoFree, FreeOnlyBy
    <3>2. /\ right[b].free <=> hdr[b].free
          /\ ~RightIsFree(right, b) /\ FreeOnlyBefore(right, b)
          /\ SameBut(hdr, right, b)
          /\ Cardinality(DOMAIN right)
               = CountAfter(RightIsFree(hdr, b), Cardinality(DOMAIN hdr))
      <4>1. right = MergeRight(hdr, b)
        BY <1>6
      <4> QED
        BY <2>1, <2>4, <3>1, <4>1, MergeRightKeeps
    <3> QED
      BY <1>7, <2>1, <2>3, <3>2
  <2>6. NoFree(right)
    <3>1. \A c \in DOMAIN right :
             right[c].next = b => ~RightIsFree(right, c)
      BY <2>5 DEF RightIsFree
    <3> QED
      BY <2>5, <3>1 DEF NoFree, FreeOnlyBefore, RightIsFree
  <2>7. afterRight \in Nat
    BY <2>4, <2>5, Finite, FS_CardinalityType DEF Listed
  <2>8. outcome = "ok"
    BY <1>6, <2>5 DEF SplitOutcome
  <2>9. ASSUME merged
        PROVE  /\ hdr' = right /\ block_count' = afterRight
               /\ status' = "spins" /\ rewound' = rewound
    <3>1. ~(afterRight < 0)
      BY <2>7
    <3> QED
      BY <1>3, <1>8, <2>8, <2>9, <3>1
  <2>10. ASSUME resized
         PROVE  /\ NoFree(split) /\ SameBut(right, split, b)
                /\ b \in InUse(split)
                /\ ~CutsTail(right, b, new_size) =>
                     Cardinality(DOMAIN split)
                       = SplitCount(right, b, new_size,
                                    Cardinality(DOMAIN right))
    <3>1. /\ Fits(right, b, new_size)
          /\ SplitOutcome(right, b, new_size) = "ok"
          /\ split = SplitIntoTwo(right, b, new_size)
      BY <1>6, <1>8, <2>10
    <3> QED
      BY <1>10, <2>4, <2>6, <3>1, SplitKeeps
  <2>11. ~rewound' => KeptInv'
    <3>1. CASE merged
      BY <2>5, <2>6, <2>9, <3>1 DEF KeptInv, NoFree, Outcomes
    <3>2. CASE resized
      <4>1. ~rewound' => ~CutsTail(right, b, new_size)
        BY <1>4, <3>2
      <4>2. ~rewound' => block_count' = Cardinality(DOMAIN hdr')
        BY <1>4, <2>5, <2>10, <3>2, <4>1
      <4>3. NoFree(hdr') /\ status' = "held"
        BY <1>4, <2>10, <3>2
      <4> QED
        BY <4>2, <4>3 DEF KeptInv, NoFree, Outcomes
    <3> QED
      BY <1>5, <2>2, <3>1, <3>2
  <2>12. /\ InUse(hdr') = InUse(hdr) /\ status' # "ok" /\ Listed(hdr')
         /\ \A c \in InUse(hdr) \ {b} : hdr'[c].size = hdr[c].size
    <3>1. CASE merged
      <4>1. b \in InUse(right)
        BY <2>4, <2>5 DEF InUse
      <4>2. InUse(right) = InUse(hdr)
        <5>1. InUse(right) \ {b} = InUse(hdr) \ {b}
          BY <2>5 DEF SameBut
        <5> QED
          BY <2>1, <4>1, <5>1
      <4>3. \A c \in InUse(hdr) \ {b} : right[c].size = hdr[c].size
        BY <2>5 DEF SameBut
      <4>4. hdr' = right /\ status' # "ok"
        BY <2>9, <3>1
      <4> QED
        BY <2>4, <4>2, <4>3, <4>4
    <3>2. CASE resized
      <4>1. status' = "held" /\ hdr' = split
        BY <1>4, <3>2
      <4>2. InUse(split) = InUse(hdr)
        <5>1. InUse(split) \ {b} = InUse(hdr) \ {b} /\ b \in InUse(split)
          BY <2>5, <2>10, <3>2 DEF SameBut
        <5> QED
          BY <2>1, <5>1
      <4>3. \A c \in InUse(hdr) \ {b} : split[c].size = hdr[c].size
        BY <2>5, <2>10, <3>2 DEF SameBut
      <4>4. Listed(split)
        BY <1>11, <3>2
      <4> QED
        BY <4>1, <4>2, <4>3, <4>4
    <3> QED
      BY <1>5, <2>2, <3>1, <3>2
  <2>13. \A c \in InUse(hdr) :
            c \in Int /\ Payload(c) < HEAP_SIZE /\ Payload(c) \in DOMAIN live
    BY <1>1, <1>14, HeldInside
  <2> DEFINE r == RegionsOf(hdr, live)
             s == RegionsOf(hdr', live')
  <2>14. Regions = r /\ Regions' = s
    BY DEF Regions, RegionsOf, InUse
  <2>15. /\ DOMAIN r = {Payload(c) : c \in InUse(hdr)}
         /\ \A c \in InUse(hdr) : r[Payload(c)] = RegionOf(hdr, live, c)
    <3>1. DOMAIN hdr \subseteq Int
      BY <2>4, HeapAssumption DEF Listed, Addresses
    <3> QED
      BY <3>1, RegionsFields
  <2>16. /\ DOMAIN s = {Payload(c) : c \in InUse(hdr)}
         /\ \A c \in InUse(hdr) : s[Payload(c)] = RegionOf(hdr', live, c)
    <3>1. DOMAIN hdr' \subseteq Int
      BY <2>12, HeapAssumption DEF Listed, Addresses
    <3>2. /\ DOMAIN s = {Payload(c) : c \in InUse(hdr')}
          /\ \A c \in InUse(hdr') : s[Payload(c)] = RegionOf(hdr', live', c)
      BY <3>1, RegionsFields
    <3> HIDE DEF s
    <3>3. InUse(hdr') = InUse(hdr) /\ live' = live
      BY <1>1, <2>12
    <3> QED
      BY <3>2, <3>3
  <2>17. Promise!Apart(s)
    BY <2>12, <2>13, RegionsApart
  <2>18. ASSUME NEW p \in DOMAIN r \ {ptr} PROVE s[p] = r[p]
    <3>1. PICK c \in InUse(hdr) : p = Payload(c)
      BY <2>15
    <3>2. /\ r[p] = RegionOf(hdr, live, c) /\ s[p] = RegionOf(hdr', live, c)
          /\ c # b
      BY <2>1, <2>15, <2>16, <3>1
    <3>3. hdr'[c].size = hdr[c].size
      BY <2>12, <3>2
    <3> QED
      BY <3>2, <3>3 DEF RegionOf
  <2>19. DOMAIN s = DOMAIN r /\ ptr \in DOMAIN r
    BY <2>1, <2>15, <2>16
  <2> HIDE DEF r, s
  <2>20. Promise!Resize(ptr)
    BY <1>1, <2>12, <2>14, <2>17, <2>18, <2>19
    DEF Promise!Resize, Promise!SameBut
  <2> QED
    BY <2>11, <2>14, <2>19, <2>20 DEF Promise!Next
<1> QED
  BY <1>12, <1>13, <1>14 DEF IInv

-----------------------------------------------------------------------------
(* The theorems.                                                           *)

\* Every step is one of the entry points'.
LEMMA EveryStep ==
    ASSUME IInv, Next
    PROVE  IInv' /\ (~rewound => Promise!Next)
<1>1. ASSUME NEW req \in Requests, HeapAlloc(req)
      PROVE  IInv' /\ (~rewound => Promise!Next)
  BY <1>1, AllocFirstStep, AllocReuseStep, AllocAppendStep DEF HeapAlloc
<1> QED
  BY <1>1, FreeStep, ReallocStep DEF Next

\* The list of heap.c is well formed in every state, whatever sequence of calls
\* led there; and until block_count is lost, what the callers hold agrees with
\* it.
THEOREM Inductive == Spec => []IInv
<1>1. Init => IInv
  <2>1. SUFFICES ASSUME Init PROVE IInv
    OBVIOUS
  <2>2. /\ hdr = NoBlocks /\ block_count = 0 /\ status = "ok" /\ ~rewound
        /\ DOMAIN live = {} /\ live = [p \in {} |-> 0] /\ DOMAIN hdr = {}
        /\ rewound = FALSE
    BY <2>1 DEF Init, NoBlocks
  <2>3. TypeInv
    <3>1. DOMAIN live \subseteq Addresses /\ live \in [DOMAIN live -> Requests]
      BY <2>2
    <3>2. rewound \in BOOLEAN
      BY <2>1, Zenon DEF Init
    <3>3. block_count \in Int /\ status \in Outcomes \cup Assertions
      BY <2>2 DEF Outcomes
    <3> QED
      BY <3>1, <3>2, <3>3 DEF TypeInv
  <2>4. HeldInv /\ NoFree(hdr)
    BY <2>2 DEF HeldInv, InUse, NoFree
  <2>5. KeptInv
    BY <2>2, <2>4, FS_EmptySet DEF KeptInv, Outcomes
  <2> QED
    BY <2>2, <2>3, <2>5 DEF IInv, ListInv
<1>2. IInv /\ [Next]_vars => IInv'
  <2>1. ASSUME IInv, UNCHANGED vars PROVE IInv'
    BY <2>1
    DEF IInv, TypeInv, ListInv, KeptInv, HeldInv, NoFree, RightIsFree, vars
  <2> QED
    BY <2>1, EveryStep
<1> QED
  BY <1>1, <1>2, PTL DEF Spec

\* Every field stays in its range, whatever is freed or reallocated, and even
\* after block_count has been lost.
THEOREM TypeCorrect == Spec => []TypeOK
<1>1. IInv => TypeOK
  <2>1. SUFFICES ASSUME IInv PROVE TypeOK
    OBVIOUS
  <2>2. DOMAIN hdr \subseteq Addresses /\ hdr \in [DOMAIN hdr -> BlockType]
    <3>1. CASE hdr = NoBlocks
      BY <3>1 DEF NoBlocks
    <3>2. CASE Listed(hdr)
      BY <3>2 DEF Listed
    <3> QED
      BY <2>1, <3>1, <3>2 DEF IInv, ListInv
  <2> QED
    BY <2>1, <2>2 DEF TypeOK, IInv, TypeInv
<1> QED
  BY <1>1, Inductive, PTL

\* Splits, merges and appends keep the blocks tiling the arena, linked both
\* ways, and counted.
THEOREM BlocksTileArena == Spec => []ListTilesArena
<1>1. IInv => ListTilesArena
  BY DEF IInv, KeptInv, ListInv, Listed, ListTilesArena
<1> QED
  BY <1>1, Inductive, PTL

\* No call leaves two neighbouring blocks free.
THEOREM NeighborsMerge == Spec => []NoFreeNeighbors
<1>1. IInv => NoFreeNeighbors
  BY DEF IInv, KeptInv, NoFree, NoFreeNeighbors
<1> QED
  BY <1>1, Inductive, PTL

\* None of heap.c's assertions fails for callers that pass what they hold.
THEOREM AssertionsHold == Spec => []NoAssertionFails
<1>1. IInv => NoAssertionFails
  BY DEF IInv, KeptInv, NoAssertionFails
<1> QED
  BY <1>1, Inductive, PTL

\* Until block_count is lost, every call is one of RegionAllocator's: what its
\* callers hold never moves, shrinks or overlaps.
THEOREM Refinement == Spec => HeapKeepsPromise
<1>1. Init => Promise!Init
  <2>1. SUFFICES ASSUME Init PROVE Promise!Init
    OBVIOUS
  <2>2. DOMAIN hdr = {} /\ status = "ok"
    BY <2>1 DEF Init, NoBlocks
  <2>3. {Payload(b) : b \in {b \in DOMAIN hdr : ~hdr[b].free}} = {}
    BY <2>2
  <2> QED
    BY <2>2, <2>3 DEF Promise!Init, Regions
<1>2. IInv /\ [Next]_vars => [~rewound => Promise!Next]_(Promise!vars)
  <2>1. ASSUME UNCHANGED vars PROVE UNCHANGED Promise!vars
    BY <2>1 DEF vars, Promise!vars, Regions
  <2> QED
    BY <2>1, EveryStep
<1> QED
  BY <1>1, <1>2, Inductive, PTL DEF Spec, HeapKeepsPromise
=============================================================================
