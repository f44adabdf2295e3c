---------------------------- MODULE ProcessProofs ---------------------------
(***************************************************************************)
(* For any number of processes, frames, kernel pages and list nodes:       *)
(* process_init and process_allocate_page implement AddressSpaces, what a  *)
(* process reaches is what its list says, no kernel page is left that maps *)
(* a process's page, and no assertion fails but for want of memory.        *)
(***************************************************************************)
EXTENDS Process, WellFoundedInduction, TLAPS

Stages == {"none", "directory", "code", "handle", "copied", "stack", "done"}
Steps == {"none", "table", "search", "map"}

Calls == [proc : Procs \cup {NoProc}, address : Address \cup {<<0, 0>>},
          step : Steps]
TableNodes == [page : KernelPages, physical : Frames]
PageNodes == [page : Address, physical : Frames]

TypeInv ==
    /\ used \subseteq Frames
    /\ kernel_map \in [KernelPages -> Frames \cup {Null, KernelImage}]
    /\ content \in [Frames -> [Entries -> Frames \cup {Null}]]
    /\ directory \in [Procs -> [Tables -> Frames \cup {Null}]]
    /\ page_tables \in [Procs -> Seq(TableNodes)]
    /\ pages \in [Procs -> Seq(PageNodes)]
    /\ kernel_stack \in [Procs -> KernelPages \cup {Null}]
    /\ dir_page \in [Procs -> KernelPages \cup {Null}]
    /\ handle \in KernelPages \cup {Null}
    /\ making \in Procs \cup {NoProc}
    /\ stage \in Stages
    /\ call \in Calls
    /\ nodes \in Nat
    /\ status \in {"ok"} \cup OutOfMemory

\* What the kernel maps, and what processes were given, is in use; the two meet
\* in the handle only.
KernelInv ==
    /\ \A k \in KernelPages : kernel_map[k] \in used \cup {Null, KernelImage}
    /\ \A p \in Procs : PagesOf(p) \subseteq used
    /\ \A k \in KernelPages, p \in Procs :
            kernel_map[k] \in PagesOf(p) => k = handle

\* The addresses a process was given.
Given(p) == {pages[p][n].page : n \in DOMAIN pages[p]}

\* How far process_init is with the process it makes.
MakingInv ==
    /\ stage = "none" <=> making = NoProc
    /\ handle # Null <=> stage = "copied"
    /\ making # NoProc => kernel_stack[making] # Null
    /\ stage = "directory" => dir_page[making] = Null
    /\ stage \in {"code", "handle", "copied", "stack"} =>
           dir_page[making] # Null
    /\ stage = "code" => Given(making) = {}
    /\ stage = "handle" =>
            Given(making) = IF call = NoCall THEN {CodePage} ELSE {}
    /\ stage \in {"copied", "stack"} => Given(making) = {CodePage}
    /\ stage = "done" /\ call # NoCall => Given(making) = {CodePage}
    /\ \A p \in Procs : kernel_stack[p] = Null => dir_page[p] = Null
    /\ \A p \in Procs : dir_page[p] = Null =>
            Given(p) = {} /\ \A i \in Tables : directory[p][i] = Null

\* The call of process_allocate_page: its address is a new one.
CallInv ==
    /\ call.step = "none" <=> call = NoCall
    /\ call # NoCall =>
         /\ call.proc \in Procs /\ call.address \in Address
         /\ dir_page[call.proc] # Null
         /\ call.address \notin Given(call.proc)
         /\ IF making = NoProc THEN stage = "none"
            ELSE /\ call.proc = making
                 /\ \/ stage = "handle" /\ call.address = CodePage
                    \/ stage = "done" /\ call.address = StackPage
    /\ call.step \in {"search", "map"} =>
            directory[call.proc][call.address[1]] # Null

\* A frame is one page table of one process, and on its list.
TableInv ==
    /\ \A p \in Procs, i \in Tables :
         /\ directory[p][i] \in used \cup {Null}
         /\ directory[p][i] # Null => Search(page_tables[p], directory[p][i])
    /\ \A p, q \in Procs, i, j \in Tables :
         directory[p][i] # Null /\ directory[p][i] = directory[q][j] =>
             p = q /\ i = j

\* What the MMU finds is what the list says.
ListInv ==
    \A p \in Procs :
        /\ \A n \in DOMAIN pages[p] :
             LET a == pages[p][n].page IN
             /\ directory[p][a[1]] # Null
             /\ content[directory[p][a[1]]][a[2]] = pages[p][n].physical
        /\ \A a \in Address :
             directory[p][a[1]] # Null =>
                \/ content[directory[p][a[1]]][a[2]] = Null
                \/ a \in Given(p)

\* A kernel that has failed an assertion is stopped wherever it was.
IInv ==
    /\ TypeInv /\ KernelInv
    /\ status = "ok" => MakingInv /\ CallInv /\ TableInv /\ ListInv

-----------------------------------------------------------------------------
(* Lists and what is free.                                                 *)

\* What the appends of pagelist_add leave of a list, and add to it.
LEMMA Appended ==
    ASSUME NEW S, NEW s \in Seq(S), NEW x \in S
    PROVE  /\ Append(s, x) \in Seq(S)
           /\ DOMAIN Append(s, x) = DOMAIN s \cup {Len(s) + 1}
           /\ \A n \in DOMAIN s : Append(s, x)[n] = s[n]
           /\ Append(s, x)[Len(s) + 1] = x
  OBVIOUS

\* Of the frames or pages of a set, if it has any, one is the lowest.
LEMMA LeastOfNats ==
    ASSUME NEW S, S \subseteq Nat, S # {}
    PROVE  \E m \in S : \A n \in S : m <= n
<1> DEFINE R == OpToRel(<, Nat)
<1>1. IsWellFoundedOn(R, Nat)
  BY NatLessThanWellFounded, Zenon
<1>2. PICK m \in S : \A n \in S : ~(<<n, m>> \in R)
  BY <1>1, WFMin, Zenon
<1>3. \A n \in S : ~(n < m)
  BY <1>2 DEF OpToRel
<1> QED
  BY <1>3

\* The frame mem.c finds is one it has not given to anybody.
LEMMA FrameIsFresh ==
    ASSUME TypeInv, FreeFrames # {}
    PROVE  /\ Lowest(FreeFrames) \in Frames \ used
           /\ Lowest(FreeFrames) \notin {Null, KernelImage}
<1>1. FreeFrames \subseteq Nat /\ FreeFrames \subseteq Frames \ used
  BY ProcessAssumption DEF FreeFrames
<1>2. Lowest(FreeFrames) \in FreeFrames
  BY <1>1, LeastOfNats DEF Lowest
<1> QED
  BY <1>1, <1>2, ProcessAssumption DEF Null

\* The page paging.c finds is one that maps nothing.
LEMMA PageIsFresh ==
    ASSUME TypeInv, FreePages # {}
    PROVE  /\ Lowest(FreePages) \in KernelPages \ {Null}
           /\ kernel_map[Lowest(FreePages)] = Null
<1>1. FreePages \subseteq Nat /\ FreePages \subseteq KernelPages
  BY ProcessAssumption DEF FreePages
<1>2. Lowest(FreePages) \in FreePages
  BY <1>1, LeastOfNats DEF Lowest
<1> QED
  BY <1>1, <1>2, ProcessAssumption DEF FreePages, Null

\* page_alloc_kernel_random takes nothing that is in use, whether it finds a
\* page or not.
LEMMA TakePageKeeps ==
    ASSUME TypeInv, KernelInv, TakePage, UNCHANGED <<pages, handle>>
    PROVE  /\ used \subseteq used' /\ used' \subseteq Frames
           /\ kernel_map' \in [KernelPages -> Frames \cup {Null, KernelImage}]
           /\ KernelInv'
           /\ PageOutcome \in {"ok"} \cup OutOfMemory
<1>1. /\ kernel_map \in [KernelPages -> Frames \cup {Null, KernelImage}]
      /\ used \subseteq Frames /\ handle' = handle
      /\ \A p \in Procs : PagesOf(p)' = PagesOf(p) /\ PagesOf(p) \subseteq used
  BY DEF TypeInv, PagesOf, KernelInv
<1>2. CASE FreeFrames = {}
  <2>1. /\ used' = used /\ kernel_map' = kernel_map
        /\ PageOutcome = "Physical memory alloc error"
    BY <1>2 DEF TakePage, PageOutcome
  <2>2. KernelInv'
    BY <1>1, <2>1 DEF KernelInv
  <2> QED
    BY <1>1, <2>1, <2>2 DEF OutOfMemory
<1>3. CASE FreeFrames # {}
  <2> DEFINE f == Lowest(FreeFrames)
             k == Lowest(FreePages)
  <2>1. f \in Frames \ used /\ f \notin {Null, KernelImage}
    BY <1>3, FrameIsFresh
  <2>2. used' = used \cup {f}
    BY <1>3 DEF TakePage
  <2>3. PageOutcome = IF FreePages = {} THEN "virtual memory alloc error"
                                        ELSE "ok"
    BY <1>3 DEF PageOutcome
  <2>4. CASE FreePages = {}
    <3>1. kernel_map' = kernel_map
      BY <2>3, <2>4 DEF TakePage
    <3> HIDE DEF f, k
    <3>2. KernelInv'
      BY <1>1, <2>2, <3>1 DEF KernelInv
    <3> QED
      BY <1>1, <2>1, <2>2, <2>3, <2>4, <3>1, <3>2 DEF OutOfMemory
  <2>5. CASE FreePages # {}
    <3>1. k \in KernelPages \ {Null}
      BY <2>5, PageIsFresh
    <3>2. kernel_map' = [kernel_map EXCEPT ![k] = f]
      BY <2>3, <2>5 DEF TakePage
    <3> HIDE DEF f, k
    <3>3. kernel_map' \in [KernelPages -> Frames \cup {Null, KernelImage}]
      BY <1>1, <2>1, <3>2
    <3>4. kernel_map'[k] = f /\ \A j \in KernelPages \ {k} :
                                    kernel_map'[j] = kernel_map[j]
      BY <1>1, <3>1, <3>2
    <3>5. \A j \in KernelPages :
              kernel_map'[j] \in used' \cup {Null, KernelImage}
      BY <2>2, <3>4 DEF KernelInv
    <3>6. \A j \in KernelPages, p \in Procs :
              kernel_map'[j] \in PagesOf(p) => j = handle
      BY <1>1, <2>1, <3>4 DEF KernelInv
    <3>7. KernelInv'
      BY <1>1, <2>2, <3>5, <3>6 DEF KernelInv
    <3> QED
      BY <1>1, <2>1, <2>2, <2>3, <2>5, <3>3, <3>7
  <2> QED
    BY <2>4, <2>5
<1> QED
  BY <1>2, <1>3

\* Steps that leave the lists, the directories and the tables alone.
LEMMA SpacesStill ==
    ASSUME IInv, status = "ok", TypeInv', KernelInv', used \subseteq used',
           UNCHANGED <<content, directory, page_tables, pages>>,
           status' = "ok" => MakingInv' /\ CallInv'
    PROVE  IInv'
<1>1. TableInv /\ ListInv
  BY DEF IInv
<1>2. TableInv'
  BY <1>1 DEF TableInv, Search
<1>3. ListInv'
  BY <1>1 DEF ListInv, Given
<1> QED
  BY <1>2, <1>3 DEF IInv

-----------------------------------------------------------------------------
(* The steps of process_init.                                              *)

\* The stack in the kernel: making a process begins.
LEMMA InitStackIInv ==
    ASSUME IInv, NEW p \in Procs, InitStack(p)
    PROVE  IInv'
<1>1. /\ TypeInv /\ KernelInv /\ MakingInv /\ CallInv
      /\ status = "ok" /\ call = NoCall /\ making = NoProc
      /\ kernel_stack[p] = Null
  BY DEF IInv, InitStack, Idle
<1>2. /\ making' = p /\ p # NoProc
      /\ UNCHANGED <<content, directory, page_tables, pages, nodes, dir_page,
                     handle, call>>
  BY ProcessAssumption DEF InitStack, lists
<1>3. CASE FreePages = {} \/ FreeFrames = {}
  <2>1. /\ UNCHANGED <<used, kernel_map, kernel_stack, stage>>
        /\ status' \in OutOfMemory
    BY <1>3 DEF InitStack, OutOfMemory
  <2>2. TypeInv'
    BY <1>1, <1>2, <2>1 DEF TypeInv
  <2>3. KernelInv'
    BY <1>1, <1>2, <2>1 DEF KernelInv, PagesOf
  <2> QED
    BY <1>1, <1>2, <2>1, <2>2, <2>3, SpacesStill DEF OutOfMemory
<1>4. CASE FreePages # {} /\ FreeFrames # {}
  <2> DEFINE k == Lowest(FreePages)
  <2>1. /\ TakePage /\ status' = status
        /\ kernel_stack' = [kernel_stack EXCEPT ![p] = k]
        /\ stage' = IF p \in KernelProcs THEN "done" ELSE "directory"
    BY <1>4 DEF InitStack
  <2>2. k \in KernelPages \ {Null}
    BY <1>1, <1>4, PageIsFresh
  <2> HIDE DEF k
  <2>3. /\ used \subseteq used' /\ used' \subseteq Frames /\ KernelInv'
        /\ kernel_map' \in [KernelPages -> Frames \cup {Null, KernelImage}]
    BY <1>1, <1>2, <2>1, TakePageKeeps
  <2>4. /\ kernel_stack' \in [Procs -> KernelPages \cup {Null}]
        /\ kernel_stack'[p] = k
        /\ \A q \in Procs \ {p} : kernel_stack'[q] = kernel_stack[q]
    BY <1>1, <2>1, <2>2 DEF TypeInv
  <2>5. stage' \in {"done", "directory"}
    BY <2>1
  <2>6. TypeInv'
    BY <1>1, <1>2, <2>1, <2>3, <2>4, <2>5 DEF TypeInv, Stages
  <2>7. MakingInv'
    <3>1. \A q \in Procs : Given(q)' = Given(q)
      BY <1>2 DEF Given
    <3>2. handle = Null /\ dir_page[p] = Null /\ making' # NoProc /\ making' = p
      BY <1>1, <1>2 DEF MakingInv
    <3>3. \A q \in Procs : kernel_stack'[q] = Null => kernel_stack[q] = Null
      BY <2>2, <2>4
    <3>4. /\ call' = NoCall /\ handle' = Null /\ dir_page' = dir_page
          /\ directory' = directory
      BY <1>1, <1>2, <3>2
    <3> QED
      BY <1>1, <2>2, <2>4, <2>5, <3>1, <3>2, <3>3, <3>4 DEF MakingInv
  <2>8. CallInv'
    BY <1>1, <1>2 DEF CallInv, NoCall
  <2> QED
    BY <1>1, <1>2, <2>3, <2>6, <2>7, <2>8, SpacesStill
<1> QED
  BY <1>3, <1>4

\* The directory: it was empty, and starts out empty.
LEMMA InitDirectoryIInv ==
    ASSUME IInv, InitDirectory
    PROVE  IInv' /\ directory' = directory
<1>1. /\ TypeInv /\ KernelInv /\ MakingInv /\ CallInv
      /\ status = "ok" /\ call = NoCall /\ stage = "directory"
  BY DEF IInv, InitDirectory, Idle
<1>2. /\ making \in Procs /\ dir_page[making] = Null /\ handle = Null
      /\ kernel_stack[making] # Null
  BY <1>1 DEF MakingInv, TypeInv
<1>3. /\ UNCHANGED <<content, page_tables, pages, nodes, kernel_stack, handle,
                     making, call>>
      /\ TakePage /\ status' = PageOutcome
  BY DEF InitDirectory, lists
<1>4. /\ used \subseteq used' /\ used' \subseteq Frames /\ KernelInv'
      /\ kernel_map' \in [KernelPages -> Frames \cup {Null, KernelImage}]
      /\ status' \in {"ok"} \cup OutOfMemory
  BY <1>1, <1>3, TakePageKeeps
<1>5. CASE status' # "ok"
  <2>1. UNCHANGED <<dir_page, directory, stage>>
    BY <1>5 DEF InitDirectory
  <2>2. TypeInv'
    BY <1>1, <1>3, <1>4, <2>1 DEF TypeInv
  <2> QED
    BY <1>1, <1>3, <1>4, <1>5, <2>1, <2>2, SpacesStill
<1>6. CASE status' = "ok"
  <2> DEFINE k == Lowest(FreePages)
  <2>1. /\ dir_page' = [dir_page EXCEPT ![making] = k]
        /\ directory' = [directory EXCEPT ![making] = [i \in Tables |-> Null]]
        /\ stage' = "code"
    BY <1>6 DEF InitDirectory
  <2>2. k \in KernelPages \ {Null}
    <3>1. FreePages # {}
      BY <1>3, <1>6 DEF PageOutcome
    <3> QED
      BY <1>1, <3>1, PageIsFresh
  <2> HIDE DEF k
  <2>3. directory' = directory
    <3>1. directory[making] = [i \in Tables |-> Null]
      BY <1>1, <1>2 DEF MakingInv, TypeInv
    <3> QED
      BY <1>1, <1>2, <2>1, <3>1 DEF TypeInv
  <2>4. /\ dir_page' \in [Procs -> KernelPages \cup {Null}]
        /\ dir_page'[making] = k
        /\ \A q \in Procs \ {making} : dir_page'[q] = dir_page[q]
    BY <1>1, <1>2, <2>1, <2>2 DEF TypeInv
  <2>5. TypeInv'
    BY <1>1, <1>3, <1>4, <2>1, <2>3, <2>4 DEF TypeInv, Stages
  <2>6. MakingInv'
    <3>1. \A q \in Procs : Given(q)' = Given(q)
      BY <1>3 DEF Given
    <3>2. /\ making \in Procs /\ making # NoProc /\ Given(making) = {}
          /\ handle = Null
      BY <1>1, <1>2 DEF MakingInv
    <3>3. \A q \in Procs : dir_page'[q] = Null => dir_page[q] = Null
      BY <2>2, <2>4
    <3>4. \A q \in Procs : kernel_stack[q] = Null => dir_page'[q] = Null
      BY <1>1, <1>2, <2>4 DEF MakingInv
    <3> QED
      BY <1>1, <1>2, <1>3, <2>1, <2>2, <2>3, <2>4, <3>1, <3>2, <3>3, <3>4
      DEF MakingInv
  <2>7. CallInv'
    BY <1>1, <1>3 DEF CallInv, NoCall
  <2> QED
    BY <1>1, <1>3, <1>4, <2>3, <2>5, <2>6, <2>7, SpacesStill
<1> QED
  BY <1>5, <1>6

\* process_init calls process_allocate_page, for the code and for the stack.
LEMMA BeginIInv ==
    ASSUME IInv, NEW p \in Procs, NEW address \in Address, Begin(p, address),
           Idle, dir_page[p] # Null, address \notin Given(p),
           \/ making = NoProc /\ stage' = "none"
           \/ /\ making = p
              /\ \/ stage = "code" /\ stage' = "handle" /\ address = CodePage
                 \/ stage = "stack" /\ stage' = "done" /\ address = StackPage
    PROVE  IInv'
<1>1. /\ TypeInv /\ KernelInv /\ MakingInv
      /\ status = "ok" /\ call = NoCall
  BY DEF IInv, Idle
<1>2. /\ UNCHANGED <<used, kernel_map, content, directory, page_tables, pages,
                     nodes, kernel_stack, dir_page, handle, making, status>>
      /\ call' = [proc |-> p, address |-> address, step |-> "table"]
  BY DEF Begin, memory, lists
<1>3. /\ call' \in Calls /\ call' # NoCall /\ call'.proc = p
      /\ call'.address = address /\ call'.step = "table"
  BY <1>2 DEF Calls, Steps, NoCall
<1>4. making = NoProc => stage = "none"
  BY <1>1 DEF MakingInv
<1>5. TypeInv'
  BY <1>1, <1>2, <1>3, <1>4 DEF TypeInv, Stages
<1>6. KernelInv'
  BY <1>1, <1>2 DEF KernelInv, PagesOf
<1>7. MakingInv'
  <2>1. \A q \in Procs : Given(q)' = Given(q)
    BY <1>2 DEF Given
  <2>2. /\ making \in Procs \cup {NoProc} /\ NoProc \notin Procs
        /\ stage = "none" <=> making = NoProc
    BY <1>1, ProcessAssumption DEF TypeInv, MakingInv
  <2>3. CASE making = NoProc
    BY <1>1, <1>2, <1>3, <2>1, <2>2, <2>3 DEF MakingInv
  <2>4. CASE making = p
    BY <1>1, <1>2, <1>3, <2>1, <2>2, <2>4 DEF MakingInv
  <2> QED
    BY <2>3, <2>4
<1>8. CallInv'
  BY <1>1, <1>2, <1>3, <1>4, ProcessAssumption DEF CallInv, Given
<1> QED
  BY <1>1, <1>2, <1>5, <1>6, <1>7, <1>8, SpacesStill

\* The two pages process_init asks for are two.
LEMMA CodeAndStack ==
    /\ CodePage \in Address /\ StackPage \in Address /\ CodePage # StackPage
  BY ProcessAssumption DEF CodePage, StackPage

\* The code page is asked for: the process has no page yet.
LEMMA InitCodeIInv ==
    ASSUME IInv, InitCode
    PROVE  IInv'
<1>1. /\ TypeInv /\ MakingInv /\ Idle /\ stage = "code" /\ stage' = "handle"
      /\ Begin(making, CodePage)
  BY DEF IInv, InitCode, Idle
<1>2. making \in Procs /\ dir_page[making] # Null /\ Given(making) = {}
  BY <1>1 DEF MakingInv, TypeInv
<1> QED
  BY <1>1, <1>2, BeginIInv, CodeAndStack

\* The stack page is asked for: the process has its code page only.
LEMMA InitUserStackIInv ==
    ASSUME IInv, InitUserStack
    PROVE  IInv'
<1>1. /\ TypeInv /\ MakingInv /\ Idle /\ stage = "stack" /\ stage' = "done"
      /\ Begin(making, StackPage)
  BY DEF IInv, InitUserStack, Idle
<1>2. making \in Procs /\ dir_page[making] # Null /\ Given(making) = {CodePage}
  BY <1>1 DEF MakingInv, TypeInv
<1> QED
  BY <1>1, <1>2, BeginIInv, CodeAndStack

\* Another page is asked for, of a process that is ready.
LEMMA AllocatePageIInv ==
    ASSUME IInv, NEW p \in Procs, NEW address \in Extra,
           AllocatePage(p, address)
    PROVE  IInv'
<1>1. /\ Idle /\ making = NoProc /\ dir_page[p] # Null /\ stage' = stage
      /\ Begin(p, address) /\ address \notin Given(p)
  BY DEF AllocatePage, Given
<1>2. stage = "none"
  BY <1>1 DEF IInv, MakingInv, Idle
<1>3. address \in Address
  BY ProcessAssumption
<1> QED
  BY <1>1, <1>2, <1>3, BeginIInv

\* The code page is mapped in the kernel too, the only page of a process to be.
LEMMA InitHandleIInv ==
    ASSUME IInv, InitHandle
    PROVE  IInv'
<1>1. /\ TypeInv /\ KernelInv /\ MakingInv /\ CallInv
      /\ status = "ok" /\ call = NoCall /\ stage = "handle"
  BY DEF IInv, InitHandle, Idle
<1>2. /\ making \in Procs /\ making # NoProc /\ handle = Null
      /\ Given(making) = {CodePage}
  BY <1>1 DEF MakingInv, TypeInv
<1>3. /\ UNCHANGED <<used, content, directory, page_tables, pages, nodes,
                     kernel_stack, dir_page, making, call>>
      /\ \A q \in Procs : Given(q)' = Given(q) /\ PagesOf(q)' = PagesOf(q)
  BY DEF InitHandle, lists, Given, PagesOf
<1>4. CASE FreePages = {}
  <2>1. /\ UNCHANGED <<kernel_map, handle, stage>>
        /\ status' = "virtual memory alloc error"
    BY <1>4 DEF InitHandle
  <2>2. TypeInv'
    BY <1>1, <1>3, <2>1 DEF TypeInv, OutOfMemory
  <2>3. KernelInv'
    BY <1>1, <1>3, <2>1 DEF KernelInv
  <2> QED
    BY <1>1, <1>3, <2>1, <2>2, <2>3, SpacesStill
<1>5. CASE FreePages # {}
  <2> DEFINE k == Lowest(FreePages)
             f == Last(pages[making]).physical
  <2>1. /\ handle' = k /\ kernel_map' = [kernel_map EXCEPT ![k] = f]
        /\ stage' = "copied" /\ status' = status
    BY <1>5 DEF InitHandle
  <2>2. k \in KernelPages \ {Null}
    BY <1>1, <1>5, PageIsFresh
  <2>3. f \in used /\ used \subseteq Frames
    <3>1. pages[making] \in Seq(PageNodes)
      BY <1>1, <1>2 DEF TypeInv
    <3>2. Len(pages[making]) \in DOMAIN pages[making]
      <4>1. PICK n \in DOMAIN pages[making] : pages[making][n].page = CodePage
        BY <1>2 DEF Given
      <4> QED
        BY <3>1, <4>1
    <3>3. f \in PagesOf(making)
      BY <3>2 DEF PagesOf, Last
    <3> QED
      BY <1>1, <1>2, <3>3 DEF KernelInv, TypeInv
  <2> HIDE DEF k, f
  <2>4. /\ kernel_map' \in [KernelPages -> Frames \cup {Null, KernelImage}]
        /\ kernel_map'[k] = f
        /\ \A j \in KernelPages \ {k} : kernel_map'[j] = kernel_map[j]
    BY <1>1, <2>1, <2>2, <2>3 DEF TypeInv
  <2>5. TypeInv'
    BY <1>1, <1>3, <2>1, <2>2, <2>4 DEF TypeInv, Stages
  <2>6. KernelInv'
    <3>1. \A j \in KernelPages, q \in Procs :
              kernel_map'[j] \in PagesOf(q) => j = k
      BY <1>1, <1>2, <2>4, ProcessAssumption DEF KernelInv, Null
    <3> QED
      BY <1>1, <1>3, <2>1, <2>3, <2>4, <3>1 DEF KernelInv
  <2>7. MakingInv'
    BY <1>1, <1>2, <1>3, <2>1, <2>2 DEF MakingInv
  <2>8. CallInv'
    BY <1>1, <1>3 DEF CallInv, NoCall
  <2> QED
    BY <1>1, <1>3, <2>1, <2>5, <2>6, <2>7, <2>8, SpacesStill
<1> QED
  BY <1>4, <1>5

\* page_free(code_page, 0): the kernel keeps no way to the page.
LEMMA InitFreeHandleIInv ==
    ASSUME IInv, InitFreeHandle
    PROVE  IInv'
<1>1. /\ TypeInv /\ KernelInv /\ MakingInv /\ CallInv
      /\ status = "ok" /\ call = NoCall /\ stage = "copied"
  BY DEF IInv, InitFreeHandle, Idle
<1>2. /\ making \in Procs /\ making # NoProc /\ handle \in KernelPages
      /\ Given(making) = {CodePage}
  BY <1>1 DEF MakingInv, TypeInv
<1>3. /\ UNCHANGED <<used, content, directory, page_tables, pages, nodes,
                     kernel_stack, dir_page, making, call, status>>
      /\ kernel_map' = [kernel_map EXCEPT ![handle] = Null]
      /\ handle' = Null /\ stage' = "stack"
  BY DEF InitFreeHandle, lists
<1>4. \A q \in Procs : Given(q)' = Given(q) /\ PagesOf(q)' = PagesOf(q)
  BY <1>3 DEF Given, PagesOf
<1>5. /\ kernel_map' \in [KernelPages -> Frames \cup {Null, KernelImage}]
      /\ kernel_map'[handle] = Null
      /\ \A j \in KernelPages \ {handle} : kernel_map'[j] = kernel_map[j]
  BY <1>1, <1>2, <1>3 DEF TypeInv
<1>6. TypeInv'
  BY <1>1, <1>3, <1>5 DEF TypeInv, Stages
<1>7. KernelInv'
  <2>1. Null \notin used
    BY <1>1, ProcessAssumption DEF TypeInv, Null
  <2>2. \A j \in KernelPages, q \in Procs : kernel_map'[j] \notin PagesOf(q)
    BY <1>1, <1>5, <2>1 DEF KernelInv
  <2> QED
    BY <1>1, <1>3, <1>4, <1>5, <2>2 DEF KernelInv
<1>8. MakingInv'
  BY <1>1, <1>2, <1>3, <1>4 DEF MakingInv
<1>9. CallInv'
  BY <1>1, <1>3 DEF CallInv, NoCall
<1> QED
  BY <1>1, <1>3, <1>6, <1>7, <1>8, <1>9, SpacesStill

\* The process is ready.
LEMMA InitDoneIInv ==
    ASSUME IInv, InitDone
    PROVE  IInv'
<1>1. /\ TypeInv /\ KernelInv /\ MakingInv /\ CallInv
      /\ status = "ok" /\ call = NoCall /\ stage = "done"
  BY DEF IInv, InitDone, Idle
<1>2. /\ UNCHANGED <<used, kernel_map, content, directory, page_tables, pages,
                     nodes, kernel_stack, dir_page, handle, call, status>>
      /\ making' = NoProc /\ stage' = "none"
  BY DEF InitDone, memory, lists
<1>3. TypeInv'
  BY <1>1, <1>2 DEF TypeInv, Stages
<1>4. KernelInv'
  BY <1>1, <1>2 DEF KernelInv, PagesOf
<1>5. MakingInv'
  <2>1. handle = Null /\ \A q \in Procs : Given(q)' = Given(q)
    BY <1>1, <1>2 DEF MakingInv, Given
  <2> QED
    BY <1>1, <1>2, <2>1 DEF MakingInv
<1>6. CallInv'
  BY <1>1, <1>2 DEF CallInv, NoCall
<1> QED
  BY <1>1, <1>2, <1>3, <1>4, <1>5, <1>6, SpacesStill
-----------------------------------------------------------------------------
(* The steps of process_allocate_page.                                     *)

\* A call for which a table is there goes on.
LEMMA GoesOn ==
    ASSUME IInv, status = "ok", call # NoCall, NEW step \in {"search", "map"},
           UNCHANGED <<memory, lists, kernel_stack, dir_page, handle, making,
                       stage, status>>,
           call' = [call EXCEPT !.step = step],
           directory[call.proc][call.address[1]] # Null
    PROVE  IInv'
<1>1. TypeInv /\ KernelInv /\ MakingInv /\ CallInv
  BY DEF IInv
<1>2. UNCHANGED <<used, kernel_map, content, directory, page_tables, pages,
                  nodes,
                  kernel_stack, dir_page, handle, making, stage, status>>
  BY DEF memory, lists
<1>3. /\ call' \in Calls /\ call'.step = step /\ call'.proc = call.proc
      /\ call'.address = call.address
  BY <1>1 DEF TypeInv, Calls, Steps
<1>4. call' # NoCall
  BY <1>3 DEF NoCall
<1>5. \A q \in Procs : Given(q)' = Given(q) /\ PagesOf(q)' = PagesOf(q)
  BY <1>2 DEF Given, PagesOf
<1>6. TypeInv'
  BY <1>1, <1>2, <1>3 DEF TypeInv
<1>7. KernelInv'
  BY <1>1, <1>2, <1>5 DEF KernelInv
<1>8. MakingInv'
  <2>1. making \in Procs \cup {NoProc} /\ (making = NoProc => stage = "none")
    BY <1>1 DEF TypeInv, MakingInv
  <2> QED
    BY <1>1, <1>2, <1>4, <1>5, <2>1 DEF MakingInv
<1>9. CallInv'
  BY <1>1, <1>2, <1>3, <1>4, <1>5 DEF CallInv
<1> QED
  BY <1>2, <1>6, <1>7, <1>8, <1>9, SpacesStill

\* The table of the address is there.
LEMMA FindTableIInv ==
    ASSUME IInv, FindTable
    PROVE  IInv'
<1>1. call # NoCall
  BY DEF FindTable, NoCall
<1> QED
  BY <1>1, GoesOn DEF FindTable

\* No assertion fails: the table is on the list, and nothing is mapped at the
\* address.
LEMMA SearchSucceeds ==
    ASSUME IInv, SearchTable
    PROVE  /\ call # NoCall /\ directory[call.proc][call.address[1]] # Null
           /\ call' = [call EXCEPT !.step = "map"] /\ status' = status
<1>1. CallInv /\ TableInv /\ ListInv /\ call.step = "search"
  BY DEF IInv, SearchTable
<1>2. /\ call # NoCall /\ call.proc \in Procs /\ call.address \in Address
      /\ directory[call.proc][call.address[1]] # Null
      /\ call.address \notin Given(call.proc)
  BY <1>1 DEF CallInv, NoCall
<1>3. call.address[1] \in Tables
  BY <1>2 DEF Address
<1>4. Search(page_tables[call.proc], directory[call.proc][call.address[1]])
  BY <1>1, <1>2, <1>3 DEF TableInv
<1>5. content[directory[call.proc][call.address[1]]][call.address[2]] = Null
  BY <1>1, <1>2 DEF ListInv
<1> QED
  BY <1>2, <1>4, <1>5 DEF SearchTable

\* The table is found, and the address free.
LEMMA SearchTableIInv ==
    ASSUME IInv, SearchTable
    PROVE  IInv'
  BY SearchSucceeds, GoesOn DEF SearchTable

\* A call of process_allocate_page that is under way.
LEMMA Calling ==
    ASSUME IInv, status = "ok", call.step # "none"
    PROVE  /\ TypeInv /\ KernelInv /\ MakingInv
           /\ CallInv /\ TableInv /\ ListInv
           /\ call # NoCall /\ call.proc \in Procs /\ call.address \in Address
           /\ call.address[1] \in Tables /\ call.address[2] \in Entries
           /\ dir_page[call.proc] # Null
           /\ call.address \notin Given(call.proc)
           /\ making = NoProc => stage = "none"
           /\ making # NoProc =>
                /\ call.proc = making
                /\ \/ stage = "handle" /\ call.address = CodePage
                   \/ stage = "done" /\ call.address = StackPage
<1>1. TypeInv /\ KernelInv /\ MakingInv /\ CallInv /\ TableInv /\ ListInv
  BY DEF IInv
<1>2. call # NoCall
  BY DEF NoCall
<1> QED
  BY <1>1, <1>2 DEF CallInv, Address

\* A table more: nothing is in it, and nobody has its frame.
LEMMA NewTableIInv ==
    ASSUME IInv, NewTable
    PROVE  IInv'
<1> DEFINE p == call.proc
           i == call.address[1]
           f == Lowest(FreeFrames)
           k == Lowest(FreePages)
<1>1. /\ status = "ok" /\ call.step = "table" /\ directory[p][i] = Null
      /\ TakePage
      /\ UNCHANGED <<pages, handle, kernel_stack, dir_page, making, stage>>
  BY DEF NewTable, lists
<1>2. /\ TypeInv /\ KernelInv /\ MakingInv /\ CallInv /\ TableInv /\ ListInv
      /\ call # NoCall /\ p \in Procs /\ call.address \in Address
      /\ i \in Tables
      /\ dir_page[p] # Null /\ call.address \notin Given(p)
      /\ making = NoProc => stage = "none"
      /\ making # NoProc =>
           /\ p = making
           /\ \/ stage = "handle" /\ call.address = CodePage
              \/ stage = "done" /\ call.address = StackPage
  BY <1>1, Calling
<1>3. /\ used \subseteq used' /\ used' \subseteq Frames /\ KernelInv'
      /\ kernel_map' \in [KernelPages -> Frames \cup {Null, KernelImage}]
      /\ PageOutcome \in {"ok"} \cup OutOfMemory
  BY <1>1, <1>2, TakePageKeeps
<1>4. CASE PageOutcome # "ok"
  <2>1. /\ UNCHANGED <<content, directory, page_tables, nodes, call>>
        /\ status' = PageOutcome
    BY <1>4 DEF NewTable, lists
  <2>2. TypeInv'
    BY <1>1, <1>2, <1>3, <2>1 DEF TypeInv
  <2> QED
    BY <1>1, <1>3, <1>4, <2>1, <2>2, SpacesStill
<1>5. CASE PageOutcome = "ok"
  <2>1. /\ f \in Frames \ used /\ f # Null /\ k \in KernelPages
        /\ used' = used \cup {f}
    <3>1. FreeFrames # {} /\ FreePages # {}
      BY <1>5 DEF PageOutcome
    <3> QED
      BY <1>1, <1>2, <3>1, FrameIsFresh, PageIsFresh DEF TakePage
  <2>2. directory' = [directory EXCEPT ![p][i] = f]
    BY <1>5 DEF NewTable
  <2> HIDE DEF f, k
  <2>3. /\ directory' \in [Procs -> [Tables -> Frames \cup {Null}]]
        /\ directory'[p][i] = f
        /\ \A q \in Procs, j \in Tables : q # p \/ j # i =>
                directory'[q][j] = directory[q][j]
    BY <1>2, <2>1, <2>2 DEF TypeInv
  <2>4. CASE nodes = 0
    <3>1. /\ UNCHANGED <<content, page_tables, nodes, call>>
          /\ status' = "failed to allocate a page list node"
      BY <1>5, <2>4 DEF NewTable, lists
    <3>2. TypeInv'
      BY <1>1, <1>2, <1>3, <2>3, <3>1 DEF TypeInv, OutOfMemory
    <3> QED
      BY <1>3, <3>1, <3>2 DEF IInv
  <2>5. CASE nodes # 0
    <3> DEFINE old == page_tables[p]
               node == Node(k, f)
    <3>1. /\ page_tables' = [page_tables EXCEPT ![p] = Append(old, node)]
          /\ nodes' = nodes - 1 /\ status' = status
          /\ content' = [content EXCEPT ![f] = [e \in Entries |-> Null]]
          /\ call' = [call EXCEPT !.step = "search"]
      BY <1>5, <2>5 DEF NewTable, Cleared, f, k
    <3>2. /\ call' \in Calls /\ call'.step = "search" /\ call'.proc = p
          /\ call'.address = call.address
      BY <1>2, <3>1 DEF TypeInv, Calls, Steps
    <3>3. call' # NoCall
      BY <3>2 DEF NoCall
    <3>4. node \in TableNodes /\ node.physical = f
      BY <2>1 DEF Node, TableNodes
    <3>5. /\ Append(old, node) \in Seq(TableNodes)
          /\ DOMAIN Append(old, node) = DOMAIN old \cup {Len(old) + 1}
          /\ \A n \in DOMAIN old : Append(old, node)[n] = old[n]
          /\ Append(old, node)[Len(old) + 1] = node
      BY <1>2, <3>4, Appended DEF TypeInv
    <3>6. /\ page_tables' \in [Procs -> Seq(TableNodes)]
          /\ page_tables'[p] = Append(old, node)
          /\ \A q \in Procs \ {p} : page_tables'[q] = page_tables[q]
      BY <1>2, <3>1, <3>5 DEF TypeInv
    <3>7. /\ content' \in [Frames -> [Entries -> Frames \cup {Null}]]
          /\ \A e \in Entries : content'[f][e] = Null
          /\ \A g \in Frames \ {f} : content'[g] = content[g]
      BY <1>2, <2>1, <3>1 DEF TypeInv
    <3>8. \A q \in Procs : Given(q)' = Given(q)
      BY <1>1 DEF Given
    <3>9. TypeInv'
      <4>1. nodes' \in Nat
        BY <1>2, <2>5, <3>1 DEF TypeInv
      <4> QED
        BY <1>1, <1>2, <1>3, <2>3, <3>1, <3>2, <3>6, <3>7, <4>1 DEF TypeInv
    <3> HIDE DEF node, old, p, i
    <3>10. MakingInv'
      <4>1. \A q \in Procs : dir_page[q] = Null =>
                \A j \in Tables : directory'[q][j] = Null
        BY <1>2, <2>3 DEF MakingInv
      <4>2. /\ stage = "handle" => Given(making) = {}
            /\ stage # "none" => making # NoProc
            /\ making # NoProc => making \in Procs
            /\ stage \in {"none", "handle", "done"}
        BY <1>2 DEF MakingInv, TypeInv
      <4> QED
        BY <1>1, <1>2, <3>3, <3>8, <4>1, <4>2 DEF MakingInv
    <3>11. CallInv'
      BY <1>1, <1>2, <2>1, <2>3, <3>2, <3>3, <3>8 DEF CallInv, i
    <3>12. TableInv'
      <4>1. \A q \in Procs, j \in Tables :
                directory'[q][j] \in used' \cup {Null}
        BY <1>2, <2>1, <2>3 DEF TableInv
      <4>2. ASSUME NEW q \in Procs, NEW j \in Tables, directory'[q][j] # Null
            PROVE  Search(page_tables'[q], directory'[q][j])
        <5>1. CASE q = p /\ j = i
          BY <2>3, <3>4, <3>5, <3>6, <5>1 DEF Search
        <5>2. CASE q # p \/ j # i
          <6>1. directory'[q][j] = directory[q][j]
            BY <2>3, <5>2
          <6>2. Search(page_tables[q], directory'[q][j])
            BY <1>2, <4>2, <6>1 DEF TableInv
          <6>3. \A n \in DOMAIN page_tables[q] :
                    /\ n \in DOMAIN page_tables'[q]
                    /\ page_tables'[q][n] = page_tables[q][n]
            BY <3>5, <3>6 DEF old
          <6> QED
            BY <6>2, <6>3 DEF Search
        <5> QED
          BY <5>1, <5>2
      <4>3. ASSUME NEW q \in Procs, NEW r \in Procs, NEW j \in Tables,
                   NEW l \in Tables,
                   directory'[q][j] # Null, directory'[q][j] = directory'[r][l]
            PROVE  q = r /\ j = l
        <5>1. /\ directory[q][j] \in used \cup {Null}
              /\ directory[r][l] \in used \cup {Null}
          BY <1>2 DEF TableInv
        <5>2. CASE (q = p /\ j = i) \/ (r = p /\ l = i)
          BY <2>1, <2>3, <4>3, <5>1, <5>2
        <5>3. CASE (q # p \/ j # i) /\ (r # p \/ l # i)
          <6>1. /\ directory[q][j] = directory[r][l] /\ directory[q][j] # Null
            BY <2>3, <4>3, <5>3
          <6> QED
            BY <1>2, <6>1 DEF TableInv
        <5> QED
          BY <5>2, <5>3
      <4>4. \A q \in Procs, j \in Tables :
                directory'[q][j] # Null =>
                    Search(page_tables'[q], directory'[q][j])
        BY <4>2
      <4>5. \A q, r \in Procs, j, l \in Tables :
                directory'[q][j] # Null
                  /\ directory'[q][j] = directory'[r][l] =>
                    q = r /\ j = l
        BY <4>3
      <4> QED
        BY <4>1, <4>4, <4>5 DEF TableInv, Search
    <3>13. ListInv'
      <4>1. ASSUME NEW q \in Procs, NEW j \in Tables, directory[q][j] # Null
            PROVE  /\ directory'[q][j] = directory[q][j]
                   /\ content'[directory[q][j]] = content[directory[q][j]]
        <5>1. directory[q][j] \in used /\ (q # p \/ j # i)
          BY <1>1, <1>2, <4>1 DEF TableInv, p, i
        <5>2. directory[q][j] \in Frames \ {f}
          BY <1>2, <2>1, <5>1 DEF TypeInv
        <5> QED
          BY <2>3, <3>7, <5>1, <5>2
      <4> SUFFICES ASSUME NEW q \in Procs
                   PROVE  /\ \A n \in DOMAIN pages'[q] :
                             /\ directory'[q][pages'[q][n].page[1]] # Null
                             /\ content'[directory'[q][pages'[q][n].page[1]]]
                                    [pages'[q][n].page[2]]
                                        = pages'[q][n].physical
                          /\ \A a \in Address :
                             directory'[q][a[1]] # Null =>
                               \/ content'[directory'[q][a[1]]][a[2]] = Null
                               \/ a \in Given(q)'
        BY DEF ListInv
      <4>2. pages' = pages /\ Given(q)' = Given(q)
        BY <1>1, <3>8
      <4>3. ASSUME NEW n \in DOMAIN pages[q]
            PROVE  /\ directory'[q][pages[q][n].page[1]] # Null
                   /\ content'[directory'[q][pages[q][n].page[1]]]
                        [pages[q][n].page[2]] = pages[q][n].physical
        <5>1. pages[q][n].page[1] \in Tables
          <6>1. pages[q] \in Seq(PageNodes)
            BY <1>2 DEF TypeInv
          <6>2. pages[q][n] \in PageNodes
            BY <6>1
          <6> QED
            BY <6>2 DEF PageNodes, Address
        <5>2. /\ directory[q][pages[q][n].page[1]] # Null
              /\ content[directory[q][pages[q][n].page[1]]]
                    [pages[q][n].page[2]] = pages[q][n].physical
          BY <1>2 DEF ListInv
        <5>3. PICK j \in Tables : j = pages[q][n].page[1]
          BY <5>1
        <5>4. /\ directory'[q][j] = directory[q][j]
              /\ content'[directory[q][j]] = content[directory[q][j]]
          BY <4>1, <5>2, <5>3
        <5> QED
          BY <5>2, <5>3, <5>4
      <4>4. ASSUME NEW a \in Address, directory'[q][a[1]] # Null
            PROVE  content'[directory'[q][a[1]]][a[2]] = Null \/ a \in Given(q)
        <5>1. a[1] \in Tables /\ a[2] \in Entries
          BY DEF Address
        <5>2. CASE directory[q][a[1]] = Null
          <6>1. q = p /\ a[1] = i
            BY <2>3, <4>4, <5>1, <5>2
          <6> QED
            BY <2>3, <3>7, <5>1, <6>1
        <5>3. CASE directory[q][a[1]] # Null
          BY <1>2, <4>1, <5>1, <5>3 DEF ListInv
        <5> QED
          BY <5>2, <5>3
      <4> QED
        BY <4>2, <4>3, <4>4
    <3> QED
      BY <1>3, <3>9, <3>10, <3>11, <3>12, <3>13 DEF IInv
  <2> QED
    BY <2>4, <2>5
<1> QED
  BY <1>4, <1>5

\* A page more: at an address that was free, in a frame nobody has.
LEMMA MapPageIInv ==
    ASSUME IInv, MapPage
    PROVE  IInv'
<1> DEFINE p == call.proc
           a == call.address
           i == call.address[1]
           e == call.address[2]
           f == Lowest(FreeFrames)
<1>1. /\ status = "ok" /\ call.step = "map"
      /\ UNCHANGED <<kernel_map, directory, kernel_stack, dir_page, handle,
                     making,
                     stage>>
  BY DEF MapPage
<1>2. /\ TypeInv /\ KernelInv /\ MakingInv /\ CallInv /\ TableInv /\ ListInv
      /\ p \in Procs /\ a \in Address /\ i \in Tables /\ e \in Entries
      /\ dir_page[p] # Null /\ a \notin Given(p)
      /\ making = NoProc => stage = "none"
      /\ making # NoProc =>
           /\ p = making
           /\ \/ stage = "handle" /\ a = CodePage
              \/ stage = "done" /\ a = StackPage
  BY <1>1, Calling
<1>3. CASE FreeFrames = {} \/ nodes = 0
  <2>1. /\ UNCHANGED <<content, page_tables, pages, nodes, call>>
        /\ status' \in OutOfMemory
    BY <1>3 DEF MapPage, lists, OutOfMemory
  <2>2. used \subseteq used' /\ used' \subseteq Frames
    <3>1. CASE FreeFrames = {}
      BY <1>2, <3>1 DEF MapPage, TypeInv
    <3>2. CASE FreeFrames # {}
      BY <1>2, <3>2, FrameIsFresh DEF MapPage, TypeInv
    <3> QED
      BY <3>1, <3>2
  <2>3. TypeInv'
    BY <1>1, <1>2, <2>1, <2>2 DEF TypeInv
  <2>4. KernelInv'
    BY <1>1, <1>2, <2>1, <2>2 DEF KernelInv, PagesOf
  <2>5. status' # "ok"
    BY <2>1 DEF OutOfMemory
  <2> QED
    BY <1>1, <2>1, <2>2, <2>3, <2>4, <2>5, SpacesStill
<1>4. CASE FreeFrames # {} /\ nodes # 0
  <2> DEFINE d == directory[p][i]
             old == pages[p]
             node == Node(a, f)
  <2>1. f \in Frames \ used /\ f \notin {Null, KernelImage}
    BY <1>2, <1>4, FrameIsFresh
  <2>2. d \in Frames \cap used /\ d # Null
    BY <1>1, <1>2 DEF TypeInv, CallInv, TableInv
  <2>3. /\ used' = used \cup {f} /\ nodes' = nodes - 1
        /\ pages' = [pages EXCEPT ![p] = Append(old, node)]
        /\ content' = [content EXCEPT ![d][e] = f]
        /\ call' = NoCall /\ page_tables' = page_tables /\ status' = status
    BY <1>4 DEF MapPage
  <2> HIDE DEF f
  <2>4. node \in PageNodes /\ node.physical = f /\ node.page = a
    BY <1>2, <2>1 DEF Node, PageNodes
  <2>5. /\ Append(old, node) \in Seq(PageNodes)
        /\ DOMAIN Append(old, node) = DOMAIN old \cup {Len(old) + 1}
        /\ \A n \in DOMAIN old : Append(old, node)[n] = old[n]
        /\ Append(old, node)[Len(old) + 1] = node
    BY <1>2, <2>4, Appended DEF TypeInv
  <2>6. /\ pages' \in [Procs -> Seq(PageNodes)]
        /\ pages'[p] = Append(old, node)
        /\ \A q \in Procs \ {p} : pages'[q] = pages[q]
    BY <1>2, <2>3, <2>5 DEF TypeInv
  <2>7. /\ content' \in [Frames -> [Entries -> Frames \cup {Null}]]
        /\ content'[d][e] = f
        /\ \A g \in Frames, x \in Entries : g # d \/ x # e =>
                content'[g][x] = content[g][x]
    BY <1>2, <2>1, <2>2, <2>3 DEF TypeInv
  <2> HIDE DEF node, old
  <2>8. /\ \A q \in Procs : q = p =>
              Given(q)' = Given(q) \cup {a} /\ PagesOf(q)' = PagesOf(q) \cup {f}
        /\ \A q \in Procs : q # p =>
              Given(q)' = Given(q) /\ PagesOf(q)' = PagesOf(q)
    <3>1. ASSUME NEW q \in Procs, q = p
          PROVE  /\ Given(q)' = Given(q) \cup {a}
                 /\ PagesOf(q)' = PagesOf(q) \cup {f}
      <4>1. /\ DOMAIN pages'[q] = DOMAIN pages[q] \cup {Len(old) + 1}
            /\ \A n \in DOMAIN pages[q] : pages'[q][n] = pages[q][n]
            /\ pages'[q][Len(old) + 1] = node
        BY <2>5, <2>6, <3>1 DEF old
      <4> QED
        BY <2>4, <4>1 DEF Given, PagesOf
    <3>2. ASSUME NEW q \in Procs, q # p
          PROVE  Given(q)' = Given(q) /\ PagesOf(q)' = PagesOf(q)
      BY <2>6, <3>2 DEF Given, PagesOf
    <3> QED
      BY <3>1, <3>2
  <2>9. TypeInv'
    <3>1. nodes' \in Nat /\ call' \in Calls
      BY <1>2, <1>4, <2>3 DEF TypeInv, Calls, Steps, NoCall
    <3> QED
      BY <1>1, <1>2, <2>1, <2>3, <2>6, <2>7, <3>1 DEF TypeInv
  <2> HIDE DEF p, a, i, e, d
  <2>10. KernelInv'
    <3>1. \A k \in KernelPages : kernel_map[k] # f
      BY <1>2, <2>1 DEF KernelInv
    <3>2. \A q \in Procs : PagesOf(q)' \subseteq used'
      BY <1>2, <2>3, <2>8 DEF KernelInv
    <3>3. \A k \in KernelPages, q \in Procs :
              kernel_map[k] \in PagesOf(q)' => k = handle
      BY <1>2, <2>8, <3>1 DEF KernelInv
    <3> QED
      BY <1>1, <1>2, <2>3, <3>2, <3>3 DEF KernelInv
  <2>11. MakingInv'
    <3>1. call # NoCall
      BY <1>1 DEF NoCall
    <3>2. ASSUME stage = "handle", NEW q \in Procs, q = making
          PROVE  Given(q)' = {CodePage}
      <4>1. q = p /\ a = CodePage /\ Given(q) = {}
        BY <1>2, <3>1, <3>2 DEF MakingInv
      <4> QED
        BY <2>8, <4>1
    <3>3. stage \in {"none", "handle", "done"}
      BY <1>2
    <3>4. \A q \in Procs : dir_page[q] = Null => Given(q)' = Given(q)
      BY <1>2, <2>8
    <3>5. stage = "handle" => making' \in Procs /\ Given(making)' = {CodePage}
      <4> SUFFICES ASSUME stage = "handle"
                   PROVE  making' \in Procs /\ Given(making)' = {CodePage}
        OBVIOUS
      <4>1. making \in Procs /\ making' = making
        BY <1>1, <1>2 DEF MakingInv, TypeInv
      <4>2. PICK q \in Procs : q = making
        BY <4>1
      <4>3. Given(q)' = {CodePage}
        BY <3>2, <4>2
      <4> QED
        BY <4>1, <4>2, <4>3
    <3> QED
      BY <1>1, <1>2, <2>3, <3>3, <3>4, <3>5 DEF MakingInv
  <2>12. CallInv'
    BY <2>3 DEF CallInv, NoCall
  <2>13. TableInv'
    BY <1>1, <1>2, <2>3 DEF TableInv, Search
  <2>14. ListInv'
    <3>1. ASSUME NEW q \in Procs, NEW b \in Address, directory[q][b[1]] # Null,
                 q # p \/ b # a
          PROVE  content'[directory[q][b[1]]][b[2]]
                    = content[directory[q][b[1]]][b[2]]
      <4>1. /\ b[1] \in Tables /\ b[2] \in Entries
            /\ (b[1] = i /\ b[2] = e => b = a)
        BY <1>2 DEF Address, i, e, a
      <4>2. directory[q][b[1]] \in Frames
        BY <1>2, <3>1, <4>1 DEF TypeInv
      <4>3. directory[q][b[1]] = d => q = p /\ b[1] = i
        BY <1>2, <2>2, <4>1 DEF TableInv, d
      <4> QED
        BY <2>7, <3>1, <4>1, <4>2, <4>3
    <3> SUFFICES ASSUME NEW q \in Procs
                 PROVE  /\ \A n \in DOMAIN pages'[q] :
                           /\ directory'[q][pages'[q][n].page[1]] # Null
                           /\ content'[directory'[q][pages'[q][n].page[1]]]
                                  [pages'[q][n].page[2]] = pages'[q][n].physical
                        /\ \A b \in Address :
                           directory'[q][b[1]] # Null =>
                             \/ content'[directory'[q][b[1]]][b[2]] = Null
                             \/ b \in Given(q)'
      BY DEF ListInv
    <3>2. ASSUME NEW n \in DOMAIN pages[q]
          PROVE  /\ directory[q][pages[q][n].page[1]] # Null
                 /\ content'[directory[q][pages[q][n].page[1]]]
                      [pages[q][n].page[2]] = pages[q][n].physical
      <4>1. pages[q][n].page \in Address
        <5>1. pages[q] \in Seq(PageNodes)
          BY <1>2 DEF TypeInv
        <5>2. pages[q][n] \in PageNodes
          BY <5>1
        <5> QED
          BY <5>2 DEF PageNodes
      <4>2. /\ directory[q][pages[q][n].page[1]] # Null
            /\ content[directory[q][pages[q][n].page[1]]]
                  [pages[q][n].page[2]] = pages[q][n].physical
        BY <1>2 DEF ListInv
      <4>3. q # p \/ pages[q][n].page # a
        BY <1>2 DEF Given
      <4> QED
        BY <3>1, <4>1, <4>2, <4>3
    <3>3. ASSUME NEW n \in DOMAIN pages'[q], n \notin DOMAIN pages[q] \/ q = p
          PROVE  \/ n \in DOMAIN pages[q] /\ pages'[q][n] = pages[q][n]
                 \/ q = p /\ pages'[q][n] = node
      BY <2>5, <2>6, <3>3 DEF old
    <3>4. \A n \in DOMAIN pages'[q] :
              /\ directory'[q][pages'[q][n].page[1]] # Null
              /\ content'[directory'[q][pages'[q][n].page[1]]]
                    [pages'[q][n].page[2]] = pages'[q][n].physical
      <4> SUFFICES ASSUME NEW n \in DOMAIN pages'[q]
                   PROVE  /\ directory[q][pages'[q][n].page[1]] # Null
                          /\ content'[directory[q][pages'[q][n].page[1]]]
                               [pages'[q][n].page[2]] = pages'[q][n].physical
        BY <1>1
      <4>1. CASE q = p /\ pages'[q][n] = node
        BY <2>2, <2>4, <2>7, <4>1 DEF d, i, e, a, p
      <4>2. CASE n \in DOMAIN pages[q] /\ pages'[q][n] = pages[q][n]
        BY <3>2, <4>2
      <4> QED
        BY <2>6, <3>3, <4>1, <4>2
    <3>5. \A b \in Address :
              directory'[q][b[1]] # Null =>
                \/ content'[directory'[q][b[1]]][b[2]] = Null
                \/ b \in Given(q)'
      <4> SUFFICES ASSUME NEW b \in Address, directory[q][b[1]] # Null
                   PROVE  \/ content'[directory[q][b[1]]][b[2]] = Null
                          \/ b \in Given(q)'
        BY <1>1
      <4>1. CASE q = p /\ b = a
        BY <2>8, <4>1
      <4>2. CASE q # p \/ b # a
        <5>1. \/ content[directory[q][b[1]]][b[2]] = Null
              \/ b \in Given(q)
          BY <1>2 DEF ListInv
        <5>2. Given(q) \subseteq Given(q)'
          BY <2>8
        <5> QED
          BY <3>1, <4>2, <5>1, <5>2
      <4> QED
        BY <4>1, <4>2
    <3> QED
      BY <3>4, <3>5
  <2> QED
    BY <2>9, <2>10, <2>11, <2>12, <2>13, <2>14 DEF IInv
<1> QED
  BY <1>3, <1>4

-----------------------------------------------------------------------------
(* The invariant.                                                          *)

\* Before the first call nobody has anything.
LEMMA InitIInv ==
    ASSUME Init
    PROVE  IInv
<1>1. PICK n \in Frames : used = {f \in Frames : f > n}
  BY DEF Init
<1>2. PICK m \in KernelPages :
          kernel_map
              = [k \in KernelPages |-> IF k < m THEN KernelImage ELSE Null]
  BY DEF Init
<1>3. Garbage \in Frames
  BY <1>1, LeastOfNats, ProcessAssumption DEF Garbage
<1>4. TypeInv
  BY <1>1, <1>2, <1>3, ProcessAssumption
  DEF Init, TypeInv, Calls, Steps, NoCall, Stages
<1>5. \A p \in Procs : Given(p) = {} /\ PagesOf(p) = {}
  BY DEF Init, Given, PagesOf
<1>6. KernelInv
  BY <1>2, <1>5 DEF KernelInv
<1>7. MakingInv
  BY <1>5 DEF Init, MakingInv
<1>8. CallInv
  BY DEF Init, CallInv, NoCall
<1>9. TableInv
  BY DEF Init, TableInv
<1>10. ListInv
  BY DEF Init, ListInv, Address
<1> QED
  BY <1>4, <1>6, <1>7, <1>8, <1>9, <1>10 DEF IInv

\* The invariant holds throughout.
THEOREM Inductive == Spec => []IInv
<1>1. IInv /\ [Next]_vars => IInv'
  <2> SUFFICES ASSUME IInv, [Next]_vars PROVE IInv'
    OBVIOUS
  <2>1. CASE \E p \in Procs : InitStack(p)
    BY <2>1, InitStackIInv
  <2>2. CASE InitDirectory
    BY <2>2, InitDirectoryIInv
  <2>3. CASE InitCode
    BY <2>3, InitCodeIInv
  <2>4. CASE InitHandle
    BY <2>4, InitHandleIInv
  <2>5. CASE InitFreeHandle
    BY <2>5, InitFreeHandleIInv
  <2>6. CASE InitUserStack
    BY <2>6, InitUserStackIInv
  <2>7. CASE InitDone
    BY <2>7, InitDoneIInv
  <2>8. CASE \E p \in Procs, address \in Extra : AllocatePage(p, address)
    BY <2>8, AllocatePageIInv
  <2>9. CASE FindTable
    BY <2>9, FindTableIInv
  <2>10. CASE NewTable
    BY <2>10, NewTableIInv
  <2>11. CASE SearchTable
    BY <2>11, SearchTableIInv
  <2>12. CASE MapPage
    BY <2>12, MapPageIInv
  <2>13. CASE UNCHANGED vars
    <3>1. UNCHANGED <<used, kernel_map, content, directory, page_tables, pages,
                      nodes, kernel_stack, dir_page, handle, making, stage,
                      call,
                      status>>
      BY <2>13 DEF vars, memory, lists
    <3>2. TypeInv' /\ KernelInv'
      BY <3>1 DEF IInv, TypeInv, KernelInv, PagesOf
    <3>3. status' = "ok" => MakingInv' /\ CallInv'
      <4>1. /\ \A q : Given(q)' = Given(q)
            /\ status' = "ok" => MakingInv /\ CallInv
        BY <3>1 DEF IInv, Given
      <4>2. MakingInv' <=> MakingInv
        BY <3>1 DEF MakingInv, Given
      <4>3. CallInv' <=> CallInv
        BY <3>1 DEF CallInv, Given
      <4> QED
        BY <4>1, <4>2, <4>3
    <3>4. CASE status = "ok"
      BY <3>1, <3>2, <3>3, <3>4, SpacesStill
    <3>5. CASE status # "ok"
      BY <3>1, <3>2, <3>5 DEF IInv
    <3> QED
      BY <3>4, <3>5
  <2> QED
    BY <2>1, <2>2, <2>3, <2>4, <2>5, <2>6, <2>7, <2>8, <2>9, <2>10, <2>11,
       <2>12,
       <2>13 DEF Next
<1> QED
  BY InitIInv, <1>1, PTL DEF Spec

\* process.c fails no assertion but those about memory: every table it looks for
\* is on the list, and no address it is asked to map looks mapped.
THEOREM OnlyMemoryRunsOut == Spec => [](status \in {"ok"} \cup OutOfMemory)
<1>1. IInv => status \in {"ok"} \cup OutOfMemory
  BY DEF IInv, TypeInv
<1> QED
  BY Inductive, <1>1, PTL

\* The kernel keeps no way to a process's page but the handle, while it copies.
THEOREM HandlesAreGivenBack == Spec => []NoHandleLeftBehind
<1>1. IInv => NoHandleLeftBehind
  <2> SUFFICES ASSUME IInv, NEW x \in KernelMapped, NEW p \in Procs,
                      x \in PagesOf(p)
               PROVE  handle # Null /\ x = kernel_map[handle]
    BY DEF NoHandleLeftBehind
  <2>1. PICK k \in KernelPages : kernel_map[k] = x
    BY DEF KernelMapped
  <2>2. k = handle
    BY <2>1 DEF IInv, KernelInv
  <2> QED
    BY <2>1, <2>2, ProcessAssumption DEF Null
<1> QED
  BY Inductive, <1>1, PTL

\* What a process reaches through its directory is what process_allocate_page
\* has put on its list.
THEOREM ProcessesReachTheirPages == Spec => []ReachesOnlyItsPages
<1>1. IInv => (status = "ok" => \A p \in Procs : Reached(p) = PagesOf(p))
  <2> SUFFICES ASSUME IInv, status = "ok", NEW p \in Procs
               PROVE  Reached(p) = PagesOf(p)
    OBVIOUS
  <2>1. TypeInv /\ ListInv
    BY DEF IInv
  <2>2. ASSUME NEW x \in Reached(p) PROVE x \in PagesOf(p)
    <3>1. PICK i \in Tables, e \in Entries :
              directory[p][i] # Null /\ content[directory[p][i]][e] = x
      BY DEF Reached
    <3>2. x # Null
      BY DEF Reached
    <3>3. <<i, e>> \in Address /\ <<i, e>> \in Given(p)
      BY <2>1, <3>1, <3>2 DEF ListInv, Address
    <3>4. PICK n \in DOMAIN pages[p] : pages[p][n].page = <<i, e>>
      BY <3>3 DEF Given
    <3>5. content[directory[p][pages[p][n].page[1]]][pages[p][n].page[2]]
              = pages[p][n].physical
      BY <2>1 DEF ListInv
    <3>6. pages[p][n].physical = x
      BY <3>1, <3>4, <3>5
    <3> QED
      BY <3>6 DEF PagesOf
  <2>3. ASSUME NEW x \in PagesOf(p) PROVE x \in Reached(p)
    <3>1. PICK n \in DOMAIN pages[p] : pages[p][n].physical = x
      BY DEF PagesOf
    <3>2. pages[p][n] \in PageNodes
      <4>1. pages[p] \in Seq(PageNodes)
        BY <2>1 DEF TypeInv
      <4> QED
        BY <4>1
    <3>3. /\ pages[p][n].page[1] \in Tables /\ pages[p][n].page[2] \in Entries
          /\ x \in Frames
      BY <3>1, <3>2 DEF PageNodes, Address
    <3>4. x # Null
      BY <3>3, ProcessAssumption DEF Null
    <3>5. /\ directory[p][pages[p][n].page[1]] # Null
          /\ content[directory[p][pages[p][n].page[1]]][pages[p][n].page[2]] = x
      BY <2>1, <3>1 DEF ListInv
    <3> QED
      BY <3>3, <3>4, <3>5 DEF Reached
  <2> QED
    BY <2>2, <2>3
<1>2. IInv /\ NoHandleLeftBehind => ReachesOnlyItsPages
  BY <1>1 DEF ReachesOnlyItsPages
<1> QED
  BY Inductive, HandlesAreGivenBack, <1>2, PTL

-----------------------------------------------------------------------------
(* The refinement.                                                         *)

\* The state of AddressSpaces.
spaces == [p \in Procs |-> Space(p)]
tables == [p \in Procs |-> TablesOf(p)]

\* The first spaces are empty.
LEMMA InitRefines ==
    ASSUME Init
    PROVE  Promise!Init
<1>1. \A p \in Procs : Mapped(p) = {} /\ TablesOf(p) = {}
  BY DEF Init, Mapped, TablesOf, Address
<1>2. \A p \in Procs : Space(p) = Promise!Empty
  BY <1>1 DEF Space, Promise!Empty
<1>3. used \subseteq Frames /\ status = "ok"
  BY DEF Init
<1> QED
  BY <1>1, <1>2, <1>3 DEF Promise!Init

\* Steps that change no directory and no table: at most a frame is taken.
LEMMA KernelStepRefines ==
    ASSUME status = "ok", UNCHANGED <<content, directory>>, status' = "ok",
           used' = used \/ \E f \in Frames \ used : used' = used \cup {f}
    PROVE  Promise!Next \/ UNCHANGED Promise!vars
<1>1. \A p \in Procs : Space(p)' = Space(p) /\ TablesOf(p)' = TablesOf(p)
  BY DEF Space, Mapped, TablesOf
<1>2. spaces' = spaces /\ tables' = tables
  BY <1>1 DEF spaces, tables
<1>3. CASE used' = used
  BY <1>2, <1>3 DEF Promise!vars, spaces, tables
<1>4. CASE \E f \in Frames \ used : used' = used \cup {f}
  BY <1>2, <1>4 DEF Promise!Next, Promise!TakeFrame, Promise!Fresh, spaces,
     tables
<1> QED
  BY <1>3, <1>4

\* process_init's calls of mem.c and paging.c take a frame or fail.
LEMMA TakePageTakes ==
    ASSUME TypeInv, TakePage
    PROVE  used' = used \/ \E f \in Frames \ used : used' = used \cup {f}
<1>1. CASE FreeFrames = {}
  BY <1>1 DEF TakePage, TypeInv
<1>2. CASE FreeFrames # {}
  BY <1>2, FrameIsFresh DEF TakePage
<1> QED
  BY <1>1, <1>2

\* A table more is one in a fresh frame, and maps nothing.
LEMMA NewTableRefines ==
    ASSUME IInv, NewTable, status' = "ok"
    PROVE  Promise!Next
<1> DEFINE f == Lowest(FreeFrames)
<1>1. /\ status = "ok" /\ call.step = "table" /\ TakePage
      /\ directory[call.proc][call.address[1]] = Null
  BY DEF NewTable
<1>2. PageOutcome = "ok" /\ nodes # 0
  BY DEF NewTable
<1>3. PICK p \in Procs, i \in Tables : p = call.proc /\ i = call.address[1]
  BY <1>1, Calling
<1>4. TypeInv /\ TableInv
  BY <1>1, Calling
<1>5. f \in Frames \ used /\ f # Null /\ used' = used \cup {f}
  BY <1>1, <1>2, <1>4, FrameIsFresh DEF PageOutcome, TakePage
<1>6. /\ directory' = [directory EXCEPT ![p][i] = f]
      /\ content' = [content EXCEPT ![f] = [e \in Entries |-> Null]]
  BY <1>2, <1>3 DEF NewTable, Cleared
<1> HIDE DEF f
<1>7. /\ directory'[p][i] = f
      /\ \A q \in Procs, j \in Tables : q # p \/ j # i =>
              directory'[q][j] = directory[q][j]
      /\ \A e \in Entries : content'[f][e] = Null
      /\ \A g \in Frames \ {f} : content'[g] = content[g]
  BY <1>4, <1>5, <1>6 DEF TypeInv
<1>8. \A q \in Procs, j \in Tables :
          directory[q][j] # Null =>
              /\ directory'[q][j] = directory[q][j]
              /\ content'[directory[q][j]] = content[directory[q][j]]
  <2> SUFFICES ASSUME NEW q \in Procs, NEW j \in Tables, directory[q][j] # Null
               PROVE  /\ directory'[q][j] = directory[q][j]
                      /\ content'[directory[q][j]] = content[directory[q][j]]
    OBVIOUS
  <2>1. directory[q][j] \in used /\ (q # p \/ j # i)
    BY <1>1, <1>3, <1>4 DEF TableInv
  <2> QED
    BY <1>4, <1>5, <1>7, <2>1 DEF TypeInv
<1>9. \A q \in Procs : Space(q)' = Space(q)
  <2> SUFFICES ASSUME NEW q \in Procs PROVE Space(q)' = Space(q)
    OBVIOUS
  <2>1. ASSUME NEW a \in Address
        PROVE  (/\ directory'[q][a[1]] # Null
                /\ content'[directory'[q][a[1]]][a[2]] # Null)
                 <=> (/\ directory[q][a[1]] # Null
                      /\ content[directory[q][a[1]]][a[2]] # Null)
    <3>1. a[1] \in Tables /\ a[2] \in Entries
      BY DEF Address
    <3>2. CASE directory[q][a[1]] # Null
      BY <1>8, <3>1, <3>2
    <3>3. CASE directory[q][a[1]] = Null /\ q = p /\ a[1] = i
      BY <1>7, <3>1, <3>3
    <3>4. CASE directory[q][a[1]] = Null /\ (q # p \/ a[1] # i)
      BY <1>7, <3>1, <3>4
    <3> QED
      BY <3>2, <3>3, <3>4
  <2>2. Mapped(q)' = Mapped(q)
    BY <2>1 DEF Mapped
  <2>3. \A a \in Mapped(q) :
            content'[directory'[q][a[1]]][a[2]]
                = content[directory[q][a[1]]][a[2]]
    BY <1>8 DEF Mapped, Address
  <2> QED
    BY <2>2, <2>3 DEF Space
<1>10. /\ \A q \in Procs : q = p => TablesOf(q)' = TablesOf(q) \cup {f}
       /\ \A q \in Procs : q # p => TablesOf(q)' = TablesOf(q)
  BY <1>1, <1>3, <1>5, <1>7 DEF TablesOf
<1>11. /\ spaces' = spaces
       /\ tables' = [tables EXCEPT ![p] = @ \cup {f}]
  BY <1>9, <1>10 DEF spaces, tables
<1>12. Promise!AddTable(p, f)
  BY <1>1, <1>5, <1>11 DEF Promise!AddTable, Promise!Fresh, spaces, tables
<1> QED
  BY <1>5, <1>12 DEF Promise!Next

\* A page more is one in a fresh frame, at an address that had none.
LEMMA MapPageRefines ==
    ASSUME IInv, MapPage, status' = "ok"
    PROVE  Promise!Next
<1> DEFINE f == Lowest(FreeFrames)
<1>1. status = "ok" /\ call.step = "map" /\ FreeFrames # {} /\ nodes # 0
  BY DEF MapPage
<1>2. PICK p \in Procs, a \in Address : p = call.proc /\ a = call.address
  BY <1>1, Calling
<1>3. /\ TypeInv /\ TableInv /\ ListInv /\ a \notin Given(p)
      /\ a[1] \in Tables /\ a[2] \in Entries /\ directory[p][a[1]] # Null
  BY <1>1, <1>2, Calling DEF CallInv
<1> DEFINE d == directory[p][a[1]]
<1>4. f \in Frames \ used /\ f # Null
  BY <1>1, <1>3, FrameIsFresh
<1>5. d \in Frames /\ d # Null
  BY <1>3 DEF TypeInv
<1>6. /\ used' = used \cup {f} /\ directory' = directory
      /\ content' = [content EXCEPT ![d][a[2]] = f]
  BY <1>1, <1>2 DEF MapPage
<1> HIDE DEF f
<1>7. /\ content'[d][a[2]] = f
      /\ \A g \in Frames, x \in Entries : g # d \/ x # a[2] =>
              content'[g][x] = content[g][x]
  BY <1>3, <1>4, <1>5, <1>6 DEF TypeInv
<1>8. ASSUME NEW q \in Procs, NEW b \in Address, directory[q][b[1]] # Null,
             q # p \/ b # a
      PROVE  content'[directory[q][b[1]]][b[2]]
                 = content[directory[q][b[1]]][b[2]]
  <2>1. /\ b[1] \in Tables /\ b[2] \in Entries
        /\ (b[1] = a[1] /\ b[2] = a[2] => b = a)
    BY DEF Address
  <2>2. directory[q][b[1]] \in Frames
    BY <1>3, <1>8, <2>1 DEF TypeInv
  <2>3. directory[q][b[1]] = d => q = p /\ b[1] = a[1]
    BY <1>3, <1>5, <2>1 DEF TableInv
  <2> QED
    BY <1>7, <1>8, <2>1, <2>2, <2>3
<1> HIDE DEF d
<1>9. \A q \in Procs : q # p => Space(q)' = Space(q)
  <2> SUFFICES ASSUME NEW q \in Procs, q # p PROVE Space(q)' = Space(q)
    OBVIOUS
  <2>1. Mapped(q)' = Mapped(q)
    BY <1>6, <1>8 DEF Mapped
  <2>2. \A b \in Mapped(q) :
            content'[directory'[q][b[1]]][b[2]]
                = content[directory[q][b[1]]][b[2]]
    BY <1>6, <1>8 DEF Mapped
  <2> QED
    BY <2>1, <2>2 DEF Space
<1>10. a \notin Mapped(p)
  BY <1>3 DEF ListInv, Mapped
<1>11. \A q \in Procs : q = p =>
          Space(q)' = Promise!Extended(Space(q), a, f)
  <2> SUFFICES ASSUME NEW q \in Procs, q = p
               PROVE  Space(q)' = Promise!Extended(Space(q), a, f)
    OBVIOUS
  <2>1. directory[q][a[1]] = d /\ d # Null
    BY <1>5 DEF d
  <2>2. Mapped(q)' = Mapped(q) \cup {a}
    <3>1. a \in Mapped(q)'
      BY <1>4, <1>6, <1>7, <2>1 DEF Mapped
    <3>2. \A b \in Address \ {a} : b \in Mapped(q)' <=> b \in Mapped(q)
      BY <1>6, <1>8 DEF Mapped
    <3> QED
      BY <3>1, <3>2 DEF Mapped
  <2>3. \A b \in Mapped(q) :
            content'[directory'[q][b[1]]][b[2]]
                = content[directory[q][b[1]]][b[2]]
    BY <1>6, <1>8, <1>10 DEF Mapped
  <2>4. content'[directory'[q][a[1]]][a[2]] = f
    BY <1>6, <1>7, <2>1
  <2>5. Space(q)' = [b \in Mapped(q) \cup {a} |->
                        content'[directory'[q][b[1]]][b[2]]]
    BY <2>2 DEF Space
  <2>6. DOMAIN Space(q) = Mapped(q) /\ \A b \in Mapped(q) :
            Space(q)[b] = content[directory[q][b[1]]][b[2]]
    BY DEF Space
  <2> QED
    BY <1>10, <2>3, <2>4, <2>5, <2>6 DEF Promise!Extended
<1>12. \A q \in Procs : TablesOf(q)' = TablesOf(q)
  BY <1>6 DEF TablesOf
<1>13. /\ tables' = tables
       /\ spaces' = [spaces EXCEPT ![p] = Promise!Extended(spaces[p], a, f)]
  BY <1>9, <1>11, <1>12 DEF spaces, tables
<1>14. a \notin DOMAIN spaces[p]
  BY <1>10 DEF spaces, Space
<1>15. Promise!Map(p, a, f)
  BY <1>1, <1>4, <1>6, <1>13, <1>14
  DEF Promise!Map, Promise!Fresh, spaces, tables
<1> QED
  BY <1>4, <1>15 DEF Promise!Next

\* Every step is one of AddressSpaces, or leaves the address spaces alone.
LEMMA StepRefines ==
    ASSUME IInv, [Next]_vars
    PROVE  [~(status # "ok") /\ Promise!Next]_(Promise!vars)
<1>1. CASE UNCHANGED vars
  BY <1>1 DEF vars, memory, lists, Promise!vars, Space, Mapped, TablesOf
<1>2. CASE Next
  <2>1. status = "ok"
    BY <1>2 DEF Next, InitStack, InitDirectory, InitCode, InitHandle,
       InitFreeHandle, InitUserStack, InitDone, AllocatePage, FindTable,
       NewTable,
       SearchTable, MapPage, Idle
  <2>2. CASE status' # "ok"
    BY <2>1, <2>2 DEF Promise!Next, Promise!Panic
  <2>3. CASE status' = "ok"
    <3> DEFINE Aside == /\ UNCHANGED <<content, directory>>
                        /\ \/ used' = used
                           \/ \E f \in Frames \ used : used' = used \cup {f}
    <3>1. TypeInv
      BY DEF IInv
    <3>2. ASSUME \E p \in Procs : InitStack(p)
          PROVE  Aside
      BY <2>3, <3>1, <3>2, TakePageTakes DEF InitStack
    <3>3. ASSUME InitDirectory
          PROVE  Aside
      BY <3>1, <3>3, TakePageTakes, InitDirectoryIInv DEF InitDirectory
    <3>4. ASSUME \/ InitCode \/ InitUserStack
                 \/ \E p \in Procs, address \in Extra : AllocatePage(p, address)
          PROVE  Aside
      BY <3>4 DEF InitCode, InitUserStack, AllocatePage, Begin, memory
    <3>5. ASSUME InitHandle \/ InitFreeHandle
          PROVE  Aside
      BY <3>5 DEF InitHandle, InitFreeHandle
    <3>6. ASSUME InitDone \/ FindTable \/ SearchTable
          PROVE  Aside
      BY <3>6 DEF InitDone, FindTable, SearchTable, memory
    <3>7. Aside \/ NewTable \/ MapPage
      BY <1>2, <3>2, <3>3, <3>4, <3>5, <3>6 DEF Next
    <3>8. CASE Aside
      BY <2>1, <2>3, <3>8, KernelStepRefines
    <3>9. CASE NewTable
      BY <2>1, <2>3, <3>9, NewTableRefines
    <3>10. CASE MapPage
      BY <2>1, <2>3, <3>10, MapPageRefines
    <3> QED
      BY <3>7, <3>8, <3>9, <3>10
  <2> QED
    BY <2>2, <2>3
<1> QED
  BY <1>1, <1>2

\* The address spaces the MMU finds are those of AddressSpaces: partial
\* functions that only grow, into frames nobody was given before.
THEOREM Refinement == Spec => AddressSpacesKeepPromise
<1>1. IInv /\ [Next]_vars => [~(status # "ok") /\ Promise!Next]_(Promise!vars)
  BY StepRefines
<1> QED
  BY Inductive, InitRefines, <1>1, PTL
  DEF Spec, AddressSpacesKeepPromise, Promise!Spec
=============================================================================
