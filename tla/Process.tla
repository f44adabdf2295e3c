------------------------------ MODULE Process -------------------------------
(***************************************************************************)
(* The address spaces of user processes: process_init and                  *)
(* process_allocate_page of src/src/proc/process.c, over the calls of      *)
(* mem.c, paging.c and heap.c, which are single steps here.  One thread    *)
(* makes processes and maps pages, a call at a time; each step takes       *)
(* frames, kernel pages or list nodes, and fails an assertion, the last    *)
(* thing to happen, when there is none.  A page table is the content of a  *)
(* frame; the kernel half of a directory, a copy of entries that never     *)
(* change, is left out.                                                    *)
(***************************************************************************)
EXTENDS Naturals, Sequences, FiniteSets, SequencesExt

CONSTANTS
    Procs,        \* process_t blocks to be initialised
    KernelProcs,  \* those made with kernel = 1, as sched.c's parent_process
    Frames,       \* frame numbers mem.c can hand out
    KernelPages,  \* page numbers paging.c can hand out
    Tables,       \* page directory indices below 768
    Entries,      \* page table indices
    Nodes,        \* pagelist_t nodes heap_alloc has room for, at most
    Extra,        \* the addresses mapped besides code and stack
    KernelImage,  \* stands for the frames the kernel's own pages are mapped to
    NoProc

Address == Tables \X Entries
CodePage == <<0, 1>>    \* 4096
StackPage == <<0, 2>>   \* 8192

ASSUME ProcessAssumption ==
    /\ Frames \subseteq Nat \ {0} /\ KernelPages \subseteq Nat \ {0}
    /\ KernelImage \in Nat \ (Frames \cup {0})
    /\ Nodes \in Nat /\ NoProc \notin Procs /\ KernelProcs \subseteq Procs
    /\ {CodePage, StackPage} \cup Extra \subseteq Address \ {<<0, 0>>}

VARIABLES
    used,         \* frames in use, as mem.c sees them
    kernel_map,   \* kernel_map[k]: the frame kernel page k is mapped to, or 0
    content,      \* content[f]: frame f read as a page table
    directory,    \* directory[p][i]: the frame of p's page table i, or 0
    page_tables,  \* page_tables[p]: list of [page, physical], the tables
    pages,        \* pages[p]: list of [page, physical], the pages mapped
    kernel_stack, \* kernel_stack[p]: the kernel page its stack is in, or 0
    dir_page,     \* dir_page[p]: the kernel page of its directory, or 0
    handle,       \* the kernel page process_init copies the code through, or 0
    making,       \* the process being initialised
    stage,        \* where process_init is in it
    call,         \* the call of process_allocate_page under way
    nodes,        \* pagelist_t nodes left
    status        \* "ok", or the assertion that failed

lists == <<page_tables, pages, nodes>>
memory == <<used, kernel_map, content, directory>>
vars == <<memory, lists, kernel_stack, dir_page, handle, making, stage, call, status>>

Null == 0
NoCall == [proc |-> NoProc, address |-> <<0, 0>>, step |-> "none"]
Node(page, physical) == [page |-> page, physical |-> physical]

\* What memory holds before anything is written to it: not zero.
Garbage == CHOOSE f \in Frames : \A g \in Frames : f <= g

\* The memory left is any: frames below a number, pages from another one on.
Init ==
    /\ \E n \in Frames : used = {f \in Frames : f > n}
    /\ \E n \in KernelPages :
        kernel_map = [k \in KernelPages |-> IF k < n THEN KernelImage ELSE Null]
    /\ content = [f \in Frames |-> [e \in Entries |-> Garbage]]
    /\ directory = [p \in Procs |-> [i \in Tables |-> Null]]
    /\ page_tables = [p \in Procs |-> <<>>]
    /\ pages = [p \in Procs |-> <<>>]
    /\ kernel_stack = [p \in Procs |-> Null]
    /\ dir_page = [p \in Procs |-> Null]
    /\ handle = Null
    /\ making = NoProc
    /\ stage = "none"
    /\ call = NoCall
    /\ nodes \in 0..Nodes
    /\ status = "ok"
-----------------------------------------------------------------------------
Lowest(S) == CHOOSE i \in S : \A j \in S : i <= j
FreeFrames == Frames \ used
FreePages == {k \in KernelPages : kernel_map[k] = Null}

\* What page_alloc_kernel_random fails with, or "ok": the frame comes first.
PageOutcome ==
    IF FreeFrames = {} THEN "Physical memory alloc error"
    ELSE IF FreePages = {} THEN "virtual memory alloc error" ELSE "ok"

\* Its effect: the next page mapped to the next frame; a frame that found no
\* page is lost.
TakePage ==
    /\ used' = used \cup (IF FreeFrames = {} THEN {} ELSE {Lowest(FreeFrames)})
    /\ kernel_map' = IF PageOutcome = "ok"
            THEN [kernel_map EXCEPT ![Lowest(FreePages)] = Lowest(FreeFrames)]
            ELSE kernel_map

Idle == status = "ok" /\ call = NoCall

\* process_init: first the stack in the kernel, all that a kernel process
\* needs.  page_alloc_kernel_contigious looks for the page before the frame.
InitStack(p) ==
    /\ Idle /\ making = NoProc
    /\ kernel_stack[p] = Null
    /\ making' = p
    /\ IF FreePages = {} \/ FreeFrames = {}
       THEN /\ status' = IF FreePages = {} THEN "Failed to alloc new stack"
                         ELSE "Physical memory alloc error"
            /\ UNCHANGED <<used, kernel_map, kernel_stack, stage>>
       ELSE /\ TakePage
            /\ kernel_stack' = [kernel_stack EXCEPT ![p] = Lowest(FreePages)]
            /\ stage' = IF p \in KernelProcs THEN "done" ELSE "directory"
            /\ UNCHANGED status
    /\ UNCHANGED <<content, directory, lists, dir_page, handle, call>>

\* proc_allocate_pagedir; the user half starts out zero.
InitDirectory ==
    /\ Idle /\ stage = "directory"
    /\ status' = PageOutcome
    /\ TakePage
    /\ IF status' = "ok"
       THEN /\ dir_page' = [dir_page EXCEPT ![making] = Lowest(FreePages)]
            /\ directory' = [directory EXCEPT ![making] = [i \in Tables |-> Null]]
            /\ stage' = "code"
       ELSE UNCHANGED <<dir_page, directory, stage>>
    /\ UNCHANGED <<content, lists, kernel_stack, handle, making, call>>

Begin(p, address) ==
    /\ call' = [proc |-> p, address |-> address, step |-> "table"]
    /\ UNCHANGED <<memory, lists, kernel_stack, dir_page, handle, making,
                   status>>

InitCode == Idle /\ stage = "code" /\ Begin(making, CodePage) /\ stage' = "handle"

\* process_allocate_page_handle: the code page is mapped in the kernel as well.
InitHandle ==
    /\ Idle /\ stage = "handle"
    /\ IF FreePages = {}
       THEN /\ status' = "virtual memory alloc error"
            /\ UNCHANGED <<kernel_map, handle, stage>>
       ELSE /\ handle' = Lowest(FreePages)
            /\ kernel_map' = [kernel_map EXCEPT ![Lowest(FreePages)] =
                                Last(pages[making]).physical]
            /\ stage' = "copied"
            /\ UNCHANGED status
    /\ UNCHANGED <<used, content, directory, lists, kernel_stack, dir_page,
                   making, call>>

\* Mutant: page_free is not called.
InitKeepsHandle ==
    /\ Idle /\ stage = "copied"
    /\ handle' = Null
    /\ stage' = "stack"
    /\ UNCHANGED <<memory, lists, kernel_stack, dir_page, making, call, status>>

\* Mutant: page_free is told to free the frame too.
InitFreesFrame ==
    /\ Idle /\ stage = "copied"
    /\ used' = used \ {kernel_map[handle]}
    /\ kernel_map' = [kernel_map EXCEPT ![handle] = Null]
    /\ handle' = Null
    /\ stage' = "stack"
    /\ UNCHANGED <<content, directory, lists, kernel_stack, dir_page, making,
                   call, status>>

\* Mutant: the user stack is forgotten.
InitSkipsStack ==
    /\ Idle /\ stage = "copied"
    /\ kernel_map' = [kernel_map EXCEPT ![handle] = Null]
    /\ handle' = Null
    /\ stage' = "done"
    /\ UNCHANGED <<used, content, directory, lists, kernel_stack, dir_page,
                   making,
                   call, status>>

\* The code has been copied: page_free(code_page, 0) unmaps the handle only.
InitFreeHandle ==
    /\ Idle /\ stage = "copied"
    /\ kernel_map' = [kernel_map EXCEPT ![handle] = Null]
    /\ handle' = Null
    /\ stage' = "stack"
    /\ UNCHANGED <<used, content, directory, lists, kernel_stack, dir_page,
                   making,
                   call, status>>

InitUserStack ==
    Idle /\ stage = "stack" /\ Begin(making, StackPage) /\ stage' = "done"

InitDone ==
    /\ Idle /\ stage = "done"
    /\ making' = NoProc
    /\ stage' = "none"
    /\ UNCHANGED <<memory, lists, kernel_stack, dir_page, handle, call, status>>

\* Any page of a process that is ready, each once: the assertion "page already
\* mapped" is the caller's to avoid.
AllocatePage(p, address) ==
    /\ Idle /\ making = NoProc
    /\ dir_page[p] # Null
    /\ address \notin {pages[p][i].page : i \in DOMAIN pages[p]}
    /\ Begin(p, address)
    /\ UNCHANGED stage

\* The table of the address has a directory entry already.
FindTable ==
    /\ status = "ok" /\ call.step = "table"
    /\ directory[call.proc][call.address[1]] # Null
    /\ call' = [call EXCEPT !.step = "search"]
    /\ UNCHANGED <<memory, lists, kernel_stack, dir_page, handle, making,
                   stage, status>>

\* Mutant: the new table is not cleared.
ClearedNot(f) == content

\* zero_page_table.
Cleared(f) == [content EXCEPT ![f] = [e \in Entries |-> Null]]

\* A new page table: a kernel page, its entry in the directory, its node at
\* the end of page_tables, and zeroed last.
NewTable ==
    LET f == Lowest(FreeFrames)
        p == call.proc
    IN  /\ status = "ok" /\ call.step = "table"
        /\ directory[p][call.address[1]] = Null
        /\ TakePage
        /\ IF PageOutcome # "ok"
           THEN /\ status' = PageOutcome
                /\ UNCHANGED <<content, directory, lists, call>>
           ELSE /\ directory' = [directory EXCEPT ![p][call.address[1]] = f]
                /\ IF nodes = 0
                   THEN /\ status' = "failed to allocate a page list node"
                        /\ UNCHANGED <<content, lists, call>>
                   ELSE /\ page_tables' = [page_tables EXCEPT ![p] =
                                Append(@, Node(Lowest(FreePages), f))]
                        /\ nodes' = nodes - 1
                        /\ content' = Cleared(f)
                        /\ call' = [call EXCEPT !.step = "search"]
                        /\ UNCHANGED <<pages, status>>
        /\ UNCHANGED <<kernel_stack, dir_page, handle, making, stage>>

\* pagelist_search_page: every node is looked at, the last one too; with two
\* nodes or more a miss would walk off the end.
Search(list, physical) == \E i \in DOMAIN list : list[i].physical = physical

SearchTable ==
    LET p == call.proc IN
    /\ status = "ok" /\ call.step = "search"
    /\ IF ~Search(page_tables[p], directory[p][call.address[1]])
       THEN /\ status' = IF Len(page_tables[p]) = 1 THEN "Page table not found"
                         ELSE "null dereferenced"
            /\ UNCHANGED call
       ELSE IF content[directory[p][call.address[1]]][call.address[2]] # Null
       THEN status' = "page already mapped" /\ UNCHANGED call
       ELSE call' = [call EXCEPT !.step = "map"] /\ UNCHANGED status
    /\ UNCHANGED <<memory, lists, kernel_stack, dir_page, handle, making,
                   stage>>

\* The frame, then the node at the end of pages, then the entry; without a node
\* the entry stays present with frame 0, and the frame is lost.
MapPage ==
    LET p == call.proc
        f == Lowest(FreeFrames)
        entered == [content EXCEPT
            ![directory[p][call.address[1]]][call.address[2]] = f]
    IN  /\ status = "ok" /\ call.step = "map"
        /\ IF FreeFrames = {}
           THEN /\ status' = "Failed to allocate pyhsical block"
                /\ UNCHANGED <<used, content, lists, call>>
           ELSE /\ used' = used \cup {f}
                /\ IF nodes = 0
                   THEN /\ status' = "failed to allocate a page list node"
                        /\ UNCHANGED <<content, lists, call>>
                   ELSE /\ pages' = [pages EXCEPT ![p] = Append(@, Node(call.address, f))]
                        /\ nodes' = nodes - 1
                        /\ content' = entered
                        /\ call' = NoCall
                        /\ UNCHANGED <<page_tables, status>>
        /\ UNCHANGED <<kernel_map, directory, kernel_stack, dir_page, handle,
                       making, stage>>

Next ==
    \/ \E p \in Procs : InitStack(p)
    \/ InitDirectory \/ InitCode \/ InitHandle \/ InitFreeHandle
    \/ InitUserStack \/ InitDone
    \/ \E p \in Procs, address \in Extra : AllocatePage(p, address)
    \/ FindTable \/ NewTable \/ SearchTable \/ MapPage

Spec == Init /\ [][Next]_vars /\ WF_vars(Next)
-----------------------------------------------------------------------------
(* Properties.                                                             *)

OutOfMemory == {"Failed to alloc new stack", "Physical memory alloc error",
    "virtual memory alloc error",
    "Failed to allocate pyhsical block", "failed to allocate a page list node"}

\* The frames of user pages p reaches through its directory, as the MMU does.
Reached(p) ==
    {content[directory[p][i]][e] : i \in {j \in Tables : directory[p][j] # Null},
                                   e \in Entries} \ {Null}
TablesOf(p) == {directory[p][i] : i \in Tables} \ {Null}
PagesOf(p) == {pages[p][i].physical : i \in DOMAIN pages[p]}
KernelMapped == {kernel_map[k] : k \in KernelPages} \ {Null, KernelImage}

\* A user page is mapped in the kernel only through the handle of the process
\* being made: afterwards the kernel keeps no way to write to it.
NoHandleLeftBehind ==
    KernelMapped \cap UNION {PagesOf(p) : p \in Procs} \subseteq
        (IF handle = Null THEN {} ELSE {kernel_map[handle]})

\* Between steps that build a table, what a process can reach is exactly what
\* its list of pages says it was given, and nobody else reaches it: the kernel's
\* mapping lasts no longer than the handle.
ReachesOnlyItsPages ==
    /\ status = "ok" => \A p \in Procs : Reached(p) = PagesOf(p)
    /\ NoHandleLeftBehind

\* A process's address space as the MMU finds it: through its directory, in
\* whatever the frames named there contain.
Mapped(p) ==
    {a \in Address : /\ directory[p][a[1]] # Null
                     /\ content[directory[p][a[1]]][a[2]] # Null}
Space(p) == [a \in Mapped(p) |-> content[directory[p][a[1]]][a[2]]]

Promise == INSTANCE AddressSpaces WITH
    Addresses <- Address,
    space <- [p \in Procs |-> Space(p)],
    tables <- [p \in Procs |-> TablesOf(p)],
    taken <- used,
    panicked <- status # "ok"

\* The address spaces the MMU finds are those of AddressSpaces: no frame is
\* given twice, to two processes, to two addresses, as a page and as a table, or
\* to a process and the kernel, and no call changes what was mapped before.
AddressSpacesKeepPromise == Promise!Spec

\* process_init ends, with code and stack mapped, or fails for want of memory:
\* process_allocate_page finds every table it made, and no address that was
\* never mapped looks mapped.
ProcessesGetReady ==
    \A p \in Procs : kernel_stack[p] # Null ~>
        \/ status \in OutOfMemory
        \/ /\ making # p
           /\ p \in KernelProcs \/ {CodePage, StackPage} \subseteq
                                    {pages[p][i].page : i \in DOMAIN pages[p]}
=============================================================================
