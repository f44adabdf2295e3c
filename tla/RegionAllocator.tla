-------------------------- MODULE RegionAllocator ---------------------------
(***************************************************************************)
(* What the heap of src/src/mem/heap.c promises its callers, with no list, *)
(* no headers and no footers: every region handed out lies in the arena,   *)
(* overlaps no other, is at least as large as what was asked for, and      *)
(* stays where and as large as it is until its holder gives it back.       *)
(* Nothing is promised after heap_realloc, with which the heap stops.      *)
(***************************************************************************)
EXTENDS Naturals

CONSTANTS
    Arena,     \* the addresses regions are made of
    Requests   \* the sizes that may be asked for

VARIABLES
    regions,   \* the regions held: first address -> [asked, size]
    stopped    \* no more calls will be served

vars == <<regions, stopped>>

Region(asked, size) == [asked |-> asked, size |-> size]

Last(r, a) == a + r[a].size - 1

Apart(r) ==
    \A a \in DOMAIN r :
        /\ a \in Arena /\ Last(r, a) \in Arena
        /\ \A b \in DOMAIN r : a < b => Last(r, a) < b

Init ==
    /\ regions = [a \in {} |-> Region(0, 0)]
    /\ stopped = FALSE

SameBut(a) == \A b \in DOMAIN regions \ {a} : regions'[b] = regions[b]

\* A region nobody held is handed out.
Alloc(a, n) ==
    /\ ~stopped /\ UNCHANGED stopped
    /\ a \notin DOMAIN regions
    /\ DOMAIN regions' = DOMAIN regions \cup {a}
    /\ SameBut(a)
    /\ regions'[a] = Region(n, regions'[a].size)
    /\ regions'[a].size >= n
    /\ Apart(regions')

\* Its holder gives it back.
Free(a) ==
    /\ ~stopped /\ UNCHANGED stopped
    /\ regions' = [b \in DOMAIN regions \ {a} |-> regions[b]]

\* The last call may change the size of the one region it names.
Resize(a) ==
    /\ ~stopped /\ stopped'
    /\ DOMAIN regions' = DOMAIN regions
    /\ SameBut(a)
    /\ Apart(regions')

Next ==
    \/ \E a \in Arena, n \in Requests : Alloc(a, n)
    \/ \E a \in DOMAIN regions : Free(a) \/ Resize(a)

Spec == Init /\ [][Next]_vars
=============================================================================
