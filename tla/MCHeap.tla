------------------------------- MODULE MCHeap -------------------------------
(* The layout of a 32-bit build in words of four bytes: heap_t is 2 words, *)
(* block_t 4, the footer 1.  The arena holds six of the smallest blocks.   *)
EXTENDS Heap

MCRequests == {0, 1, 5, 11}

\* The properties of MCHeap.cfg say nothing of a state after the first rewind:
\* TLC visits such a state and does not go on from it.
BeforeRewind == ~rewound
=============================================================================
