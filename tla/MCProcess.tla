----------------------------- MODULE MCProcess ------------------------------
(* Besides its code and stack pages, a process may be given a page of a     *)
(* second table.                                                            *)
EXTENDS Process

MCExtra == {<<1, 0>>}
=============================================================================
