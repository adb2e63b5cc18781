-------------------------- MODULE MCPredecodeCache --------------------------
(***************************************************************************)
(* PredecodeCache on a 20-byte address space: two registering threads and  *)
(* one or two executing ones.                                              *)
(***************************************************************************)
EXTENDS PredecodeCache, TLC

CONSTANTS add, bti, sveonly

MCForms == {add, bti, sveonly}
MCSimulatedForms == {add, bti}

\* One plain instruction, one BTI-relevant one, one named form without a
\* leaf and one unallocated data word, repeated through the address space.
MCText ==
    [a \in 0 .. AddrLimit - 1 |->
        LET kind == (a \div 4) % 4
        IN  [form |-> IF kind = 1 THEN bti ELSE IF kind = 2 THEN sveonly ELSE add,
             unallocated |-> kind = 3, available |-> TRUE, bti |-> kind = 1]]

\* Neighbours that touch, a range across both that shares a start with one of
\* them (each also as an exact duplicate of itself), a zero size, an unaligned
\* start.
MCRequests == {<<4, 4>>, <<8, 8>>, <<4, 8>>, <<4, 0>>, <<6, 4>>}

\* Enough to succeed, to clash and to be refused, on a 16-byte space.
MCLiveRequests == {<<4, 4>>, <<4, 8>>, <<4, 0>>}

\* Registrars run the same code on the same requests.
RegistrarSymmetry == Permutations(Registrars)
=============================================================================
