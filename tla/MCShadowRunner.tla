-------------------------- MODULE MCShadowRunner --------------------------
(***************************************************************************)
(* ShadowRunner on a loop that loads, adds and stores and on an atomic     *)
(* addition, with any one entry of the cache wrong, or none.               *)
(***************************************************************************)
EXTENDS ShadowRunner

I(op) == [op |-> op, cell |-> "c1", target |-> 0]

\* Count X0 up to a wrap-around, storing on the way; started with X0 = 0, do
\* one atomic addition instead.
LoopProgram ==
    << [I("cbz") EXCEPT !.target = 9],
       I("str"), I("adds"), I("stp"), I("ldr"),
       [I("cbz") EXCEPT !.target = 8], [I("b") EXCEPT !.target = 2], I("ret"),
       I("ldadd"), I("ret") >>

AllWrong ==
    {I(op) : op \in {"nop", "adds", "ldr", "str", "stp", "ldadd", "ret"}} \cup
    {[I("str") EXCEPT !.cell = "c2"], [I("cbz") EXCEPT !.target = 2]}
=============================================================================
