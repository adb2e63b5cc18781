---------------------------- MODULE MCGcsManager ----------------------------
(***************************************************************************)
(* GcsManager with two Simulators on two threads and a few storages.       *)
(***************************************************************************)
EXTENDS GcsManager, TLC

CONSTANT NStorages   \* bound on the allocations of the process

MCStorages == 1 .. NStorages

\* GCSPUSHM: the seal of a fresh first stack, and zero.
MCPushedValues == {Seal(1, 0), Zero}
Threads == Permutations(Sims)
=============================================================================
