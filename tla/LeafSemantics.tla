--------------------------- MODULE LeafSemantics ---------------------------
(***************************************************************************)
(* The leaf instructions: what a visitor does between two dispatches of    *)
(* the interpreter.  One instruction is executed at a time, on vectors,    *)
(* on memory or on scalar registers.                                       *)
(***************************************************************************)
EXTENDS DataPath, MemoryPath, ScalarPath

leafVars == <<vars, memoryVars, scalarVars>>

LeafInit == Init /\ MemoryInit /\ ScalarInit

VectorStep == access = <<>> /\ form = <<>> /\ Next /\ UNCHANGED <<memoryVars, scalarVars>>
MemoryStep == inst = <<>> /\ form = <<>> /\ MemoryNext /\ UNCHANGED <<vars, scalarVars>>
ScalarStep == inst = <<>> /\ access = <<>> /\ ScalarNext /\ UNCHANGED <<vars, memoryVars>>

LeafNext == VectorStep \/ MemoryStep \/ ScalarStep

LeafSpec == LeafInit /\ [][LeafNext]_leafVars

-----------------------------------------------------------------------------
(* No Neon instruction, whether it computes or loads, leaves anything of   *)
(* the old value of a register above the part it writes (ClearForWrite).   *)
TailsCleared == TailCleared /\ LoadTailCleared
=============================================================================
