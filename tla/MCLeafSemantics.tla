-------------------------- MODULE MCLeafSemantics --------------------------
(* Instances of LeafSemantics for TLC: every group of instructions, on     *)
(* vectors of two 128-bit segments, 144 bytes of memory and X registers of *)
(* 8 bits.                                                                 *)
EXTENDS LeafSemantics

AllGroups == NeonGroups \cup {"sve_int", "sve_fp", "sve_pred", "sve_move", "sve2_long", "sve2"}
LongGroup == {"sve2_long"}

AllAccesses == {"neon", "sve", "fault", "gather", "scalar", "block"}

AllForms == {"addsub", "counts", "tags", "system", "flags", "bits", "multiply", "sources", "convert", "fp"}
BitForms == {"bits"}

None == {}
=============================================================================
