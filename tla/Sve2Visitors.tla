---------------------------- MODULE Sve2Visitors ----------------------------
(***************************************************************************)
(* The SVE2 functions of simulator-aarch64.cc that the form table calls    *)
(* (Simulate_..., SimulateSVE...), in the style of SveVisitors.            *)
(*                                                                         *)
(* The long instructions take the even ("bottom") or odd ("top") elements  *)
(* of their sources: i.k is 0 for bottom and bottom, 1 for top and top, 2  *)
(* for bottom and top, 3 for top and bottom; in the indexed forms i.q      *)
(* selects the top and i.k is the element.                                 *)
(***************************************************************************)
EXTENDS SveVisitors

Bottom == "uzp1"
Top == "uzp2"

(* The chosen elements of the sources, packed into w1 and w2.              *)
Packed(R, i) ==
  LET h == HalfWidth(i.f)
      T == PackElements(Scratch(R), IF i.k \in {0, 2} THEN Bottom ELSE Top, h, "w1", i.s[1])
  IN PackElements(T, IF i.k \in {0, 3} THEN Bottom ELSE Top, h, "w2", i.s[2])

(* The same with one element of each segment as the second operand.        *)
PackedIndex(R, i) ==
  LET h == HalfWidth(i.f)
      T == dup_elements_to_segments(Fresh(Scratch(R), {"w3"}), h, "w3", i.s[2], i.k)
      U == PackElements(T, Bottom, h, "w2", "w3")
  IN PackElements(U, IF i.q THEN Top ELSE Bottom, h, "w1", i.s[1])

LongSources == <<"w1", "w2">>

-----------------------------------------------------------------------------
(* Predicates.                                                             *)

(* match writes all of pd; pg is applied, and tested, after that.          *)
Simulate_PdT_PgZ_ZnT_ZmT(R, i) ==
  LET T == match(R, i.f, i.d, i.s)
  IN PredTest(PMovZeroing(T, i.d, i.p[1], i.d), i.f, i.p[1], i.d)

(* whilerw, whilewr: lanes of pd from two general registers.               *)
Simulate_PdT_Xn_Xm(R, i) == PredTest(ptrue(R, i.f, i.d), i.f, PTrue, i.d)

-----------------------------------------------------------------------------
(* Vectors without predicates.                                             *)

Simulate_ZdB_Zn1B_Zn2B_imm(R, i) == ext(R, Sve(1), i.d, i.s, i.k)

Simulate_ZdB_ZnB_ZmB(R, i) ==
  IF i.op = "histseg" THEN histogram(R, Sve(1), i.d, PTrue, i.s, TRUE) ELSE Lanewise(R, Sve(1), i.d, i.s, "pmul")

SimulateSVEMulIndex(R, i) == Integer(Spread(R, i), "mul", i.f, i.d, <<i.s[1], "w2">>)

SimulateSVEMlaMlsIndex(R, i) == Integer(Spread(R, i), i.op, i.f, i.d, <<i.d, i.s[1], "w2">>)

SimulateSVESaturatingMulHighIndex(R, i) == sqrdmulh(Spread(R, i), i.op, i.f, i.d, <<i.s[1], "w2">>)

(* smull, umull, smlal, umlal, smlsl, umlsl, sqdmull.                      *)
LongMultiply(R, i, s) ==
  IF i.op = "sqdmull" THEN sqdmull(R, i.f, i.d, s, FALSE) ELSE MultiplyLong(R, i.op, i.f, i.d, s, FALSE)

SimulateSVESaturatingIntMulLongIdx(R, i) == LongMultiply(PackedIndex(R, i), i, LongSources)

(* eorbt and eortb rotate one operand so that the other's neighbour lines  *)
(* up, and keep every second lane of the destination.                      *)
Simulate_ZdT_ZnT_ZmT(R, i) ==
  LET start == IF i.op = "eorbt" THEN 0 ELSE 1
      T == rotate_elements_right(Scratch(R), i.f, "w1", i.s[2], IF i.op = "eorbt" THEN 1 ELSE -1)
      U == SVEBitwiseLogicalUnpredicatedHelper(T, "eor", Sve(8), "w1", <<i.s[1], "w1">>)
  IN CASE i.op = "bdep" -> bdep(R, i.f, i.d, i.s)
       [] i.op \in {"bext", "bgrp"} -> bgrp(R, i.op, i.f, i.d, i.s)
       [] i.op \in {"eorbt", "eortb"} -> mov_alternating(U, i.f, i.d, "w1", start)
       [] i.op \in {"smulh", "umulh"} -> mulh(R, i.op, i.f, i.d, i.s)
       [] i.op \in {"sqdmulh", "sqrdmulh"} -> sqrdmulh(R, i.op, i.f, i.d, i.s)
       [] i.op = "mul" -> Integer(R, "mul", i.f, i.d, i.s)

(* saddw, ssubw, uaddw, usubw.                                             *)
Simulate_ZdT_ZnT_ZmTb(R, i) ==
  LET T == PackElements(Scratch(R), IF i.q THEN Top ELSE Bottom, HalfWidth(i.f), "w2", i.s[2])
  IN AddWide(T, i.op, i.f, i.d, <<i.s[1], "w2">>, FALSE)

Simulate_ZdT_ZnT_const(R, i) == ShiftInsert(R, i.op, i.f, i.d, i.s[1])

(* The narrow results are interleaved with zeros, or (q) with the even     *)
(* elements of the old destination, which is narrowed in place first.      *)
TopOrBottom(T, i) ==
  IF i.q THEN Permute(extractnarrow(T, "xtn", i.f, i.d, i.d), "zip1", i.f, i.d, <<i.d, "w1">>)
  ELSE Permute(T, "zip1", i.f, i.d, <<"w1", "w2">>)

SimulateSVENarrow(R, i) ==
  TopOrBottom(CASE i.op \in {"sqxtn", "sqxtun", "uqxtn"} -> extractnarrow(Scratch(R), i.op, i.f, "w1", i.s[1])
                [] i.op \in {"shrn", "rshrn"} -> shrn(Scratch(R), i.f, "w1", i.s[1])
                [] i.op \in {"sqrshrn", "uqshrn"} -> ShiftNarrow(Scratch(R), i.op, i.f, "w1", i.s[1]), i)

(* addhn, raddhn, subhn, rsubhn.                                           *)
SimulateSVEAddSubHigh(R, i) == TopOrBottom(HighNarrow(Scratch(R), i.op, i.f, "w1", i.s), i)

SimulateSVEInterleavedArithLong(R, i) ==
  IF i.op \in {"abdl", "abal"} THEN AbsDiffLong(Packed(R, i), i.op, i.f, i.d, LongSources, FALSE)
  ELSE AddLong(Packed(R, i), i.op, i.f, i.d, LongSources, FALSE)

SimulateSVEPmull128(R, i) == Polynomial(Packed(R, i), "pmull", i.f, i.d, LongSources, FALSE)

SimulateSVEIntMulLongVec(R, i) ==
  IF i.op = "pmull" THEN Polynomial(Packed(R, i), "pmull", i.f, i.d, LongSources, FALSE)
  ELSE LongMultiply(Packed(R, i), i, LongSources)

SimulateSVEShiftLeftImm(R, i) ==
  LET T == PackElements(Scratch(R), IF i.q THEN Top ELSE Bottom, HalfWidth(i.f), "w1", i.s[1])
  IN ShiftLong(T, i.op, i.f, i.d, "w1", FALSE)

SimulateSVEExclusiveOrRotate(R, i) ==
  ror(Lanewise(R, i.f, i.d, <<i.d, i.s[1]>>, "eor"), i.f, i.d, i.d)

(* cadd and sqcadd.                                                        *)
Simulate_ZdnT_ZdnT_ZmT_const(R, i) == cadd(R, i.f, i.d, <<i.d, i.s[1]>>)

SimulateSVEBitwiseTernary(R, i) ==
  LET f == Sve(8)
      zm == i.s[1]
      zk == i.s[2]
      Temp(op, s) == Lanewise(Scratch(R), f, "w1", s, op)
  IN CASE i.op = "bcax" -> Lanewise(Temp("bic", <<zm, zk>>), f, i.d, <<"w1", i.d>>, "eor")
       [] i.op = "bsl1n" -> Lanewise(not_(Scratch(R), f, "w1", i.d), f, i.d, <<zk, "w1", zm>>, "bsl")
       [] i.op = "bsl2n" -> Lanewise(not_(Scratch(R), f, "w1", zm), f, i.d, <<zk, i.d, "w1">>, "bsl")
       [] i.op = "bsl" -> Lanewise(R, f, i.d, <<zk, i.d, zm>>, "bsl")
       [] i.op = "eor3" -> Lanewise(Temp("eor", <<i.d, zm>>), f, i.d, <<"w1", zk>>, "eor")
       [] i.op = "nbsl" -> not_(Lanewise(R, f, i.d, <<zk, i.d, zm>>, "bsl"), f, i.d, i.d)

-----------------------------------------------------------------------------
(* Accumulating into zda.                                                  *)

(* q: the indexed form.                                                    *)
SimulateSVESaturatingMulAddHigh(R, i) ==
  sqrdmlash(IF i.q THEN Spread(R, i) ELSE R, i.op, i.f, i.d, IF i.q THEN <<i.s[1], "w2">> ELSE i.s)

Simulate_ZdaD_ZnS_ZmS_imm(R, i) == sqdmlal(PackedIndex(R, i), i.op, i.f, i.d, LongSources, FALSE)

Simulate_ZdaS_ZnH_ZmH(R, i) == fmlal(Packed(R, i), i.op, i.f, i.d, LongSources)

Simulate_ZdaS_ZnH_ZmH_imm(R, i) ==
  IF i.op \in {"fmlal", "fmlsl"} THEN fmlal(PackedIndex(R, i), i.op, i.f, i.d, LongSources)
  ELSE sqdmlal(PackedIndex(R, i), i.op, i.f, i.d, LongSources, FALSE)

(* sadalp and uadalp add to what `result` holds, which is zero.            *)
Simulate_ZdaT_PgM_ZnTb(R, i) == Merged(addlp(Scratch(R), i.op, i.f, "w1", i.s[1], TRUE), i)

(* q: the top form; sbcl inverts zn.                                       *)
SimulateSVEAddSubCarry(R, i) ==
  LET T == not_(Scratch(R), i.f, "w1", i.s[1])
  IN adcl(T, i.f, i.d, IF i.op = "sbcl" THEN <<"w1", i.s[2]>> ELSE i.s, i.q)

Simulate_ZdaT_ZnT_ZmT(R, i) == AbsDiffAccumulate(R, i.op, i.f, i.d, i.s)

(* q: the indexed form; k is the rotation, or the index.                   *)
SimulateSVEComplexIntMulAdd(R, i) ==
  CASE i.op = "cmla" /\ ~i.q -> cmla(R, i.f, i.d, i.d, i.s, i.k)
    [] i.op = "cmla" /\ i.q -> cmlaIndexed(R, i.f, i.d, i.d, i.s, i.k, 0)
    [] i.op = "sqrdcmlah" /\ ~i.q -> sqrdcmlah(R, i.f, i.d, i.d, i.s, i.k)
    [] i.op = "sqrdcmlah" /\ i.q -> sqrdcmlahIndexed(R, i.f, i.d, i.d, i.s, i.k, 0)

Simulate_ZdaT_ZnT_const(R, i) == ShiftAccumulate(R, i.op, i.f, i.d, i.s[1])

(* smlal, umlal, smlsl, umlsl, sqdmlal, sqdmlsl.                           *)
Simulate_ZdaT_ZnTb_ZmTb(R, i) ==
  IF i.op \in {"mlal", "mlsl"} THEN MultiplyLong(Packed(R, i), i.op, i.f, i.d, LongSources, FALSE)
  ELSE sqdmlal(Packed(R, i), i.op, i.f, i.d, LongSources, FALSE)

(* q: the indexed form.                                                    *)
SimulateSVEComplexDotProduct(R, i) ==
  dot(IF i.q THEN Spread(R, i) ELSE R, "cdot", i.f, i.d, i.d, IF i.q THEN <<i.s[1], "w2">> ELSE i.s)

-----------------------------------------------------------------------------
(* Under a predicate.  In the conversions f is the wide format.            *)

(* fcvtnt, bfcvt, bfcvtnt, and the same from D to S (fcvtx, fcvtxnt): the  *)
(* even elements of the destination are packed before it is written.       *)
NarrowConversion(R, i) ==
  LET h == HalfWidth(i.f)
      zd_b == PackElements(Fresh(Scratch(R), {"w3"}), Bottom, h, "w3", i.d)
      fcvt == PackElements(PredicatedConvert(zd_b, "fcvt", i.f, "w1", i.p[1], i.s[1]), Bottom, h, "w1", "w1")
      narrow == FPNarrow(zd_b, i.op, h, "w1", i.s[1], FALSE)
  IN CASE i.op = "fcvtnt" -> Merged(Permute(fcvt, "zip1", h, "w1", <<"w3", "w1">>), i)
       [] i.op \in {"bfcvt", "fcvtx"} -> Merged(Permute(narrow, "zip1", h, "w1", <<"w1", "w2">>), i)
       [] i.op \in {"bfcvtnt", "fcvtxnt"} -> Merged(Permute(narrow, "zip1", h, "w1", <<"w3", "w1">>), i)

Simulate_ZdH_PgM_ZnS(R, i) == NarrowConversion(R, i)

Simulate_ZdS_PgM_ZnD(R, i) == NarrowConversion(R, i)

(* The odd elements are shifted down into a temporary.                     *)
SimulateSVEFPConvertLong(R, i) ==
  LET T == ext(Scratch(R), Sve(1), "w1", <<i.s[1], i.s[1]>>, i.f.size \div 2)
  IN PredicatedConvert(T, "fcvt", i.f, i.d, i.p[1], "w1")

Simulate_ZdS_PgM_ZnS(R, i) == Merged(FPEstimate(Scratch(R), i.op, i.f, "w1", i.s[1]), i)

Simulate_ZdT_PgM_ZnT(R, i) ==
  Merged(IF i.op = "flogb" THEN flogb(Scratch(R), i.f, "w1", i.s[1])
         ELSE Unary(Scratch(R), i.op, i.f, "w1", i.s), i)

Simulate_ZdT_PgZ_ZnT_ZmT(R, i) ==
  mov_zeroing(histogram(Scratch(R), i.f, "w1", i.p[1], i.s, FALSE), i.f, i.d, i.p[1], "w1")

SimulateSVEHalvingAddSub(R, i) == MergedBinary(R, i)

SimulateSVESaturatingArithmetic(R, i) == MergedBinary(R, i)

SimulateSVEIntArithPair(R, i) ==
  Merged(IF i.op = "addp" THEN Integer(Scratch(R), "addp", i.f, "w1", Zdn(i))
         ELSE MinMax(Scratch(R), i.op, i.f, "w1", Zdn(i)), i)

Simulate_ZdnT_PgM_ZdnT_ZmT(R, i) == Merged(FPPair(Scratch(R), i.op, i.f, "w1", Zdn(i)), i)

Simulate_ZdnT_PgM_ZdnT_const(R, i) == Merged(Lanewise(Scratch(R), i.f, "w1", <<i.d>>, i.op), i)

-----------------------------------------------------------------------------
(* The function that the form table names for the instruction.             *)
VisitSve2(R, i) ==
  CASE i.visitor = "PdT_PgZ_ZnT_ZmT" -> Simulate_PdT_PgZ_ZnT_ZmT(R, i)
    [] i.visitor = "PdT_Xn_Xm" -> Simulate_PdT_Xn_Xm(R, i)
    [] i.visitor = "ZdB_Zn1B_Zn2B_imm" -> Simulate_ZdB_Zn1B_Zn2B_imm(R, i)
    [] i.visitor = "ZdB_ZnB_ZmB" -> Simulate_ZdB_ZnB_ZmB(R, i)
    [] i.visitor = "MulIndex" -> SimulateSVEMulIndex(R, i)
    [] i.visitor = "MlaMlsIndex" -> SimulateSVEMlaMlsIndex(R, i)
    [] i.visitor = "SaturatingMulHighIndex" -> SimulateSVESaturatingMulHighIndex(R, i)
    [] i.visitor = "SaturatingIntMulLongIdx" -> SimulateSVESaturatingIntMulLongIdx(R, i)
    [] i.visitor = "ZdT_ZnT_ZmT" -> Simulate_ZdT_ZnT_ZmT(R, i)
    [] i.visitor = "ZdT_ZnT_ZmTb" -> Simulate_ZdT_ZnT_ZmTb(R, i)
    [] i.visitor = "ZdT_ZnT_const" -> Simulate_ZdT_ZnT_const(R, i)
    [] i.visitor = "Narrow" -> SimulateSVENarrow(R, i)
    [] i.visitor = "AddSubHigh" -> SimulateSVEAddSubHigh(R, i)
    [] i.visitor = "InterleavedArithLong" -> SimulateSVEInterleavedArithLong(R, i)
    [] i.visitor = "Pmull128" -> SimulateSVEPmull128(R, i)
    [] i.visitor = "IntMulLongVec" -> SimulateSVEIntMulLongVec(R, i)
    [] i.visitor = "ShiftLeftImm" -> SimulateSVEShiftLeftImm(R, i)
    [] i.visitor = "ExclusiveOrRotate" -> SimulateSVEExclusiveOrRotate(R, i)
    [] i.visitor = "ZdnT_ZdnT_ZmT_const" -> Simulate_ZdnT_ZdnT_ZmT_const(R, i)
    [] i.visitor = "BitwiseTernary" -> SimulateSVEBitwiseTernary(R, i)
    [] i.visitor = "SaturatingMulAddHigh" -> SimulateSVESaturatingMulAddHigh(R, i)
    [] i.visitor = "ZdaD_ZnS_ZmS_imm" -> Simulate_ZdaD_ZnS_ZmS_imm(R, i)
    [] i.visitor = "ZdaS_ZnH_ZmH" -> Simulate_ZdaS_ZnH_ZmH(R, i)
    [] i.visitor = "ZdaS_ZnH_ZmH_imm" -> Simulate_ZdaS_ZnH_ZmH_imm(R, i)
    [] i.visitor = "ZdaT_PgM_ZnTb" -> Simulate_ZdaT_PgM_ZnTb(R, i)
    [] i.visitor = "AddSubCarry" -> SimulateSVEAddSubCarry(R, i)
    [] i.visitor = "ZdaT_ZnT_ZmT" -> Simulate_ZdaT_ZnT_ZmT(R, i)
    [] i.visitor = "ComplexIntMulAdd" -> SimulateSVEComplexIntMulAdd(R, i)
    [] i.visitor = "ZdaT_ZnT_const" -> Simulate_ZdaT_ZnT_const(R, i)
    [] i.visitor = "ZdaT_ZnTb_ZmTb" -> Simulate_ZdaT_ZnTb_ZmTb(R, i)
    [] i.visitor = "ComplexDotProduct" -> SimulateSVEComplexDotProduct(R, i)
    [] i.visitor = "ZdH_PgM_ZnS" -> Simulate_ZdH_PgM_ZnS(R, i)
    [] i.visitor = "ZdS_PgM_ZnD" -> Simulate_ZdS_PgM_ZnD(R, i)
    [] i.visitor = "FPConvertLong" -> SimulateSVEFPConvertLong(R, i)
    [] i.visitor = "ZdS_PgM_ZnS" -> Simulate_ZdS_PgM_ZnS(R, i)
    [] i.visitor = "ZdT_PgM_ZnT" -> Simulate_ZdT_PgM_ZnT(R, i)
    [] i.visitor = "ZdT_PgZ_ZnT_ZmT" -> Simulate_ZdT_PgZ_ZnT_ZmT(R, i)
    [] i.visitor = "HalvingAddSub" -> SimulateSVEHalvingAddSub(R, i)
    [] i.visitor = "SaturatingArithmetic" -> SimulateSVESaturatingArithmetic(R, i)
    [] i.visitor = "IntArithPair" -> SimulateSVEIntArithPair(R, i)
    [] i.visitor = "ZdnT_PgM_ZdnT_ZmT" -> Simulate_ZdnT_PgM_ZdnT_ZmT(R, i)
    [] i.visitor = "ZdnT_PgM_ZdnT_const" -> Simulate_ZdnT_PgM_ZdnT_const(R, i)
=============================================================================
