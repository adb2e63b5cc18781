------------------------------ MODULE SveForms ------------------------------
(***************************************************************************)
(* The SVE and SVE2 instructions and their visitors, as NeonForms lists    *)
(* the Neon ones; of ops that one function computes with different         *)
(* arithmetic some stand for all.  An instruction that writes a predicate, *)
(* a general register or the flags has that destination.                   *)
(***************************************************************************)
EXTENDS Sve2Visitors, NeonForms

ZB == Sve(1)
ZH == Sve(2)
ZS == Sve(4)
ZD == Sve(8)
Z == {ZB, ZH, ZS, ZD}
ZFP == {ZH, ZS, ZD}
ZLong == {ZH, ZS, ZD}
ZNarrow == {ZB, ZH, ZS}

(* Vector destination; np = 1 when governed by a predicate.                *)
Zd(visitor, ops, formats, n, np, ks, qs) == Kind("sve", visitor, ops, formats, "d", n, np, ks, qs)
Zd2(visitor, ops, formats, n, np, ks, qs) == Kind("sve2", visitor, ops, formats, "d", n, np, ks, qs)
Pd(visitor, ops, formats, n, np, ks, qs) == Kind("sve", visitor, ops, formats, "pd", n, np, ks, qs)
Xd(visitor, ops, formats, n, np) == Kind("sve", visitor, ops, formats, "x", n, np, {0}, {TRUE})

(* Elements of a 128-bit segment.                                          *)
ByIndex(isa, visitor, ops, formats, esize(_), qs) ==
  UNION {Kind(isa, visitor, ops, {f}, "d", 2, 0, Elements(esize(f)), qs) : f \in formats}

SVECountForms ==
  {Xd("IncDecRegisterByElementCount", {"dec", "inc"}, Z, 0, 0),
   Zd("IncDecVectorByElementCount", {"dec", "inc"}, ZLong, 0, 0, {0}, Lo),
   Xd("SaturatingIncDecRegisterByElementCount", {"sqdec", "sqinc", "uqdec", "uqinc"}, Z, 0, 0),
   Zd("SaturatingIncDecVectorByElementCount", {"sqdec", "sqinc", "uqdec", "uqinc"}, ZLong, 0, 0, {0}, Lo),
   Xd("ElementCount", {"cnt"}, Z, 0, 0)}

SVEPredicatedIntForms ==
  {Zd("IntAddSubtractVectors_Predicated", {"add", "sub", "subr"}, Z, 1, 1, {0}, Lo),
   Zd("IntMulVectors_Predicated", {"mul", "smulh", "umulh"}, Z, 1, 1, {0}, Lo),
   Zd("IntMinMaxDifference_Predicated", {"sabd", "smax", "smin", "uabd", "umax", "umin"}, Z, 1, 1, {0}, Lo),
   Zd("IntMulImm_Unpredicated", {"mul"}, Z, 0, 0, {0}, Lo),
   Zd("IntMinMaxImm_Unpredicated", {"smax", "smin", "umax", "umin"}, Z, 0, 0, {0}, Lo)}

SVEBitwiseForms ==
  {Zd("BitwiseLogicalUnpredicated", {"and", "bic", "eor", "orr"}, {ZD}, 2, 0, {0}, Lo),
   Zd("BitwiseShiftUnpredicated", {"asr", "lsl", "lsr"}, ZNarrow, 2, 0, {0}, Hi),
   Zd("BitwiseShiftUnpredicated", {"asr", "lsl", "lsr"}, Z, 1, 0, {0}, Lo),
   Zd("IntUnaryArithmeticPredicated", {"abs", "cls", "clz", "cnot", "cnt", "fabs", "fneg", "neg", "not", "sxt", "uxt"},
      Z, 1, 1, {0}, Lo)}

SVEIntForms ==
  {Zd("AddressGeneration", {"adr_s32", "adr_u32", "adr"}, {ZS, ZD}, 2, 0, {0}, Lo),
   Zd("BitwiseLogicalWithImm_Unpredicated", {"and", "eor", "orr"}, Z, 0, 0, {0}, Lo),
   Zd("BroadcastBitmaskImm", {"dupm"}, Z, 0, 0, {0}, Lo),
   Zd("BitwiseShiftByImm_Predicated", {"asr", "asrd", "lsl", "lsr"}, Z, 0, 1, {0}, Lo),
   Zd("BitwiseShiftByVector_Predicated", {"asr", "asrr", "lsl", "lslr", "lsr", "lsrr", "sqrshl", "sqrshlr", "srshl", "uqshlr"},
      Z, 1, 1, {0}, Lo),
   Zd("BitwiseShiftByWideElements_Predicated", {"asr", "lsl", "lsr"}, ZNarrow, 1, 1, {0}, Lo),
   Zd("IncDecByPredicateCount", {"decp", "incp", "sqdecp", "sqincp", "uqdecp", "uqincp"}, ZLong, 0, 1, {0}, Lo),
   Xd("IncDecByPredicateCount", {"decp", "incp", "sqdecp", "sqincp", "uqdecp", "uqincp"}, Z, 0, 1),
   Zd("IndexGeneration", {"index"}, Z, 0, 0, {0}, Lo),
   Zd("IntArithmeticUnpredicated", {"add", "sub", "sqadd", "sqsub", "uqadd", "uqsub"}, Z, 2, 0, {0}, Lo),
   Zd("BitwiseLogical_Predicated", {"and", "bic", "eor", "orr"}, Z, 1, 1, {0}, Lo),
   Zd("IntDivideVectors_Predicated", {"sdiv", "sdivr", "udiv", "udivr"}, {ZS, ZD}, 1, 1, {0}, Lo),
   Zd("IntAddSubtractImm_Unpredicated", {"add_uint", "sub_uint", "subr"}, Z, 0, 0, {0}, Lo),
   Zd("ConstructivePrefix_Unpredicated", {"movprfx"}, {ZD}, 1, 0, {0}, Lo),
   Zd("IntMulAddPredicated", {"mla", "mls", "mad", "msb"}, Z, 2, 1, {0}, Lo),
   Zd("IntMulAddUnpredicated", {"sdot", "udot", "usdot"}, {ZS, ZD}, 2, 0, {0}, Lo),
   Zd("Movprfx", {"movprfx"}, Z, 1, 1, {0}, BOOLEAN),
   Zd("IntReduction", {"andv", "eorv", "orv", "saddv", "smaxv", "sminv", "uaddv", "umaxv", "uminv"}, Z, 1, 1, {0}, Lo),
   Zd("CopyFPImm_Predicated", {"fcpy"}, ZFP, 0, 1, {0}, Lo),
   Zd("BroadcastIntImm_Unpredicated", {"dup"}, Z, 0, 0, {0}, Lo),
   Zd("BroadcastFPImm_Unpredicated", {"fdup"}, ZFP, 0, 0, {0}, Lo),
   ByIndex("sve", "MulIndex", {"sdot", "udot", "sudot", "usdot"}, {ZS, ZD}, LAMBDA f : f.size, Lo),
   Zd("MatrixMul", {"smmla", "ummla", "usmmla"}, {ZS}, 2, 0, {0}, Lo)}

SVEFPArithmeticForms ==
  {Zd("FPArithmetic_Predicated", {"fabd", "fadd", "fdiv", "fdivr", "fmax", "fmaxnm", "fmin", "fminnm", "fmul", "fmulx", "fscale", "fsub", "fsubr"},
      ZFP, 1, 1, {0}, Lo),
   Zd("FPArithmeticWithImm_Predicated", {"fadd", "fmax", "fmaxnm", "fmin", "fminnm", "fmul", "fsub", "fsubr"}, ZFP, 0, 1, {0}, Lo),
   Zd("FPTrigMulAddCoefficient", {"ftmad"}, ZFP, 1, 0, {0}, Lo),
   Zd("FPExponentialAccelerator", {"fexpa"}, ZFP, 1, 0, {0}, Lo),
   Zd("FPTrigSelectCoefficient", {"ftssel"}, ZFP, 2, 0, {0}, Lo)}

SVEFPForms ==
  {Zd("FPAccumulatingReduction", {"fadda"}, ZFP, 1, 1, {0}, Lo),
   Zd("FPArithmeticUnpredicated", {"fadd", "fmul", "frecps", "frsqrts", "fsub", "ftsmul"}, ZFP, 2, 0, {0}, Lo),
   Pd("FPCompareVectors", {"facge", "facgt", "fcmeq", "fcmge", "fcmgt", "fcmne", "fcmuo"}, ZFP, 2, 1, {0}, Lo),
   Pd("FPCompareWithZero", {"fcmeq", "fcmge", "fcmgt", "fcmle", "fcmlt", "fcmne"}, ZFP, 1, 1, {0}, Lo),
   Zd("FPComplexAddition", {"fcadd"}, ZFP, 1, 1, {0}, Lo),
   Zd("FPComplexMulAdd", {"fcmla"}, ZFP, 2, 1, 0..3, Lo),
   Zd("FPFastReduction", {"faddv", "fmaxnmv", "fmaxv", "fminnmv", "fminv"}, ZFP, 1, 1, {0}, Lo),
   Zd("FPMulAdd", {"fmla", "fmls", "fnmla", "fnmls", "fmad", "fmsb", "fnmad", "fnmsb"}, ZFP, 2, 1, {0}, Lo),
   Zd("FPUnaryOp", {"frecpx", "fsqrt"}, ZFP, 1, 1, {0}, Lo),
   Zd("FPRoundToIntegralValue", {"frinta", "frinti", "frintm", "frintn", "frintp", "frintx", "frintz"}, ZFP, 1, 1, {0}, Lo),
   Zd("FPUnaryOpUnpredicated", {"frecpe", "frsqrte"}, ZFP, 1, 0, {0}, Lo)}

SVEFPIndexForms ==
  {ByIndex("sve", "FPComplexMulAddIndex", {"fcmla"}, {ZH, ZS}, LAMBDA f : 2 * f.size, Lo),
   ByIndex("sve", "FPMulIndex", {"fmul"}, ZFP, LAMBDA f : f.size, Lo),
   ByIndex("sve", "FPMulAddIndex", {"fmla", "fmls"}, ZFP, LAMBDA f : f.size, Lo)}

SVEFPConvertForms ==
  {Zd("FPConvertToInt", {"fcvtzs", "fcvtzu"}, ZFP, 1, 1, {0}, Lo),
   Zd("FPConvertPrecision", {"fcvt"}, {ZS, ZD}, 1, 1, {0}, Lo),
   Zd("IntConvertToFP", {"scvtf", "ucvtf"}, ZFP, 1, 1, {0}, Lo),
   Zd("FPMatrixMul", {"fmmla"}, {ZS, ZD}, 2, 0, {0}, Lo)}

SVECompareForms ==
  {Pd("IntCompareSignedImm", {"cmpeq", "cmpge", "cmple", "cmplt"}, Z, 1, 1, {0}, Lo),
   Pd("IntCompareUnsignedImm", {"cmphi", "cmphs", "cmplo", "cmpls"}, Z, 1, 1, {0}, Lo),
   Pd("IntCompareVectors", {"cmp"}, Z, 2, 1, {0}, Lo),
   Pd("IntCompareVectors", {"cmp"}, ZNarrow, 2, 1, {0}, Hi)}

SVEPartitionForms ==
  {Pd("PartitionBreakCondition", {"brka", "brkb"}, {ZB}, 0, 2, {0}, BOOLEAN),
   Pd("PartitionBreakCondition", {"brka", "brkb"}, {ZB}, 0, 2, {1}, Lo),
   Pd("PropagateBreakToNextPartition", {"brkn"}, {ZB}, 0, 2, {0}, BOOLEAN),
   Pd("PermutePredicateElements", {"trn1", "trn2", "uzp1", "uzp2", "zip1", "zip2"}, Z, 0, 2, {0}, Lo),
   Pd("PredicateFirstActive", {"pfirst"}, {ZB}, 0, 1, {0}, Lo),
   Pd("PredicateReadFromFFR_Unpredicated", {"rdffr"}, {ZB}, 0, 0, {0}, Lo),
   Kind("sve", "PredicateTest", {"ptest"}, {ZB}, "nzcv", 0, 2, {0}, Lo),
   Pd("PredicateZero", {"pfalse"}, {ZB}, 0, 0, {0}, Lo)}

SVEPredicateForms ==
  {Pd("IntCompareScalarCountAndLimit", {"while"}, Z, 0, 0, {0}, Lo),
   Kind("sve", "ConditionallyTerminateScalars", {"ctermeq", "ctermne"}, {ZD}, "nzcv", 0, 0, {0}, Lo),
   Pd("UnpackPredicateElements", {"zip1", "zip2"}, {ZB}, 0, 1, {0}, Lo),
   Pd("ReversePredicateElements", {"rev"}, Z, 0, 1, {0}, Lo),
   Xd("PredicateCount", {"cntp"}, Z, 0, 2),
   Pd("PredicateLogical", {"and", "bic", "eor", "nand", "nor", "orn", "orr"}, {ZB}, 0, 3, {0}, BOOLEAN),
   Pd("PredicateLogical", {"sel"}, {ZB}, 0, 3, {0}, Lo),
   Pd("PredicateInitialize", {"ptrue"}, Z, 0, 0, {0}, BOOLEAN),
   Pd("PredicateNextActive", {"pnext"}, Z, 0, 1, {0}, Lo),
   Pd("PredicateReadFromFFR_Predicated", {"rdffr"}, {ZB}, 0, 1, {0}, BOOLEAN),
   Pd("PropagateBreak", {"brkpa", "brkpb"}, {ZB}, 0, 3, {0}, BOOLEAN),
   Kind("sve", "FFRInitialise", {"setffr"}, {ZB}, "ffr", 0, 0, {0}, Lo),
   Kind("sve", "FFRWriteFromPredicate", {"wrffr"}, {ZB}, "ffr", 0, 1, {0}, Lo),
   Xd("StackFrameAdjustment", {"addvl", "addpl"}, {ZB}, 0, 0),
   Xd("StackFrameSize", {"rdvl"}, {ZB}, 0, 0)}

SVEMoveForms ==
  {Zd("PermuteVectorExtract", {"ext"}, {ZB}, 1, 0, {0, 1, 15, 16, VL - 1}, Lo),
   Zd("PermuteVectorInterleaving", {"trn1", "trn2", "uzp1", "uzp2", "zip1", "zip2"}, Z, 2, 0, {0}, Lo),
   Zd("ConditionallyBroadcastElementToVector", {"clasta", "clastb"}, Z, 1, 1, {0}, Lo),
   Zd("ConditionallyExtractElementToSIMDFPScalar", {"clasta", "clastb"}, Z, 1, 1, {0}, Lo),
   Xd("ConditionallyExtractElementToGeneralRegister", {"clasta", "clastb"}, Z, 1, 1),
   Zd("ExtractElementToSIMDFPScalarRegister", {"lasta", "lastb"}, Z, 1, 1, {0}, Lo),
   Xd("ExtractElementToGeneralRegister", {"lasta", "lastb"}, Z, 1, 1),
   Zd("CompressActiveElements", {"compact"}, {ZS, ZD}, 1, 1, 0..3, Lo),
   Zd("CopyGeneralRegisterToVector_Predicated", {"cpy"}, Z, 0, 1, {0}, Lo),
   Zd("CopyIntImm_Predicated", {"cpy"}, Z, 0, 1, {0}, BOOLEAN),
   UNION {Zd("ReverseWithinElements", {"rev"}, {f}, 1, 1, {e \in {1, 2, 4} : e < f.size}, Lo) : f \in ZLong},
   Zd("ReverseWithinElements", {"rbit"}, Z, 1, 1, {0}, Lo),
   Zd("VectorSplice", {"splice"}, Z, 1, 1, 0..3, Lo),
   Zd("VectorSplice", {"splice"}, Z, 2, 1, 0..3, Hi),
   Zd("BroadcastGeneralRegister", {"dup"}, Z, 0, 0, {0}, Lo),
   Zd("InsertSIMDFPScalarRegister", {"insr"}, Z, 1, 0, {0}, Lo),
   Zd("InsertGeneralRegister", {"insr"}, Z, 0, 0, {0}, Lo),
   UNION {Zd("BroadcastIndexElement", {"dup"}, {f}, 1, 0, {0, 1, f.lanes - 1, f.lanes}, Lo) : f \in Z \cup {Sve(16)}},
   Zd("ReverseVectorElements", {"rev"}, Z, 1, 0, {0}, Lo),
   Zd("UnpackVectorElements", {"sunpk", "uunpk"}, ZLong, 1, 0, {0}, BOOLEAN),
   Zd("TableLookup", {"tbl", "tbx"}, Z, 2, 0, {0}, Lo),
   Zd("TableLookup", {"tbl"}, Z, 3, 0, {0}, Lo),
   Zd("VectorSelect", {"sel"}, Z, 2, 1, {0}, Lo)}

SVE2LongForms ==
  {ByIndex("sve2", "SaturatingIntMulLongIdx", {"mull", "mlal", "mlsl", "sqdmull"}, {ZS, ZD}, LAMBDA f : f.size \div 2, BOOLEAN),
   Zd2("ZdT_ZnT_ZmTb", AddWideOps, ZLong, 2, 0, {0}, BOOLEAN),
   Zd2("Narrow", {"sqxtn", "sqxtun", "uqxtn", "rshrn", "shrn", "sqrshrn", "uqshrn"}, ZNarrow, 1, 0, {0}, BOOLEAN),
   Zd2("AddSubHigh", {"addhn", "raddhn", "rsubhn", "subhn"}, ZNarrow, 2, 0, {0}, BOOLEAN),
   Zd2("InterleavedArithLong", {"abdl", "abal", "addl", "subl"}, ZLong, 2, 0, 0..3, Lo),
   Zd2("Pmull128", {"pmull"}, {Sve(16)}, 2, 0, {0, 1}, Lo),
   Zd2("IntMulLongVec", {"pmull"}, {ZH, ZD}, 2, 0, {0, 1}, Lo),
   Zd2("IntMulLongVec", {"mull", "sqdmull"}, ZLong, 2, 0, {0, 1}, Lo),
   Zd2("ShiftLeftImm", {"sshll", "ushll"}, ZLong, 1, 0, {0}, BOOLEAN),
   ByIndex("sve2", "ZdaD_ZnS_ZmS_imm", {"sqdmlal", "sqdmlsl"}, {ZD}, LAMBDA f : f.size \div 2, BOOLEAN),
   Zd2("ZdaS_ZnH_ZmH", {"fmlal", "fmlsl"}, {ZS}, 2, 0, {0, 1}, Lo),
   ByIndex("sve2", "ZdaS_ZnH_ZmH_imm", {"fmlal", "fmlsl", "sqdmlal", "sqdmlsl"}, {ZS}, LAMBDA f : f.size \div 2, BOOLEAN),
   Zd2("ZdaT_PgM_ZnTb", {"sadalp", "uadalp"}, ZLong, 1, 1, {0}, Lo),
   Zd2("ZdaT_ZnTb_ZmTb", {"mlal", "mlsl", "sqdmlal", "sqdmlsl"}, ZLong, 2, 0, 0..2, Lo),
   Zd2("ZdH_PgM_ZnS", {"fcvtnt", "bfcvt", "bfcvtnt"}, {ZS}, 1, 1, {0}, Lo),
   Zd2("ZdS_PgM_ZnD", {"fcvtnt", "fcvtx", "fcvtxnt"}, {ZD}, 1, 1, {0}, Lo),
   Zd2("FPConvertLong", {"fcvtlt"}, {ZS, ZD}, 1, 1, {0}, Lo)}

SVE2Forms ==
  {Kind("sve2", "PdT_PgZ_ZnT_ZmT", {"match"}, {ZB, ZH}, "pd", 2, 1, {0}, Lo),
   Kind("sve2", "PdT_Xn_Xm", {"whilerw", "whilewr"}, Z, "pd", 0, 0, {0}, Lo),
   Zd2("ZdB_Zn1B_Zn2B_imm", {"ext"}, {ZB}, 2, 0, {0, 1, 16, VL - 1}, Lo),
   Zd2("ZdB_ZnB_ZmB", {"histseg", "pmul"}, {ZB}, 2, 0, {0}, Lo),
   ByIndex("sve2", "MulIndex", {"mul"}, ZLong, LAMBDA f : f.size, Lo),
   ByIndex("sve2", "MlaMlsIndex", {"mla", "mls"}, ZLong, LAMBDA f : f.size, Lo),
   ByIndex("sve2", "SaturatingMulHighIndex", {"sqdmulh", "sqrdmulh"}, ZLong, LAMBDA f : f.size, Lo),
   Zd2("ZdT_ZnT_ZmT", {"bdep", "bext", "bgrp", "eorbt", "eortb", "mul", "smulh", "sqdmulh", "sqrdmulh", "umulh"}, Z, 2, 0, {0}, Lo),
   Zd2("ZdT_ZnT_const", {"sli", "sri"}, Z, 1, 0, {0}, Lo),
   Zd2("ExclusiveOrRotate", {"xar"}, Z, 1, 0, {0}, Lo),
   Zd2("ZdnT_ZdnT_ZmT_const", {"cadd", "sqcadd"}, Z, 1, 0, {0}, Lo),
   Zd2("BitwiseTernary", {"bcax", "bsl", "bsl1n", "bsl2n", "eor3", "nbsl"}, {ZD}, 2, 0, {0}, Lo),
   Zd2("SaturatingMulAddHigh", {"sqrdmlah", "sqrdmlsh"}, Z, 2, 0, {0}, Lo),
   ByIndex("sve2", "SaturatingMulAddHigh", {"sqrdmlah", "sqrdmlsh"}, ZLong, LAMBDA f : f.size, Hi),
   Zd2("AddSubCarry", {"adcl", "sbcl"}, {ZS, ZD}, 2, 0, {0}, BOOLEAN),
   Zd2("ZdaT_ZnT_ZmT", {"saba", "uaba"}, Z, 2, 0, {0}, Lo),
   Zd2("ComplexIntMulAdd", {"cmla", "sqrdcmlah"}, Z, 2, 0, 0..3, Lo),
   ByIndex("sve2", "ComplexIntMulAdd", {"cmla", "sqrdcmlah"}, {ZH, ZS}, LAMBDA f : 2 * f.size, Hi),
   Zd2("ZdaT_ZnT_const", {"srsra", "ssra", "ursra", "usra"}, Z, 1, 0, {0}, Lo),
   Zd2("ComplexDotProduct", {"cdot"}, {ZS, ZD}, 2, 0, 0..3, Lo),
   ByIndex("sve2", "ComplexDotProduct", {"cdot"}, {ZS, ZD}, LAMBDA f : f.size, Hi),
   Zd2("ZdS_PgM_ZnS", {"urecpe", "ursqrte"}, {ZS}, 1, 1, {0}, Lo),
   Zd2("ZdT_PgM_ZnT", {"flogb", "sqabs", "sqneg"}, Z, 1, 1, {0}, Lo),
   Zd2("ZdT_PgZ_ZnT_ZmT", {"histcnt"}, {ZS, ZD}, 2, 1, {0}, Lo),
   Zd2("HalvingAddSub", {"shadd", "shsub", "shsubr", "uhsubr"}, Z, 1, 1, {0}, Lo),
   Zd2("SaturatingArithmetic", {"sqadd", "sqsub", "sqsubr", "suqadd"}, Z, 1, 1, {0}, Lo),
   Zd2("IntArithPair", {"addp", "smaxp", "sminp", "umaxp", "uminp"}, Z, 1, 1, {0}, Lo),
   Zd2("ZdnT_PgM_ZdnT_ZmT", FPPairOps, ZFP, 1, 1, {0}, Lo),
   Zd2("ZdnT_PgM_ZdnT_const", {"sqshl", "sqshlu", "srshr", "uqshl", "urshr"}, Z, 0, 1, {0}, Lo)}

SveGroup(g) ==
  CASE g = "sve_int" -> SVECountForms \cup SVEPredicatedIntForms \cup SVEBitwiseForms \cup SVEIntForms
    [] g = "sve_fp" -> SVEFPArithmeticForms \cup SVEFPForms \cup SVEFPIndexForms \cup SVEFPConvertForms
    [] g = "sve_pred" -> SVECompareForms \cup SVEPartitionForms \cup SVEPredicateForms
    [] g = "sve_move" -> SVEMoveForms
    [] g = "sve2_long" -> SVE2LongForms
    [] g = "sve2" -> SVE2Forms

NeonGroups == {"crypto", "2reg", "3same", "3diff", "element", "move", "scalar"}

InstructionGroup(g) == IF g \in NeonGroups THEN NeonGroup(g) ELSE SveGroup(g)
=============================================================================
