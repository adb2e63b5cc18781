----------------------------- MODULE NeonForms -----------------------------
(***************************************************************************)
(* The Neon and crypto instructions and the visitors that the tables of    *)
(* the decoder and of the simulator route their forms to: visitor, op, the *)
(* formats its NEONFormatMap can yield, the number n of source registers,  *)
(* the lane indices k and the Q bit where it selects a form.               *)
(***************************************************************************)
EXTENDS NeonVisitors

-----------------------------------------------------------------------------
(* Formats, as the NEONFormatMaps of the visitors list them.               *)

F8B == Neon(1, 8)
F16B == Neon(1, 16)
F4H == Neon(2, 4)
F8H == Neon(2, 8)
F2S == Neon(4, 2)
F4S == Neon(4, 4)
F2D == Neon(8, 2)
F1Q == Neon(16, 1)

IntegerFormats == {F8B, F16B, F4H, F8H, F2S, F4S, F2D}
LogicalFormats == {F8B, F16B}
FPFormats == {F2S, F4S, F2D}
HalfFormats == {F4H, F8H}
LongFormats == {F8H, F4S, F2D}
LongPairFormats == {F4H, F8H, F2S, F4S, Neon(8, 1), F2D}
NarrowFormats == {F8B, F16B, F4H, F8H, F2S, F4S}
ElementFormats == {F4H, F8H, F2S, F4S}
ScalarFormats == {Neon(1, 1), Neon(2, 1), Neon(4, 1), Neon(8, 1)}
FPScalarFormats == {Neon(4, 1), Neon(8, 1)}
LongScalarFormats == {Neon(4, 1), Neon(8, 1)}

(* Instructions of a kind: the instruction set, the visitor, the           *)
(* destination d, n source registers, np predicates, and the index k.      *)
Kind(isa, visitor, ops, formats, d, n, np, ks, qs) ==
  [isa : {isa}, visitor : {visitor}, op : ops, f : formats, d : {d}, n : {n}, np : {np}, k : ks, q : qs]

Forms(visitor, ops, formats, n, ks, qs) == Kind("neon", visitor, ops, formats, "d", n, 0, ks, qs)

Elements(size) == 0..(QBytes \div size - 1)

Indexed(visitor, ops, formats, esize(_)) ==
  UNION {Forms(visitor, ops, {f}, 2, Elements(esize(f)), {FALSE}) : f \in formats}

Lo == {FALSE}
Hi == {TRUE}

-----------------------------------------------------------------------------
(* A row of the tables, or several that differ in size, is an op here.     *)
CryptoForms ==
  {Forms("Crypto2RegSHA", {"sha1h", "sha1su1", "sha256su0"}, {F4S}, 1, {0}, Lo),
   Forms("Crypto3RegSHA", {"sha1c", "sha1m", "sha1p", "sha1su0", "sha256h", "sha256h2", "sha256su1"}, {F4S}, 2, {0}, Lo),
   Forms("CryptoAES", {"aese", "aesd", "aesmc", "aesimc"}, {F16B}, 1, {0}, Lo),
   Forms("CryptoSM3", {"sm3partw1", "sm3partw2"}, {F4S}, 2, {0}, Lo),
   Forms("CryptoSM3", {"sm3ss1"}, {F4S}, 3, {0}, Lo),
   Forms("CryptoSM3", {"sm3tt1a", "sm3tt1b", "sm3tt2a", "sm3tt2b"}, {F4S}, 2, 0..3, Lo),
   Forms("CryptoSM4", {"sm4e"}, {F4S}, 1, {0}, Lo),
   Forms("CryptoSM4", {"sm4ekey"}, {F4S}, 2, {0}, Lo)}

SHA3Forms ==
  {Forms("SHA512", {"sha512su0"}, {F2D}, 1, {0}, Lo),
   Forms("SHA512", {"sha512h", "sha512h2", "sha512su1"}, {F2D}, 2, {0}, Lo),
   Forms("SHA3", {"bcax", "eor3"}, {F16B}, 3, {0}, Lo),
   Forms("SHA3", {"rax1", "xar"}, {F2D}, 2, {0}, Lo)}

NEON2RegMiscFP16Forms ==
  {Forms("2RegMiscFP16", FPToIntOps \cup FPRoundOps \cup FPUnaryOps \cup FPZeroOps
             \cup {"scvtf", "ucvtf", "frecpe", "frsqrte"}, HalfFormats, 1, {0}, Lo)}

NEON2RegMiscForms ==
  {Forms("2RegMisc", {"rev64"}, NarrowFormats, 1, {0}, Lo),
   Forms("2RegMisc", {"rev32"}, {F8B, F16B, F4H, F8H}, 1, {0}, Lo),
   Forms("2RegMisc", {"rev16", "cnt", "not", "rbit"}, LogicalFormats, 1, {0}, Lo),
   Forms("2RegMisc", {"cls", "clz"}, NarrowFormats, 1, {0}, Lo),
   Forms("2RegMisc", {"suqadd", "usqadd", "abs", "neg", "sqabs", "sqneg"} \cup IntZeroOps, IntegerFormats, 1, {0}, Lo),
   Forms("2RegMisc", NarrowOps, NarrowFormats, 1, {0}, Lo),
   Forms("2RegMisc", {"saddlp", "uaddlp", "sadalp", "uadalp"}, LongPairFormats, 1, {0}, Lo),
   Forms("2RegMisc", {"shll"}, LongFormats, 1, {0}, BOOLEAN)}

NEONFP2RegForms ==
  {Forms("RoundIntToSize", {"frint32x", "frint32z", "frint64x", "frint64z"}, FPFormats, 1, {0}, Lo),
   Forms("RoundInt", FPRoundOps, FPFormats, 1, {0}, Lo),
   Forms("FPConvert", FPToIntOps, FPFormats, 1, {0}, Lo),
   Forms("FPConvert", {"fcvtl"}, {F4S, F2D}, 1, {0}, BOOLEAN),
   Forms("FPConvert", {"fcvtn"}, {F4H, F2S}, 1, {0}, Lo),
   Forms("FPConvert", {"fcvtn"}, {F8H, F4S}, 1, {0}, Hi),
   Forms("FPConvert", {"fcvtxn"}, {F2S}, 1, {0}, Lo),
   Forms("FPConvert", {"fcvtxn"}, {F4S}, 1, {0}, Hi),
   Forms("FPConvert", {"bfcvtn"}, {F4H}, 1, {0}, Lo),
   Forms("FPConvert", {"bfcvtn"}, {F8H}, 1, {0}, Hi),
   Forms("FP2RegMisc", (FPUnaryOps \cup {"scvtf", "ucvtf"} \cup FPEstimateOps \cup FPZeroOps) \ {"frecpx"},
             FPFormats, 1, {0}, Lo)}

NEON3SameNarrowForms ==
  {Forms("3SameInteger", MinMaxOps \cup {"mul", "mla", "mls", "sabd", "uabd", "saba", "uaba"}, NarrowFormats, 2, {0}, Lo),
   Forms("3SameInteger", {"pmul"}, LogicalFormats, 2, {0}, Lo),
   Forms("3SameInteger", {"uhadd", "urhadd", "shadd", "srhadd", "uhsub", "shsub"}, NarrowFormats, 2, {0}, Lo),
   Forms("3SameLogical", LogicalOps \ {"sub", "sub_uint"}, LogicalFormats, 2, {0}, Lo),
   Forms("3SameFP", {"fmlal", "fmlal2", "fmlsl", "fmlsl2"}, {F2S, F4S}, 2, {0}, Lo)}

NEON3SameFP16Forms ==
  {Forms("3SameFP16", {"fmla", "fmls", "fabd"} \cup FPAbsCompareOps \cup FPCompareOps \cup FPStepOps
             \cup FPPairOps \cup FP3SameOps, HalfFormats, 2, {0}, Lo)}

NEON3SameExtraForms ==
  {Forms("3SameExtra", {"fcmla"}, HalfFormats \cup FPFormats, 2, 0..3, Lo),
   Forms("3SameExtra", {"fcadd"}, HalfFormats \cup FPFormats, 2, {0}, Lo),
   Forms("3SameExtra", {"sdot", "udot", "usdot"}, {F2S, F4S}, 2, {0}, Lo),
   Forms("3SameExtra", {"sqrdmlah", "sqrdmlsh"}, ElementFormats, 2, {0}, Lo)}

NEON3SameForms ==
  {Forms("3SameInteger", CompareOps \cup {"add", "sub", "uqadd", "sqadd", "uqsub", "sqsub"} \cup VariableShiftOps
             \cup {"cmtst", "addp"}, IntegerFormats, 2, {0}, Lo),
   Forms("3SameInteger", {"sqdmulh", "sqrdmulh"}, ElementFormats, 2, {0}, Lo),
   Forms("3SameFP", {"fmla", "fmls", "fabd"} \cup FPAbsCompareOps \cup FPCompareOps \cup FPStepOps
             \cup FPPairOps \cup FP3SameOps, FPFormats, 2, {0}, Lo)}

NEON3DifferentForms ==
  {Forms("3Different", AddLongOps \cup AddWideOps \cup DOMAIN MultiplyLongOp
        \cup {"sabal", "uabal", "sabdl", "uabdl"}, LongFormats, 2, {0}, BOOLEAN),
   Forms("3Different", {"pmull"}, {F8H, F1Q}, 2, {0}, BOOLEAN),
   Forms("3Different", {"sqdmlal", "sqdmlsl", "sqdmull"}, {F4S, F2D}, 2, {0}, BOOLEAN),
   Forms("3Different", HighNarrowOps, NarrowFormats, 2, {0}, Lo)}

NEONAcrossLanesForms ==
  {Forms("AcrossLanes", AcrossOps \ {"addp_scalar"}, {F8B, F16B, F4H, F8H, F4S}, 1, {0}, Lo),
   Forms("AcrossLanes", FPAcrossOps, {F4H, F8H, F4S}, 1, {0}, Lo)}

NEONByIndexedElementForms ==
  {UNION {Forms("MulByElementLong", DOMAIN MultiplyLongOp \cup {"sqdmull", "sqdmlal", "sqdmlsl"},
               {f}, 2, Elements(f.size \div 2), BOOLEAN) : f \in {F4S, F2D}},
   Forms("FPMulByElementLong", {"fmlal", "fmlal2", "fmlsl", "fmlsl2"}, {F2S, F4S}, 2, 0..7, Lo),
   Indexed("FPMulByElement", {"fmul", "fmla", "fmls", "fmulx"}, HalfFormats \cup FPFormats, LAMBDA f : f.size),
   Forms("ComplexMulByElement", {"fcmla"}, {F4H}, 2, 0..7, Lo),
   Forms("ComplexMulByElement", {"fcmla"}, {F8H}, 2, 0..15, Lo),
   Forms("ComplexMulByElement", {"fcmla"}, {F4S}, 2, 0..7, Lo),
   Forms("DotProdByElement", {"sdot", "udot", "usdot", "sudot"}, {F2S, F4S}, 2, 0..3, Lo),
   Indexed("ByIndexedElement", {"mul", "mla", "mls", "sqdmulh", "sqrdmulh", "sqrdmlah", "sqrdmlsh"},
               ElementFormats, LAMBDA f : f.size)}

NEONShiftImmediateForms ==
  {Forms("ShiftImmediate", {"shl", "sqshl", "uqshl", "sqshlu", "sshr", "ushr", "srshr", "urshr", "sli", "sri"}
             \cup AccumulateShiftOps, IntegerFormats, 1, {0}, Lo),
   Forms("ShiftImmediate", FixedPointOps, HalfFormats \cup FPFormats, 1, {0}, Lo),
   Forms("ShiftImmediate", {"sshll", "ushll"}, LongFormats, 1, {0}, BOOLEAN),
   Forms("ShiftImmediate", NarrowShiftOps, NarrowFormats, 1, {0}, Lo)}

NEONModifiedImmediateForms ==
  {Forms("ModifiedImmediate", {"orr_imm", "bic_imm", "movi", "mvni"}, {F4H, F8H, F2S, F4S}, 0, {0}, Lo),
   UNION {Forms("Table", {"tbl", "tbx"}, LogicalFormats, n + 1, {0}, Lo) : n \in 1..4}}

NEONMoveForms ==
  {UNION {Forms("Copy", {"ins_element", "ins_general"}, {f}, 1, Elements(f.size), Lo) : f \in {F16B, F8H, F4S, F2D}},
   UNION {Forms("Copy", {"dup_element"}, {f}, 1, Elements(f.size), Lo) : f \in IntegerFormats},
   Forms("Copy", {"dup_general"}, IntegerFormats, 0, {0}, Lo),
   Forms("Extract", {"ext"}, {F8B}, 2, 0..7, Lo),
   Forms("Extract", {"ext"}, {F16B}, 2, 0..15, Lo),
   Forms("Perm", {"trn1", "trn2", "uzp1", "uzp2", "zip1", "zip2"}, IntegerFormats, 2, {0}, Lo)}

NEONScalar2RegMiscForms ==
  {Forms("Scalar2RegMisc", {"abs", "neg", "sqabs", "sqneg", "suqadd", "usqadd"} \cup IntZeroOps, ScalarFormats, 1, {0}, Lo),
   Forms("Scalar2RegMisc", NarrowOps \ {"xtn"}, ScalarFormats \ {Neon(8, 1)}, 1, {0}, Lo),
   Forms("Scalar2RegMisc", FPToIntOps \cup FPZeroOps \cup {"scvtf", "ucvtf", "frecpe", "frecpx", "frsqrte"},
             FPScalarFormats, 1, {0}, Lo),
   Forms("Scalar2RegMisc", {"fcvtxn"}, {Neon(4, 1)}, 1, {0}, Lo)}

NEONScalar2RegMiscFP16Forms ==
  {Forms("Scalar2RegMiscFP16", FPToIntOps \cup FPZeroOps \cup {"scvtf", "ucvtf", "frecpe", "frecpx", "frsqrte"},
             {Neon(2, 1)}, 1, {0}, Lo)}

NEONScalar3SameForms ==
  {Forms("Scalar3Same", CompareOps \cup VariableShiftOps
             \cup {"add", "sub", "uqadd", "sqadd", "uqsub", "sqsub", "cmtst"}, ScalarFormats, 2, {0}, Lo),
   Forms("Scalar3Same", {"sqdmulh", "sqrdmulh"}, {Neon(2, 1), Neon(4, 1)}, 2, {0}, Lo),
   Forms("Scalar3Same", {"fmulx", "fabd"} \cup FPAbsCompareOps \cup FPCompareOps \cup FPStepOps, FPScalarFormats, 2, {0}, Lo)}

NEONScalar3SameFP16Forms ==
  {Forms("Scalar3SameFP16", {"fmulx", "fabd"} \cup FPAbsCompareOps \cup FPCompareOps \cup FPStepOps, {Neon(2, 1)}, 2, {0}, Lo)}

NEONScalarByIndexedElementForms ==
  {Indexed("ScalarByIndexedElement", {"sqdmull", "sqdmlal", "sqdmlsl"}, LongScalarFormats, LAMBDA f : f.size \div 2),
   Indexed("ScalarByIndexedElement", {"sqdmulh", "sqrdmulh", "sqrdmlah", "sqrdmlsh"}, {Neon(2, 1), Neon(4, 1)}, LAMBDA f : f.size),
   Indexed("ScalarByIndexedElement", {"fmul", "fmla", "fmls", "fmulx"}, ScalarFormats \ {Neon(1, 1)}, LAMBDA f : f.size)}

NEONScalarShiftImmediateForms ==
  {Forms("ScalarShiftImmediate", {"shl", "sli", "sri", "sshr", "ushr", "srshr", "urshr"} \cup AccumulateShiftOps,
             {Neon(8, 1)}, 1, {0}, Lo),
   Forms("ScalarShiftImmediate", {"sqshl", "uqshl", "sqshlu"}, ScalarFormats, 1, {0}, Lo),
   Forms("ScalarShiftImmediate", NarrowShiftOps \ {"shrn", "rshrn"}, ScalarFormats \ {Neon(8, 1)}, 1, {0}, Lo),
   Forms("ScalarShiftImmediate", FixedPointOps, ScalarFormats \ {Neon(1, 1)}, 1, {0}, Lo)}

NEONScalarPairwiseForms ==
  {Forms("ScalarPairwise", {"addp"}, {Neon(8, 1)}, 1, {0}, Lo),
   Forms("ScalarPairwise", FPPairOps, ScalarFormats \ {Neon(1, 1)}, 1, {0}, Lo)}

NEONScalarOtherForms ==
  {Forms("Scalar3Diff", {"sqdmlal", "sqdmlsl", "sqdmull"}, LongScalarFormats, 2, {0}, Lo),
   Forms("Scalar3SameExtra", {"sqrdmlah", "sqrdmlsh"}, {Neon(2, 1), Neon(4, 1)}, 2, {0}, Lo),
   UNION {Forms("ScalarCopy", {"dup_element"}, {f}, 1, Elements(f.size), Lo) : f \in ScalarFormats}}

(* A group is a set of kinds.                                              *)
NeonGroup(g) ==
  CASE g = "crypto" -> CryptoForms \cup SHA3Forms
    [] g = "2reg" -> NEON2RegMiscFP16Forms \cup NEON2RegMiscForms \cup NEONFP2RegForms
    [] g = "3same" -> NEON3SameNarrowForms \cup NEON3SameFP16Forms \cup NEON3SameExtraForms \cup NEON3SameForms
    [] g = "3diff" -> NEON3DifferentForms \cup NEONAcrossLanesForms
    [] g = "element" -> NEONByIndexedElementForms
    [] g = "move" -> NEONShiftImmediateForms \cup NEONModifiedImmediateForms \cup NEONMoveForms
    [] g = "scalar" -> NEONScalar2RegMiscForms \cup NEONScalar2RegMiscFP16Forms \cup NEONScalar3SameForms \cup NEONScalar3SameFP16Forms \cup NEONScalarByIndexedElementForms \cup NEONScalarShiftImmediateForms \cup NEONScalarPairwiseForms \cup NEONScalarOtherForms
=============================================================================
