---------------------------- MODULE NeonVisitors ----------------------------
(***************************************************************************)
(* The Neon and crypto visitors of simulator-aarch64.cc: which vector      *)
(* function an instruction calls, in which format, with which operands.    *)
(*                                                                         *)
(* An instruction i is a record: visitor and op name it, f is the format   *)
(* the visitor passes (the destination's, as decoded by NEONFormatDecoder),*)
(* d the destination register, s the source registers in encoding order    *)
(* (rn, rm, ra; for TBL/TBX the table registers, then rm), k the lane      *)
(* index or rotation, q the Q bit where it selects a "2" form.             *)
(***************************************************************************)
EXTENDS FpVectorLogic

-----------------------------------------------------------------------------
(* Cryptography.                                                           *)

VisitCrypto2RegSHA(R, i) ==
  LET d == i.d
      n == i.s[1]
      B == Neon(1, 16)
      mixed == Logical(ext(Fresh(R, {"t1"}), B, "t1", <<n, "t1">>, 4), "eor", B, "t1", <<d, "t1">>)
      rolled == Lanewise(mixed, Neon(4, 4), d, <<"t1">>, "rol")
      one == Lanewise(rolled, Neon(4, 1), "t1", <<"t1">>, "rol")
      top == ext(one, B, "t1", <<"t1", "t1">>, 4)
  IN CASE i.op = "sha1h" -> ror(R, Neon(4, 1), d, n)
       [] i.op = "sha1su1" -> Logical(top, "eor", B, d, <<d, "t1">>)
       [] i.op = "sha256su0" -> sha256(R, i.op, d, i.s)

VisitCrypto3RegSHA(R, i) ==
  LET B == Neon(1, 16)
      T == Logical(ext(Fresh(R, {"t1"}), B, "t1", <<i.d, i.s[1]>>, 8), "eor", B, "t1", <<"t1", i.d>>)
  IN CASE i.op \in {"sha1c", "sha1m", "sha1p"} -> sha1(R, i.op, i.d, i.s)
       [] i.op = "sha1su0" -> Logical(T, "eor", B, i.d, <<"t1", i.s[2]>>)
       [] i.op \in {"sha256h", "sha256h2", "sha256su1"} -> sha256(R, i.op, i.d, i.s)

VisitCryptoAES(R, i) ==
  LET T == Logical(Fresh(R, {"t1"}), "eor", Neon(1, 16), "t1", <<i.d, i.s[1]>>)
  IN IF i.op \in {"aese", "aesd"} THEN aes(T, i.op, i.d, "t1") ELSE aesmix(R, i.op, i.d, i.s[1])

VisitCryptoSM3(R, i) ==
  CASE i.op = "sm3partw1" -> sm3partw1(R, i.d, i.s)
    [] i.op = "sm3partw2" -> sm3partw2(R, i.d, i.s)
    [] i.op = "sm3ss1" -> sm3ss1(R, i.d, i.s)
    [] i.op \in {"sm3tt1a", "sm3tt1b", "sm3tt2a", "sm3tt2b"} -> sm3tt(R, i.op, i.d, i.s, i.k)

VisitCryptoSM4(R, i) == sm4(R, i.op, i.d, i.s)

SimulateSHA512(R, i) == sha512(R, i.op, i.d, i.s)

SimulateNEONSHA3(R, i) ==
  LET B == Neon(1, 16)
      D == Neon(8, 2)
      F == Fresh(R, {"t1"})
  IN CASE i.op = "bcax" -> Logical(Logical(F, "bic", B, "t1", Tail(i.s)), "eor", B, i.d, <<i.s[1], "t1">>)
       [] i.op = "eor3" -> Logical(Logical(F, "eor", B, "t1", Tail(i.s)), "eor", B, i.d, <<i.s[1], "t1">>)
       [] i.op = "rax1" -> Logical(ror(F, D, "t1", i.s[2]), "eor", D, i.d, <<i.s[1], "t1">>)
       [] i.op = "xar" -> ror(Logical(F, "eor", D, "t1", i.s), D, i.d, "t1")

-----------------------------------------------------------------------------
(* Two registers.                                                          *)

SimulateNEONRoundIntToSize(R, i) == FPRoundLanes(R, i.op, i.f, i.d, i.s[1])

SimulateNEONRoundInt(R, i) == FPRoundLanes(R, i.op, i.f, i.d, i.s[1])

(* Each op name carries its rounding mode and signedness.                  *)
FPToIntOps == {"fcvtas", "fcvtau", "fcvtms", "fcvtmu", "fcvtns", "fcvtnu", "fcvtps", "fcvtpu",
               "fcvtzs", "fcvtzu"}

SimulateNEONFPConvert(R, i) ==
  CASE i.op \in FPToIntOps -> FPToIntLanes(R, i.op, i.f, i.d, i.s[1])
    [] i.op = "fcvtl" -> FPLong(R, i.f, i.d, i.s[1], i.q)
    [] i.op \in {"fcvtn", "fcvtxn", "bfcvtn"} -> FPNarrow(R, i.op, i.f, i.d, i.s[1], i.q)

FPEstimateOps == {"ursqrte", "urecpe", "frsqrte", "frecpe", "frecpx"}

FPZeroOps == {"fcmgt_zero", "fcmge_zero", "fcmeq_zero", "fcmle_zero", "fcmlt_zero"}

FPRoundOps == {"frinta", "frintm", "frintn", "frintp", "frintx", "frintz", "frinti"}

SimulateNEONFP2RegMisc(R, i) ==
  CASE i.op \in FPUnaryOps -> FPUnary(R, i.op, i.f, i.d, i.s[1])
    [] i.op \in {"scvtf", "ucvtf"} -> IntToFP(R, i.op, i.f, i.d, i.s[1])
    [] i.op \in FPEstimateOps -> FPEstimate(R, i.op, i.f, i.d, i.s[1])
    [] i.op \in FPZeroOps -> FPCompareVector(R, i.op, i.f, i.d, i.s)

(* The same functions on half precision, rounding included.                *)
VisitNEON2RegMiscFP16(R, i) ==
  CASE i.op \in FPToIntOps -> FPToIntLanes(R, i.op, i.f, i.d, i.s[1])
    [] i.op \in FPRoundOps -> FPRoundLanes(R, i.op, i.f, i.d, i.s[1])
    [] OTHER -> SimulateNEONFP2RegMisc(R, i)

ReversalGroup == [rev64 |-> 8, rev32 |-> 4, rev16 |-> 2]

IntZeroOps == {"cmgt_zero", "cmge_zero", "cmeq_zero", "cmle_zero", "cmlt_zero"}

NarrowOps == {"xtn", "sqxtn", "uqxtn", "sqxtun"}

VisitNEON2RegMisc(R, i) ==
  LET f == i.f
      d == i.d
      n == i.s[1]
  IN CASE i.op \in DOMAIN ReversalGroup -> rev_byte(R, f, d, n, ReversalGroup[i.op])
       [] i.op \in {"suqadd", "usqadd"} -> Unary(R, i.op, f, d, <<d, n>>)
       [] i.op \in {"cls", "clz", "cnt"} -> Count(R, i.op, f, d, n)
       [] i.op \in {"abs", "neg", "sqabs", "sqneg"} -> Unary(R, i.op, f, d, <<n>>)
       [] i.op \in IntZeroOps -> Integer(R, i.op, f, d, <<n>>)
       [] i.op \in NarrowOps -> extractnarrow(R, i.op, f, d, n)
       [] i.op \in {"saddlp", "uaddlp"} -> addlp(R, i.op, f, d, n, FALSE)
       [] i.op \in {"sadalp", "uadalp"} -> addlp(R, i.op, f, d, n, TRUE)
       [] i.op = "not" -> not_(R, f, d, n)
       [] i.op = "rbit" -> rbit(R, f, d, n)
       [] i.op = "shll" -> ShiftLong(R, "shll", f, d, n, i.q)

-----------------------------------------------------------------------------
(* Three registers.                                                        *)

FPCompareOps == {"fcmeq", "fcmge", "fcmgt"}

FPAbsCompareOps == {"facge", "facgt"}

FPStepOps == {"frecps", "frsqrts"}

(* What the FP halves of NEON3Same, NEON3SameFP16 and their scalar         *)
(* variants share.                                                         *)
FP3(R, i) ==
  CASE i.op \in FP3SameOps -> FP3Same(R, i.op, i.f, i.d, i.s)
    [] i.op \in {"fmla", "fmls"} -> FPMulAcc(R, i.op, i.f, i.d, i.d, i.s)
    [] i.op \in FPAbsCompareOps -> FPCompareVector(R, "fabscmp", i.f, i.d, i.s)
    [] i.op \in FPCompareOps -> FPCompareVector(R, "fcmp", i.f, i.d, i.s)
    [] i.op \in FPStepOps -> FPStep(R, i.op, i.f, i.d, i.s)
    [] i.op = "fabd" -> fabd(R, i.f, i.d, i.s)
    [] i.op \in FPPairOps -> FPPair(R, i.op, i.f, i.d, i.s)

VisitNEON3SameLogical(R, i) ==
  Logical(R, i.op, i.f, i.d, IF i.op = "bsl" THEN <<i.d>> \o i.s ELSE i.s)

VisitNEON3SameFP(R, i) ==
  IF i.op \in {"fmlal", "fmlal2", "fmlsl", "fmlsl2"} THEN fmlal(R, i.op, i.f, i.d, i.s) ELSE FP3(R, i)

CompareOps == {"cmeq", "cmge", "cmgt", "cmhi", "cmhs"}

(* add, sub, sshl and ushl followed by saturation, rounding or halving.    *)
AddSubOps == {"add", "sub", "uqadd", "sqadd", "uqsub", "sqsub", "uhadd", "urhadd", "shadd",
              "srhadd", "uhsub", "shsub"}

VariableShiftOps == {"sshl", "ushl", "uqshl", "sqshl", "urshl", "srshl", "uqrshl", "sqrshl"}

VisitNEON3SameInteger(R, i) ==
  LET acc == <<i.d>> \o i.s
  IN CASE i.op \in CompareOps -> Integer(R, "cmp", i.f, i.d, i.s)
       [] i.op \in {"cmtst", "mul", "addp"} -> Integer(R, i.op, i.f, i.d, i.s)
       [] i.op \in {"mla", "mls"} -> Integer(R, i.op, i.f, i.d, acc)
       [] i.op = "pmul" -> Polynomial(R, "pmul", i.f, i.d, i.s, FALSE)
       [] i.op \in MinMaxOps -> MinMax(R, i.op, i.f, i.d, i.s)
       [] i.op \in AddSubOps \cup VariableShiftOps -> Lanewise(R, i.f, i.d, i.s, i.op)
       [] i.op \in {"sabd", "uabd"} -> absdiff(R, i.f, i.d, i.s)
       [] i.op \in {"saba", "uaba"} -> AbsDiffAccumulate(R, i.op, i.f, i.d, i.s)
       [] i.op \in {"sqdmulh", "sqrdmulh"} -> sqrdmulh(R, i.op, i.f, i.d, i.s)

VisitNEON3SameFP16(R, i) == FP3(R, i)

VisitNEON3SameExtra(R, i) ==
  CASE i.op = "fcmla" -> fcmla(R, i.f, i.d, i.s, i.d, -1, i.k)
    [] i.op = "fcadd" -> fcadd(R, i.f, i.d, i.s)
    [] i.op \in {"sdot", "udot", "usdot"} -> dot(R, i.op, i.f, i.d, i.d, i.s)
    [] i.op \in {"sqrdmlah", "sqrdmlsh"} -> sqrdmlash(R, i.op, i.f, i.d, i.s)

AddLongOps == {"uaddl", "saddl", "usubl", "ssubl"}

AddWideOps == {"uaddw", "saddw", "usubw", "ssubw"}

HighNarrowOps == {"addhn", "raddhn", "subhn", "rsubhn"}

(* The long multiplies: what the op name is after its sign.                *)
MultiplyLongOp == [smull |-> "mull", umull |-> "mull", smlal |-> "mlal", umlal |-> "mlal",
                   smlsl |-> "mlsl", umlsl |-> "mlsl"]

SaturatingMultiplyLong(R, i, s, is_2) ==
  IF i.op = "sqdmull" THEN sqdmull(R, i.f, i.d, s, is_2) ELSE sqdmlal(R, i.op, i.f, i.d, s, is_2)

(* pmull of size 3 writes a single 128-bit lane.                           *)
VisitNEON3Different(R, i) ==
  CASE i.op = "pmull" -> Polynomial(R, "pmull", i.f, i.d, i.s, i.q)
    [] i.op \in AddLongOps -> AddLong(R, i.op, i.f, i.d, i.s, i.q)
    [] i.op \in {"sabal", "uabal"} -> AbsDiffLong(R, "abal", i.f, i.d, i.s, i.q)
    [] i.op \in {"sabdl", "uabdl"} -> AbsDiffLong(R, "abdl", i.f, i.d, i.s, i.q)
    [] i.op \in DOMAIN MultiplyLongOp -> MultiplyLong(R, MultiplyLongOp[i.op], i.f, i.d, i.s, i.q)
    [] i.op \in {"sqdmlal", "sqdmlsl", "sqdmull"} -> SaturatingMultiplyLong(R, i, i.s, i.q)
    [] i.op \in AddWideOps -> AddWide(R, i.op, i.f, i.d, i.s, i.q)
    [] i.op \in HighNarrowOps -> HighNarrow(R, i.op, i.f, i.d, i.s)

FPAcrossOps == {"fmaxv", "fminv", "fmaxnmv", "fminnmv"}

VisitNEONAcrossLanes(R, i) ==
  IF i.op \in FPAcrossOps THEN FPPairedAcross(R, i.op, i.f, i.d, i.s[1])
  ELSE Across(R, i.op, i.f, i.d, i.s)

-----------------------------------------------------------------------------
(* By element.                                                             *)

SimulateNEONMulByElementLong(R, i) ==
  LET T == dup_elements_to_segments(Fresh(R, {"u3"}), HalfWidthDoubleLanes(FillQ(i.f)), "u3", i.s[2], i.k)
      s == <<i.s[1], "u3">>
  IN IF i.op \in DOMAIN MultiplyLongOp THEN MultiplyLong(T, MultiplyLongOp[i.op], i.f, i.d, s, i.q)
     ELSE SaturatingMultiplyLong(T, i, s, i.q)

SimulateNEONFPMulByElementLong(R, i) == fmlalIndexed(R, i.op, i.f, i.d, i.s, i.k)

SimulateNEONFPMulByElement(R, i) == FPByElement(R, i.op, i.f, i.d, i.s, i.k)

(* k packs the index and the rotation.                                     *)
SimulateNEONComplexMulByElement(R, i) == fcmla(R, i.f, i.d, i.s, i.d, i.k \div 4, i.k % 4)

SimulateNEONDotProdByElement(R, i) ==
  LET T == dup_elements_to_segments(Fresh(R, {"u3"}), FillQ(i.f), "u3", i.s[2], i.k)
  IN dot(T, i.op, i.f, i.d, i.d, IF i.op = "sudot" THEN <<"u3", i.s[1]>> ELSE <<i.s[1], "u3">>)

VisitNEONByIndexedElement(R, i) == ByElement(R, i.op, i.f, i.d, i.s, i.k)

-----------------------------------------------------------------------------
(* Copies, permutations, immediates.                                       *)

(* INS first clears the destination beyond a Q register; here k is the     *)
(* lane written and the source lane is the mirror image of it.             *)
VisitNEONCopy(R, i) ==
  LET q == mov(R, Neon(1, 16), i.d, i.d)
  IN CASE i.op = "ins_element" -> ins_element(q, i.f, i.d, i.k, i.s[1], QBytes \div i.f.size - 1 - i.k)
       [] i.op = "ins_general" -> ins_immediate(q, i.f, i.d, i.k)
       [] i.op = "dup_element" -> dup_element(R, i.f, i.d, i.s[1], i.k)
       [] i.op = "dup_general" -> dup_immediate(R, "imm", i.f, i.d)

VisitNEONExtract(R, i) == ext(R, i.f, i.d, i.s, i.k)

VisitNEONModifiedImmediate(R, i) ==
  IF i.op \in {"orr_imm", "bic_imm"} THEN LogicalImmediate(R, i.op, i.f, i.d, i.d)
  ELSE Immediate(R, i.op, i.f, i.d)

VisitNEONTable(R, i) ==
  LET n == Len(i.s) IN Table(R, i.op, i.f, i.d, SubSeq(i.s, 1, n - 1), i.s[n])

VisitNEONPerm(R, i) == Permute(R, i.op, i.f, i.d, i.s)

NarrowShiftOps == {"shrn", "rshrn", "uqshrn", "uqrshrn", "sqshrn", "sqrshrn", "sqshrun", "sqrshrun"}

AccumulateShiftOps == {"ssra", "usra", "srsra", "ursra"}

FixedPointOps == {"scvtf", "ucvtf", "fcvtzs", "fcvtzu"}

(* Shared by the vector and the scalar visitor.                            *)
ShiftByImmediate(R, i) ==
  CASE i.op \in {"sshr", "ushr"} -> ShiftRight(R, i.op, i.f, i.d, i.s[1])
    [] i.op \in {"shrn", "rshrn"} -> shrn(R, i.f, i.d, i.s[1])
    [] i.op \in ShiftOps -> Lanewise(R, i.f, i.d, i.s, i.op)
    [] i.op \in {"sli", "sri"} -> ShiftInsert(R, i.op, i.f, i.d, i.s[1])
    [] i.op \in AccumulateShiftOps -> ShiftAccumulate(R, i.op, i.f, i.d, i.s[1])
    [] i.op \in NarrowShiftOps -> ShiftNarrow(R, i.op, i.f, i.d, i.s[1])
    [] i.op \in FixedPointOps -> Lanewise(R, i.f, i.d, i.s, i.op)

VisitNEONShiftImmediate(R, i) ==
  IF i.op \in {"sshll", "ushll"} THEN ShiftLong(R, i.op, i.f, i.d, i.s[1], i.q)
  ELSE ShiftByImmediate(R, i)

-----------------------------------------------------------------------------
(* Scalars: the same functions in one-lane formats.                        *)

VisitNEONScalar2RegMisc(R, i) ==
  CASE i.op \in {"abs", "neg", "sqabs", "sqneg", "suqadd", "usqadd"} \cup IntZeroOps \cup NarrowOps
         -> VisitNEON2RegMisc(R, i)
    [] i.op = "fcvtxn" -> FPNarrow(R, "fcvtxn", i.f, i.d, i.s[1], FALSE)
    [] OTHER -> VisitNEON2RegMiscFP16(R, i)

VisitNEONScalar2RegMiscFP16(R, i) == VisitNEON2RegMiscFP16(R, i)

VisitNEONScalar3Diff(R, i) == SaturatingMultiplyLong(R, i, i.s, FALSE)

VisitNEONScalar3Same(R, i) ==
  IF i.op \in AddSubOps \cup VariableShiftOps \cup CompareOps \cup {"cmtst", "sqdmulh", "sqrdmulh"}
  THEN VisitNEON3SameInteger(R, i) ELSE FP3(R, i)

VisitNEONScalar3SameFP16(R, i) == FP3(R, i)

VisitNEONScalar3SameExtra(R, i) == sqrdmlash(R, i.op, i.f, i.d, i.s)

VisitNEONScalarByIndexedElement(R, i) ==
  CASE i.op \in {"sqdmull", "sqdmlal", "sqdmlsl"} -> ByElementLong(R, i.op, i.f, i.d, i.s, i.k)
    [] i.op \in {"fmul", "fmla", "fmls", "fmulx"} -> FPByElement(R, i.op, i.f, i.d, i.s, i.k)
    [] OTHER -> ByElement(R, i.op, i.f, i.d, i.s, i.k)

VisitNEONScalarCopy(R, i) == dup_element(R, i.f, i.d, i.s[1], i.k)

VisitNEONScalarPairwise(R, i) ==
  IF i.op = "addp" THEN Across(R, "addp_scalar", i.f, i.d, i.s) ELSE FPPairScalar(R, i.op, i.f, i.d, i.s[1])

VisitNEONScalarShiftImmediate(R, i) == ShiftByImmediate(R, i)
-----------------------------------------------------------------------------
(* The visitor that the decoder calls for the instruction.                 *)
VisitNeon(R, i) ==
  CASE i.visitor = "Crypto2RegSHA" -> VisitCrypto2RegSHA(R, i)
    [] i.visitor = "Crypto3RegSHA" -> VisitCrypto3RegSHA(R, i)
    [] i.visitor = "CryptoAES" -> VisitCryptoAES(R, i)
    [] i.visitor = "CryptoSM3" -> VisitCryptoSM3(R, i)
    [] i.visitor = "CryptoSM4" -> VisitCryptoSM4(R, i)
    [] i.visitor = "SHA512" -> SimulateSHA512(R, i)
    [] i.visitor = "SHA3" -> SimulateNEONSHA3(R, i)
    [] i.visitor = "RoundIntToSize" -> SimulateNEONRoundIntToSize(R, i)
    [] i.visitor = "RoundInt" -> SimulateNEONRoundInt(R, i)
    [] i.visitor = "FPConvert" -> SimulateNEONFPConvert(R, i)
    [] i.visitor = "FP2RegMisc" -> SimulateNEONFP2RegMisc(R, i)
    [] i.visitor = "2RegMiscFP16" -> VisitNEON2RegMiscFP16(R, i)
    [] i.visitor = "2RegMisc" -> VisitNEON2RegMisc(R, i)
    [] i.visitor = "3SameLogical" -> VisitNEON3SameLogical(R, i)
    [] i.visitor = "3SameFP" -> VisitNEON3SameFP(R, i)
    [] i.visitor = "3SameInteger" -> VisitNEON3SameInteger(R, i)
    [] i.visitor = "3SameFP16" -> VisitNEON3SameFP16(R, i)
    [] i.visitor = "3SameExtra" -> VisitNEON3SameExtra(R, i)
    [] i.visitor = "3Different" -> VisitNEON3Different(R, i)
    [] i.visitor = "AcrossLanes" -> VisitNEONAcrossLanes(R, i)
    [] i.visitor = "MulByElementLong" -> SimulateNEONMulByElementLong(R, i)
    [] i.visitor = "FPMulByElementLong" -> SimulateNEONFPMulByElementLong(R, i)
    [] i.visitor = "FPMulByElement" -> SimulateNEONFPMulByElement(R, i)
    [] i.visitor = "ComplexMulByElement" -> SimulateNEONComplexMulByElement(R, i)
    [] i.visitor = "DotProdByElement" -> SimulateNEONDotProdByElement(R, i)
    [] i.visitor = "ByIndexedElement" -> VisitNEONByIndexedElement(R, i)
    [] i.visitor = "Copy" -> VisitNEONCopy(R, i)
    [] i.visitor = "Extract" -> VisitNEONExtract(R, i)
    [] i.visitor = "ModifiedImmediate" -> VisitNEONModifiedImmediate(R, i)
    [] i.visitor = "Table" -> VisitNEONTable(R, i)
    [] i.visitor = "Perm" -> VisitNEONPerm(R, i)
    [] i.visitor = "ShiftImmediate" -> VisitNEONShiftImmediate(R, i)
    [] i.visitor = "Scalar2RegMisc" -> VisitNEONScalar2RegMisc(R, i)
    [] i.visitor = "Scalar2RegMiscFP16" -> VisitNEONScalar2RegMiscFP16(R, i)
    [] i.visitor = "Scalar3Diff" -> VisitNEONScalar3Diff(R, i)
    [] i.visitor = "Scalar3Same" -> VisitNEONScalar3Same(R, i)
    [] i.visitor = "Scalar3SameFP16" -> VisitNEONScalar3SameFP16(R, i)
    [] i.visitor = "Scalar3SameExtra" -> VisitNEONScalar3SameExtra(R, i)
    [] i.visitor = "ScalarByIndexedElement" -> VisitNEONScalarByIndexedElement(R, i)
    [] i.visitor = "ScalarCopy" -> VisitNEONScalarCopy(R, i)
    [] i.visitor = "ScalarPairwise" -> VisitNEONScalarPairwise(R, i)
    [] i.visitor = "ScalarShiftImmediate" -> VisitNEONScalarShiftImmediate(R, i)
=============================================================================
