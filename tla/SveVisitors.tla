---------------------------- MODULE SveVisitors ----------------------------
(***************************************************************************)
(* The SVE visitors of simulator-aarch64.cc that work on registers, in the *)
(* style of NeonVisitors.  The predicate operands of an instruction are    *)
(* i.p (pg first, then pn and pm); d names a predicate register when the   *)
(* result is a predicate.  A visitor's `result` is the temporary w1, its   *)
(* `scratch` w2.                                                           *)
(***************************************************************************)
EXTENDS SveLogic

Scratch(R) == Fresh(R, {"w1", "w2"})

(* mov_merging(vform, zd, pg, result)                                      *)
Merged(T, i) == mov_merging(T, i.f, i.d, i.p[1], "w1")

(* op and opr differ in the order of zdn and zm.                           *)
ReversedOps == {"asrr", "lslr", "lsrr", "sqrshlr", "sqshlr", "srshlr", "uqrshlr", "uqshlr", "urshlr",
                "fdivr", "fsubr", "subr", "sdivr", "udivr", "shsubr", "uhsubr", "sqsubr", "uqsubr"}

Zdn(i) == IF i.op \in ReversedOps THEN <<i.s[1], i.d>> ELSE <<i.d, i.s[1]>>

(* result = op(zdn, zm), merged into zdn.                                  *)
MergedBinary(R, i) == Merged(Lanewise(Scratch(R), i.f, "w1", Zdn(i), i.op), i)

(* Results in a general register.                                          *)
ToGeneral(R, op, args) == [R EXCEPT !["x"] = Compute(op, 8, args)]

-----------------------------------------------------------------------------
(* Addresses, immediates, shifts.                                          *)

VisitSVEAddressGeneration(R, i) ==
  LET T == mov(Scratch(R), Sve(8), "w1", i.s[2])
      U == IF i.op \in {"adr_s32", "adr_u32"} THEN Lanewise(T, Sve(8), "w1", <<"w1">>, i.op) ELSE T
  IN Lanewise(Lanewise(U, i.f, "w1", <<"w1">>, "shl"), i.f, i.d, <<i.s[1], "w1">>, "add")

VisitSVEBitwiseLogicalWithImm_Unpredicated(R, i) == SVEBitwiseImmHelper(R, i.op, i.f, i.d)

VisitSVEBroadcastBitmaskImm(R, i) == dup_immediate(R, "imm", i.f, i.d)

VisitSVEBitwiseLogicalUnpredicated(R, i) ==
  SVEBitwiseLogicalUnpredicatedHelper(R, i.op, Sve(8), i.d, i.s)

VisitSVEBitwiseShiftByImm_Predicated(R, i) ==
  LET T == IF i.op = "asrd" THEN asrd(Scratch(R), i.f, "w1", i.d)
           ELSE SVEBitwiseShiftHelper(dup_immediate(Scratch(R), "imm", i.f, "w2"), i.op, i.f, "w1", <<i.d, "w2">>, FALSE)
  IN Merged(T, i)

VisitSVEBitwiseShiftByVector_Predicated(R, i) ==
  IF i.op \in {"asr", "asrr", "lsr", "lsrr"}
  THEN Merged(ShiftRegister(Scratch(R), IF i.op \in {"asr", "asrr"} THEN "sshr" ELSE "ushr", i.f, "w1", Zdn(i)), i)
  ELSE MergedBinary(R, i)

VisitSVEBitwiseShiftByWideElements_Predicated(R, i) ==
  Merged(SVEBitwiseShiftHelper(Scratch(R), i.op, i.f, "w1", <<i.d, i.s[1]>>, TRUE), i)

VisitSVEBitwiseShiftUnpredicated(R, i) ==
  IF i.q THEN SVEBitwiseShiftHelper(R, i.op, i.f, i.d, i.s, TRUE)
  ELSE SVEBitwiseShiftHelper(dup_immediate(Scratch(R), "imm", i.f, "w2"), i.op, i.f, i.d, <<i.s[1], "w2">>, FALSE)

-----------------------------------------------------------------------------
(* Counting elements and predicates.                                       *)

VisitSVEIncDecRegisterByElementCount(R, i) == ToGeneral(R, i.op, R["x"])

VisitSVEIncDecVectorByElementCount(R, i) ==
  Lanewise(dup_immediate(Scratch(R), "count", i.f, "w2"), i.f, i.d, <<i.d, "w2">>, i.op)

VisitSVESaturatingIncDecRegisterByElementCount(R, i) == ToGeneral(R, i.op, R["x"])

VisitSVESaturatingIncDecVectorByElementCount(R, i) ==
  Lanewise(dup_immediate(Scratch(R), "count", i.f, "w2"), i.f, i.d, <<i.d, "w2">>, i.op)

VisitSVEElementCount(R, i) == ToGeneral(R, i.op, <<>>)

(* The lanes are counted before the vector is changed.                     *)
VisitSVEIncDecByPredicateCount(R, i) ==
  LET count == AllActive(R, i.p[1], i.f)
  IN IF i.q THEN ToGeneral(R, i.op, R["x"] \o count)
     ELSE For(R, i.f.lanes, LAMBDA S, j : SetLane(S, i.d, i.f.size, j,
            Compute(i.op, i.f.size, <<Arg(S, i.d, i.f.size, j)>> \o count)))

VisitSVEIndexGeneration(R, i) == index_(R, i.f, i.d)

-----------------------------------------------------------------------------
(* Floating point.                                                         *)

VisitSVEFPAccumulatingReduction(R, i) == fadda(R, i.f, i.d, i.p[1], i.s[1])

VisitSVEFPArithmetic_Predicated(R, i) ==
  CASE i.op = "fabd" -> Merged(fabd(Scratch(R), i.f, "w1", Zdn(i)), i)
    [] i.op = "fscale" -> Merged(fscale(Scratch(R), i.f, "w1", Zdn(i)), i)
    [] OTHER -> MergedBinary(R, i)

VisitSVEFPArithmeticWithImm_Predicated(R, i) ==
  LET s == IF i.op = "fsubr" THEN <<"w2", i.d>> ELSE <<i.d, "w2">>
  IN Merged(Lanewise(dup_immediate(Scratch(R), "imm", i.f, "w2"), i.f, "w1", s, i.op), i)

VisitSVEFPTrigMulAddCoefficient(R, i) == ftmad(R, i.f, i.d, <<i.d, i.s[1]>>)

VisitSVEFPArithmeticUnpredicated(R, i) ==
  IF i.op = "ftsmul" THEN ftsmul(R, i.f, i.d, i.s) ELSE Lanewise(R, i.f, i.d, i.s, i.op)

(* The result becomes the predicate, then the predicate is masked.         *)
Zeroed(T, i) == PMovZeroing(ExtractFromSimVRegister(T, i.f, i.d, "w1"), i.d, i.p[1], i.d)

VisitSVEFPCompareVectors(R, i) ==
  Zeroed(FPCompareVector(Scratch(R), IF i.op \in {"facge", "facgt"} THEN "fabscmp" ELSE "fcmp", i.f, "w1", i.s), i)

VisitSVEFPCompareWithZero(R, i) == Zeroed(Lanewise(Scratch(R), i.f, "w1", <<i.s[1], "w2">>, i.op), i)

VisitSVEFPComplexAddition(R, i) == Merged(fcadd(Scratch(R), i.f, "w1", <<i.d, i.s[1]>>), i)

VisitSVEFPComplexMulAdd(R, i) == Merged(fcmla(Scratch(R), i.f, "w1", i.s, i.d, -1, i.k), i)

VisitSVEFPComplexMulAddIndex(R, i) ==
  LET T == dup_elements_to_segments(Scratch(R), DoubleWidth(i.f), "w2", i.s[2], i.k)
  IN fcmla(T, i.f, i.d, <<i.s[1], "w2">>, i.d, -1, 0)

(* Inactive lanes are replaced by a neutral value before reducing.         *)
VisitSVEFPFastReduction(R, i) ==
  LET T == dup_immediate(Scratch(R), "neutral", i.f, "w2")
  IN FPPairedAcross(mov_merging(T, i.f, "w2", i.p[1], i.s[1]), i.op, i.f, i.d, "w2")

(* SVE by-element: the element of each segment is spread over a temporary. *)
Spread(R, i) == dup_elements_to_segments(Scratch(R), i.f, "w2", i.s[2], i.k)

VisitSVEFPMulIndex(R, i) == Lanewise(Spread(R, i), i.f, i.d, <<i.s[1], "w2">>, "fmul")

(* Writing the addend (fmla) or the multiplicand (fmad); the negated forms *)
(* negate the addend first.                                                *)
VisitSVEFPMulAdd(R, i) ==
  LET writing_addend == i.op \in {"fmla", "fmls", "fnmla", "fnmls"}
      addend == IF writing_addend THEN i.d ELSE i.s[2]
      factors == IF writing_addend THEN i.s ELSE <<i.d, i.s[1]>>
      negated == Lanewise(Scratch(R), i.f, "w1", <<addend>>, "fneg")
  IN Merged(IF i.op \in {"fnmla", "fnmls", "fnmad", "fnmsb"}
            THEN FPMulAcc(negated, i.op, i.f, "w1", "w1", factors)
            ELSE FPMulAcc(Scratch(R), i.op, i.f, "w1", addend, factors), i)

VisitSVEFPMulAddIndex(R, i) == FPMulAcc(Spread(R, i), i.op, i.f, i.d, i.d, <<i.s[1], "w2">>)

(* f is the wider of the two formats.                                      *)
VisitSVEFPConvertToInt(R, i) == PredicatedConvert(R, i.op, i.f, i.d, i.p[1], i.s[1])

VisitSVEFPConvertPrecision(R, i) == PredicatedConvert(R, i.op, i.f, i.d, i.p[1], i.s[1])

VisitSVEFPUnaryOp(R, i) == Merged(Lanewise(Scratch(R), i.f, "w1", i.s, i.op), i)

VisitSVEFPRoundToIntegralValue(R, i) == Merged(FPRoundLanes(Scratch(R), i.op, i.f, "w1", i.s[1]), i)

VisitSVEIntConvertToFP(R, i) == PredicatedConvert(R, i.op, i.f, i.d, i.p[1], i.s[1])

VisitSVEFPUnaryOpUnpredicated(R, i) == FPEstimate(R, i.op, i.f, i.d, i.s[1])

VisitSVEFPExponentialAccelerator(R, i) == fexpa(R, i.f, i.d, i.s[1])

VisitSVEFPTrigSelectCoefficient(R, i) == ftssel(R, i.f, i.d, i.s)
-----------------------------------------------------------------------------
(* Integers.                                                               *)

VisitSVEIntArithmeticUnpredicated(R, i) == Lanewise(R, i.f, i.d, i.s, i.op)

VisitSVEIntAddSubtractVectors_Predicated(R, i) == MergedBinary(R, i)

VisitSVEBitwiseLogical_Predicated(R, i) ==
  Merged(SVEBitwiseLogicalUnpredicatedHelper(Scratch(R), i.op, i.f, "w1", Zdn(i)), i)

VisitSVEIntMulVectors_Predicated(R, i) ==
  IF i.op = "mul" THEN MergedBinary(R, i) ELSE Merged(mulh(Scratch(R), i.op, i.f, "w1", Zdn(i)), i)

VisitSVEIntMinMaxDifference_Predicated(R, i) == MergedBinary(R, i)

VisitSVEIntMulImm_Unpredicated(R, i) ==
  Lanewise(dup_immediate(Scratch(R), "imm", i.f, "w2"), i.f, i.d, <<i.d, "w2">>, "mul")

VisitSVEIntDivideVectors_Predicated(R, i) == MergedBinary(R, i)

VisitSVEIntMinMaxImm_Unpredicated(R, i) ==
  Lanewise(dup_immediate(Scratch(R), "imm", i.f, "w2"), i.f, i.d, <<i.d, "w2">>, i.op)

(* add_uint and sub_uint take the immediate; subr goes through a vector.   *)
VisitSVEIntAddSubtractImm_Unpredicated(R, i) ==
  IF i.op = "subr"
  THEN Lanewise(dup_immediate(Scratch(R), "imm", i.f, "w2"), i.f, i.d, <<"w2", i.d>>, "sub")
  ELSE Lanewise(R, i.f, i.d, <<i.d>>, i.op)

(* WHILE: lanes of pd from two general registers, then the flags.          *)
VisitSVEIntCompareScalarCountAndLimit(R, i) == PredTest(ptrue(R, i.f, i.d), i.f, PTrue, i.d)

VisitSVEConditionallyTerminateScalars(R, i) ==
  [R EXCEPT !["nzcv"] = Compute(i.op, 1, <<R["nzcv"]>>)]

(* The immediate is spread first; le, lt, lo and ls swap the operands.     *)
CompareImmediate(R, i) ==
  LET T == dup_immediate(Scratch(R), "imm", i.f, "w2")
      s == IF i.op \in {"cmple", "cmplt", "cmplo", "cmpls"} THEN <<"w2", i.s[1]>> ELSE <<i.s[1], "w2">>
  IN SVEIntCompareVectorsHelper(T, i.f, i.d, i.p[1], s, FALSE, TRUE)

VisitSVEIntCompareSignedImm(R, i) == CompareImmediate(R, i)

VisitSVEIntCompareUnsignedImm(R, i) == CompareImmediate(R, i)

(* q: the second operand has wide elements.                                *)
VisitSVEIntCompareVectors(R, i) == SVEIntCompareVectorsHelper(R, i.f, i.d, i.p[1], i.s, i.q, TRUE)

VisitSVEConstructivePrefix_Unpredicated(R, i) == mov(R, Sve(8), i.d, i.s[1])

(* mla and mls write the addend, mad and msb a factor.                     *)
VisitSVEIntMulAddPredicated(R, i) ==
  LET s == IF i.op \in {"mla", "mls"} THEN <<i.d, i.s[1], i.s[2]>> ELSE <<i.s[1], i.d, i.s[2]>>
  IN Merged(Integer(Scratch(R), IF i.op \in {"mla", "mad"} THEN "mla" ELSE "mls", i.f, "w1", s), i)

VisitSVEIntMulAddUnpredicated(R, i) == dot(R, i.op, i.f, i.d, i.d, i.s)

VisitSVEMovprfx(R, i) ==
  IF i.q THEN mov_merging(R, i.f, i.d, i.p[1], i.s[1]) ELSE mov_zeroing(R, i.f, i.d, i.p[1], i.s[1])

(* saddv and uaddv widen to a D register.                                  *)
VisitSVEIntReduction(R, i) ==
  PredicatedReduce(R, i.op, i.f, i.d, i.p[1], i.s[1], IF i.op \in {"saddv", "uaddv"} THEN 8 ELSE i.f.size)

VisitSVEIntUnaryArithmeticPredicated(R, i) ==
  LET n == i.s[1]
      T == CASE i.op \in {"cls", "clz", "cnt", "cnot"} -> Count(Scratch(R), i.op, i.f, "w1", n)
             [] i.op \in {"sxt", "uxt"} -> ExtendLanes(Scratch(R), i.op, i.f, "w1", n)
             [] i.op = "not" -> not_(Scratch(R), i.f, "w1", n)
             [] i.op \in FPUnaryOps -> FPUnary(Scratch(R), i.op, i.f, "w1", n)
             [] i.op \in {"abs", "neg"} -> Unary(Scratch(R), i.op, i.f, "w1", <<n>>)
  IN Merged(T, i)

VisitSVECopyFPImm_Predicated(R, i) == Merged(dup_immediate(Scratch(R), "imm", i.f, "w1"), i)

VisitSVEBroadcastIntImm_Unpredicated(R, i) == dup_immediate(R, "imm", i.f, i.d)

VisitSVEBroadcastFPImm_Unpredicated(R, i) == dup_immediate(R, "imm", i.f, i.d)

(* dot products by element; sudot swaps the operands.                      *)
VisitSVEMulIndex(R, i) ==
  dot(Spread(R, i), i.op, i.f, i.d, i.d, IF i.op = "sudot" THEN <<"w2", i.s[1]>> ELSE <<i.s[1], "w2">>)

SimulateMatrixMul(R, i) == Matmul(R, i.op, i.f, i.d, i.s)

SimulateSVEFPMatrixMul(R, i) == fmatmul(R, i.f, i.d, i.s)

-----------------------------------------------------------------------------
(* Predicates.  q: the instruction sets the flags.                         *)

Flags(R, i, mask) == IF i.q THEN PredTest(R, Sve(1), mask, i.d) ELSE R

(* The mask is pg as it is when pd has been written.                       *)
VisitSVEPartitionBreakCondition(R, i) ==
  LET T == Break(Scratch(R), i.op, "w1", i.p[1], i.p[2])
  IN IF i.k = 1 THEN PMovMerging(T, i.d, i.p[1], "w1")
     ELSE Flags(PMovZeroing(T, i.d, i.p[1], "w1"), i, i.p[1])

VisitSVEPropagateBreakToNextPartition(R, i) == Flags(brkn(R, i.d, i.p[1], i.p[2]), i, PTrue)

VisitSVEUnpackPredicateElements(R, i) ==
  LET T == Permute(ExpandToSimVRegister(Scratch(R), "w1", i.p[1]), i.op, Sve(1), "w1", <<"w1", "w2">>)
  IN ExtractFromSimVRegister(T, Sve(1), i.d, "w1")

VisitSVEPermutePredicateElements(R, i) ==
  LET T == ExpandToSimVRegister(ExpandToSimVRegister(Scratch(R), "w1", i.p[1]), "w2", i.p[2])
  IN ExtractFromSimVRegister(Permute(T, i.op, i.f, "w1", <<"w1", "w2">>), Sve(1), i.d, "w1")

VisitSVEReversePredicateElements(R, i) ==
  LET T == ExpandToSimVRegister(Scratch(R), "w1", i.p[1])
  IN ExtractFromSimVRegister(rev(T, i.f, "w1", "w1"), Sve(1), i.d, "w1")

VisitSVEPredicateCount(R, i) ==
  ToGeneral(R, "cntp", AllActive(R, i.p[1], i.f) \o AllActive(R, i.p[2], i.f))

VisitSVEPredicateLogical(R, i) ==
  IF i.op = "sel" THEN PredicateLogical(R, "sel", i.d, i.p)
  ELSE LET T == PredicateLogical(Scratch(R), i.op, "w1", Tail(i.p))
       IN Flags(PMovZeroing(T, i.d, i.p[1], "w1"), i, i.p[1])

VisitSVEPredicateFirstActive(R, i) == PredTest(pfirst(R, i.d, i.p[1], i.d), Sve(1), i.p[1], i.d)

(* ptrues tests the new predicate under itself.                            *)
VisitSVEPredicateInitialize(R, i) ==
  LET T == ptrue(R, i.f, i.d) IN IF i.q THEN PredTest(T, i.f, i.d, i.d) ELSE T

VisitSVEPredicateNextActive(R, i) == PredTest(pnext(R, i.f, i.d, i.p[1], i.d), i.f, i.p[1], i.d)

VisitSVEPredicateReadFromFFR_Predicated(R, i) == Flags(PMovZeroing(R, i.d, i.p[1], "ffr"), i, i.p[1])

VisitSVEPredicateReadFromFFR_Unpredicated(R, i) == mov(R, Sve(1), i.d, "ffr")

VisitSVEPredicateTest(R, i) == PredTest(R, Sve(1), i.p[1], i.p[2])

VisitSVEPredicateZero(R, i) == pfalse(R, i.d)

VisitSVEPropagateBreak(R, i) == Flags(BreakPropagate(R, i.op, i.d, i.p[1], Tail(i.p)), i, i.p[1])

VisitSVEFFRInitialise(R, i) == ptrue(R, Sve(1), "ffr")

(* The copy of pn must be a run of true bits from the bottom, or the       *)
(* simulator aborts.                                                       *)
VisitSVEFFRWriteFromPredicate(R, i) == mov(R, Sve(1), "ffr", i.p[1])

VisitSVEStackFrameAdjustment(R, i) == ToGeneral(R, i.op, <<>>)

VisitSVEStackFrameSize(R, i) == ToGeneral(R, i.op, <<>>)

-----------------------------------------------------------------------------
(* Permutations and element moves.                                         *)

VisitSVEPermuteVectorExtract(R, i) == ext(R, Sve(1), i.d, <<i.d, i.s[1]>>, i.k)

VisitSVEPermuteVectorInterleaving(R, i) == Permute(R, i.op, i.f, i.d, i.s)

(* The last active element, or the old destination when none is.           *)
VisitSVEConditionallyBroadcastElementToVector(R, i) ==
  LET value == clast(R, i.f, i.p[1], i.s[1])
  IN For(R, i.f.lanes, LAMBDA S, j : SetLane(S, i.d, i.f.size, j,
       Compute(i.op, i.f.size, <<Arg(S, i.d, i.f.size, j)>> \o value)))

VisitSVEConditionallyExtractElementToSIMDFPScalar(R, i) ==
  LET v == Compute(i.op, i.f.size, <<Arg(R, i.d, i.f.size, 0)>> \o clast(R, i.f, i.p[1], i.s[1]))
  IN SetLane(pfalse(R, i.d), i.d, i.f.size, 0, v)

VisitSVEConditionallyExtractElementToGeneralRegister(R, i) ==
  ToGeneral(R, i.op, R["x"] \o clast(R, i.f, i.p[1], i.s[1]))

VisitSVEExtractElementToSIMDFPScalarRegister(R, i) ==
  SetLane(pfalse(R, i.d), i.d, i.f.size, 0, Compute(i.op, i.f.size, clast(R, i.f, i.p[1], i.s[1])))

VisitSVEExtractElementToGeneralRegister(R, i) == ToGeneral(R, i.op, clast(R, i.f, i.p[1], i.s[1]))

(* k stands for the contents of pg where they steer the data.              *)
ActiveLanes(i) ==
  CASE i.k = 0 -> {}
    [] i.k = 1 -> 0..(i.f.lanes - 1)
    [] i.k = 2 -> {j \in 0..(i.f.lanes - 1) : j % 2 = 1}
    [] i.k = 3 -> {j \in 0..(i.f.lanes - 1) : j > 0 /\ j < i.f.lanes - 1}

VisitSVECompressActiveElements(R, i) == compact(R, i.f, i.d, i.s[1], ActiveLanes(i))

VisitSVECopyGeneralRegisterToVector_Predicated(R, i) == Merged(dup_immediate(Scratch(R), "imm", i.f, "w1"), i)

VisitSVECopyIntImm_Predicated(R, i) ==
  LET T == dup_immediate(Scratch(R), "imm", i.f, "w1")
  IN IF i.q THEN Merged(T, i) ELSE mov_zeroing(T, i.f, i.d, i.p[1], "w1")

(* k is the size of the elements reversed within the lanes of f.           *)
VisitSVEReverseWithinElements(R, i) ==
  Merged(IF i.op = "rbit" THEN rbit(Scratch(R), i.f, "w1", i.s[1])
         ELSE rev_byte(Scratch(R), Sve(i.k), "w1", i.s[1], i.f.size), i)

(* q: the constructive form, on two consecutive registers.                 *)
VisitSVEVectorSplice(R, i) ==
  splice(R, i.f, i.d, IF i.q THEN i.s ELSE <<i.d, i.s[1]>>, ActiveLanes(i))

VisitSVEBroadcastGeneralRegister(R, i) == dup_immediate(R, "imm", i.f, i.d)

(* The scalar is read before insr shifts.                                  *)
VisitSVEInsertSIMDFPScalarRegister(R, i) ==
  SetLane(insr(R, i.f, i.d), i.d, i.f.size, 0, Lane(R, i.s[1], i.f.size, 0))

VisitSVEInsertGeneralRegister(R, i) == insr(R, i.f, i.d)

(* An index beyond the register gives zero.                                *)
VisitSVEBroadcastIndexElement(R, i) ==
  IF i.k >= i.f.lanes THEN pfalse(R, i.d) ELSE dup_element(R, i.f, i.d, i.s[1], i.k)

VisitSVEReverseVectorElements(R, i) == rev(R, i.f, i.d, i.s[1])

VisitSVEUnpackVectorElements(R, i) == unpk(R, i.op, i.f, i.d, i.s[1], i.q)

VisitSVETableLookup(R, i) ==
  LET n == Len(i.s) IN Table(R, IF i.op = "tbx" THEN "tbx" ELSE "tbl", i.f, i.d, SubSeq(i.s, 1, n - 1), i.s[n])

VisitSVEVectorSelect(R, i) == sel(R, i.f, i.d, i.p[1], i.s)

-----------------------------------------------------------------------------
(* The visitor that the decoder calls for the instruction.                 *)
VisitSve(R, i) ==
  CASE i.visitor = "AddressGeneration" -> VisitSVEAddressGeneration(R, i)
    [] i.visitor = "BitwiseLogicalWithImm_Unpredicated" -> VisitSVEBitwiseLogicalWithImm_Unpredicated(R, i)
    [] i.visitor = "BroadcastBitmaskImm" -> VisitSVEBroadcastBitmaskImm(R, i)
    [] i.visitor = "BitwiseLogicalUnpredicated" -> VisitSVEBitwiseLogicalUnpredicated(R, i)
    [] i.visitor = "BitwiseShiftByImm_Predicated" -> VisitSVEBitwiseShiftByImm_Predicated(R, i)
    [] i.visitor = "BitwiseShiftByVector_Predicated" -> VisitSVEBitwiseShiftByVector_Predicated(R, i)
    [] i.visitor = "BitwiseShiftByWideElements_Predicated" -> VisitSVEBitwiseShiftByWideElements_Predicated(R, i)
    [] i.visitor = "BitwiseShiftUnpredicated" -> VisitSVEBitwiseShiftUnpredicated(R, i)
    [] i.visitor = "IncDecRegisterByElementCount" -> VisitSVEIncDecRegisterByElementCount(R, i)
    [] i.visitor = "IncDecVectorByElementCount" -> VisitSVEIncDecVectorByElementCount(R, i)
    [] i.visitor = "SaturatingIncDecRegisterByElementCount" -> VisitSVESaturatingIncDecRegisterByElementCount(R, i)
    [] i.visitor = "SaturatingIncDecVectorByElementCount" -> VisitSVESaturatingIncDecVectorByElementCount(R, i)
    [] i.visitor = "ElementCount" -> VisitSVEElementCount(R, i)
    [] i.visitor = "IncDecByPredicateCount" -> VisitSVEIncDecByPredicateCount(R, i)
    [] i.visitor = "IndexGeneration" -> VisitSVEIndexGeneration(R, i)
    [] i.visitor = "FPAccumulatingReduction" -> VisitSVEFPAccumulatingReduction(R, i)
    [] i.visitor = "FPArithmetic_Predicated" -> VisitSVEFPArithmetic_Predicated(R, i)
    [] i.visitor = "FPArithmeticWithImm_Predicated" -> VisitSVEFPArithmeticWithImm_Predicated(R, i)
    [] i.visitor = "FPTrigMulAddCoefficient" -> VisitSVEFPTrigMulAddCoefficient(R, i)
    [] i.visitor = "FPArithmeticUnpredicated" -> VisitSVEFPArithmeticUnpredicated(R, i)
    [] i.visitor = "FPCompareVectors" -> VisitSVEFPCompareVectors(R, i)
    [] i.visitor = "FPCompareWithZero" -> VisitSVEFPCompareWithZero(R, i)
    [] i.visitor = "FPComplexAddition" -> VisitSVEFPComplexAddition(R, i)
    [] i.visitor = "FPComplexMulAdd" -> VisitSVEFPComplexMulAdd(R, i)
    [] i.visitor = "FPComplexMulAddIndex" -> VisitSVEFPComplexMulAddIndex(R, i)
    [] i.visitor = "FPFastReduction" -> VisitSVEFPFastReduction(R, i)
    [] i.visitor = "FPMulIndex" -> VisitSVEFPMulIndex(R, i)
    [] i.visitor = "FPMulAdd" -> VisitSVEFPMulAdd(R, i)
    [] i.visitor = "FPMulAddIndex" -> VisitSVEFPMulAddIndex(R, i)
    [] i.visitor = "FPConvertToInt" -> VisitSVEFPConvertToInt(R, i)
    [] i.visitor = "FPConvertPrecision" -> VisitSVEFPConvertPrecision(R, i)
    [] i.visitor = "FPUnaryOp" -> VisitSVEFPUnaryOp(R, i)
    [] i.visitor = "FPRoundToIntegralValue" -> VisitSVEFPRoundToIntegralValue(R, i)
    [] i.visitor = "IntConvertToFP" -> VisitSVEIntConvertToFP(R, i)
    [] i.visitor = "FPUnaryOpUnpredicated" -> VisitSVEFPUnaryOpUnpredicated(R, i)
    [] i.visitor = "FPExponentialAccelerator" -> VisitSVEFPExponentialAccelerator(R, i)
    [] i.visitor = "FPTrigSelectCoefficient" -> VisitSVEFPTrigSelectCoefficient(R, i)
    [] i.visitor = "IntArithmeticUnpredicated" -> VisitSVEIntArithmeticUnpredicated(R, i)
    [] i.visitor = "IntAddSubtractVectors_Predicated" -> VisitSVEIntAddSubtractVectors_Predicated(R, i)
    [] i.visitor = "BitwiseLogical_Predicated" -> VisitSVEBitwiseLogical_Predicated(R, i)
    [] i.visitor = "IntMulVectors_Predicated" -> VisitSVEIntMulVectors_Predicated(R, i)
    [] i.visitor = "IntMinMaxDifference_Predicated" -> VisitSVEIntMinMaxDifference_Predicated(R, i)
    [] i.visitor = "IntMulImm_Unpredicated" -> VisitSVEIntMulImm_Unpredicated(R, i)
    [] i.visitor = "IntDivideVectors_Predicated" -> VisitSVEIntDivideVectors_Predicated(R, i)
    [] i.visitor = "IntMinMaxImm_Unpredicated" -> VisitSVEIntMinMaxImm_Unpredicated(R, i)
    [] i.visitor = "IntAddSubtractImm_Unpredicated" -> VisitSVEIntAddSubtractImm_Unpredicated(R, i)
    [] i.visitor = "IntCompareScalarCountAndLimit" -> VisitSVEIntCompareScalarCountAndLimit(R, i)
    [] i.visitor = "ConditionallyTerminateScalars" -> VisitSVEConditionallyTerminateScalars(R, i)
    [] i.visitor = "IntCompareSignedImm" -> VisitSVEIntCompareSignedImm(R, i)
    [] i.visitor = "IntCompareUnsignedImm" -> VisitSVEIntCompareUnsignedImm(R, i)
    [] i.visitor = "IntCompareVectors" -> VisitSVEIntCompareVectors(R, i)
    [] i.visitor = "ConstructivePrefix_Unpredicated" -> VisitSVEConstructivePrefix_Unpredicated(R, i)
    [] i.visitor = "IntMulAddPredicated" -> VisitSVEIntMulAddPredicated(R, i)
    [] i.visitor = "IntMulAddUnpredicated" -> VisitSVEIntMulAddUnpredicated(R, i)
    [] i.visitor = "Movprfx" -> VisitSVEMovprfx(R, i)
    [] i.visitor = "IntReduction" -> VisitSVEIntReduction(R, i)
    [] i.visitor = "IntUnaryArithmeticPredicated" -> VisitSVEIntUnaryArithmeticPredicated(R, i)
    [] i.visitor = "CopyFPImm_Predicated" -> VisitSVECopyFPImm_Predicated(R, i)
    [] i.visitor = "BroadcastIntImm_Unpredicated" -> VisitSVEBroadcastIntImm_Unpredicated(R, i)
    [] i.visitor = "BroadcastFPImm_Unpredicated" -> VisitSVEBroadcastFPImm_Unpredicated(R, i)
    [] i.visitor = "MulIndex" -> VisitSVEMulIndex(R, i)
    [] i.visitor = "MatrixMul" -> SimulateMatrixMul(R, i)
    [] i.visitor = "FPMatrixMul" -> SimulateSVEFPMatrixMul(R, i)
    [] i.visitor = "PartitionBreakCondition" -> VisitSVEPartitionBreakCondition(R, i)
    [] i.visitor = "PropagateBreakToNextPartition" -> VisitSVEPropagateBreakToNextPartition(R, i)
    [] i.visitor = "UnpackPredicateElements" -> VisitSVEUnpackPredicateElements(R, i)
    [] i.visitor = "PermutePredicateElements" -> VisitSVEPermutePredicateElements(R, i)
    [] i.visitor = "ReversePredicateElements" -> VisitSVEReversePredicateElements(R, i)
    [] i.visitor = "PredicateCount" -> VisitSVEPredicateCount(R, i)
    [] i.visitor = "PredicateLogical" -> VisitSVEPredicateLogical(R, i)
    [] i.visitor = "PredicateFirstActive" -> VisitSVEPredicateFirstActive(R, i)
    [] i.visitor = "PredicateInitialize" -> VisitSVEPredicateInitialize(R, i)
    [] i.visitor = "PredicateNextActive" -> VisitSVEPredicateNextActive(R, i)
    [] i.visitor = "PredicateReadFromFFR_Predicated" -> VisitSVEPredicateReadFromFFR_Predicated(R, i)
    [] i.visitor = "PredicateReadFromFFR_Unpredicated" -> VisitSVEPredicateReadFromFFR_Unpredicated(R, i)
    [] i.visitor = "PredicateTest" -> VisitSVEPredicateTest(R, i)
    [] i.visitor = "PredicateZero" -> VisitSVEPredicateZero(R, i)
    [] i.visitor = "PropagateBreak" -> VisitSVEPropagateBreak(R, i)
    [] i.visitor = "FFRInitialise" -> VisitSVEFFRInitialise(R, i)
    [] i.visitor = "FFRWriteFromPredicate" -> VisitSVEFFRWriteFromPredicate(R, i)
    [] i.visitor = "StackFrameAdjustment" -> VisitSVEStackFrameAdjustment(R, i)
    [] i.visitor = "StackFrameSize" -> VisitSVEStackFrameSize(R, i)
    [] i.visitor = "PermuteVectorExtract" -> VisitSVEPermuteVectorExtract(R, i)
    [] i.visitor = "PermuteVectorInterleaving" -> VisitSVEPermuteVectorInterleaving(R, i)
    [] i.visitor = "ConditionallyBroadcastElementToVector" -> VisitSVEConditionallyBroadcastElementToVector(R, i)
    [] i.visitor = "ConditionallyExtractElementToSIMDFPScalar" -> VisitSVEConditionallyExtractElementToSIMDFPScalar(R, i)
    [] i.visitor = "ConditionallyExtractElementToGeneralRegister" -> VisitSVEConditionallyExtractElementToGeneralRegister(R, i)
    [] i.visitor = "ExtractElementToSIMDFPScalarRegister" -> VisitSVEExtractElementToSIMDFPScalarRegister(R, i)
    [] i.visitor = "ExtractElementToGeneralRegister" -> VisitSVEExtractElementToGeneralRegister(R, i)
    [] i.visitor = "CompressActiveElements" -> VisitSVECompressActiveElements(R, i)
    [] i.visitor = "CopyGeneralRegisterToVector_Predicated" -> VisitSVECopyGeneralRegisterToVector_Predicated(R, i)
    [] i.visitor = "CopyIntImm_Predicated" -> VisitSVECopyIntImm_Predicated(R, i)
    [] i.visitor = "ReverseWithinElements" -> VisitSVEReverseWithinElements(R, i)
    [] i.visitor = "VectorSplice" -> VisitSVEVectorSplice(R, i)
    [] i.visitor = "BroadcastGeneralRegister" -> VisitSVEBroadcastGeneralRegister(R, i)
    [] i.visitor = "InsertSIMDFPScalarRegister" -> VisitSVEInsertSIMDFPScalarRegister(R, i)
    [] i.visitor = "InsertGeneralRegister" -> VisitSVEInsertGeneralRegister(R, i)
    [] i.visitor = "BroadcastIndexElement" -> VisitSVEBroadcastIndexElement(R, i)
    [] i.visitor = "ReverseVectorElements" -> VisitSVEReverseVectorElements(R, i)
    [] i.visitor = "UnpackVectorElements" -> VisitSVEUnpackVectorElements(R, i)
    [] i.visitor = "TableLookup" -> VisitSVETableLookup(R, i)
    [] i.visitor = "VectorSelect" -> VisitSVEVectorSelect(R, i)
=============================================================================
