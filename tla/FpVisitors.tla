----------------------------- MODULE FpVisitors -----------------------------
(***************************************************************************)
(* The scalar floating-point instructions.  A state has, besides the       *)
(* integer state of IntegerLogic, the FP registers (v) and FPCR.DN (dn).   *)
(* Conversions see the bits of a register in the format f (or g) of the    *)
(* instruction, arithmetic sees a number or a named NaN.                   *)
(***************************************************************************)
EXTENDS FpLogic

WriteV(S, r, x) == [S EXCEPT !.v[r] = x]

(* fmov of an immediate of the format.                                     *)
VisitFPImmediate(S, i) == WriteV(S, i.d, i.k)

(* Integers to formats.  A W source is sign- or zero-extended first.       *)
ToFP(S, i, fbits) ==
  LET x == S.r[i.n] % 2^i.size
  IN WriteV(S, i.d, IF i.op = "scvtf" THEN FixedToFP(i.f, Signed(x, i.size), fbits) ELSE UFixedToFP(i.f, x, fbits))

FromFP(S, i, x, mode) ==
  WriteRegister(S, i.size, i.d, IF i.op = "fcvts" THEN FPToInt(x, mode, i.size) ELSE FPToUInt(x, mode, i.size))

ConvertJS(S, i) ==
  LET js == FPToFixedJS(NumberOf(FP64, S.v[i.n]))
  IN WriteRegister(SetFlags(S, NZCV(0, js.Z, 0, 0)), WBits, i.d, js.value)

(* fmov copies the bits that both registers have.                          *)
MoveBits(S, i) ==
  IF i.op = "fmov_to" THEN WriteV(S, i.d, S.r[i.n] % 2^i.size) ELSE WriteRegister(S, i.size, i.d, S.v[i.n] % 2^i.size)

VisitFPIntegerConvert(S, i) ==
  CASE i.op \in {"fcvts", "fcvtu"} -> FromFP(S, i, NumberOf(i.f, S.v[i.n]), i.mode)
    [] i.op = "fjcvtzs" -> ConvertJS(S, i)
    [] i.op \in {"fmov_to", "fmov_from"} -> MoveBits(S, i)
    [] i.op \in {"scvtf", "ucvtf"} -> ToFP(S, i, 0)

(* A fixed-point result is the integer part of the scaled number.          *)
VisitFPFixedPointConvert(S, i) ==
  CASE i.op \in {"scvtf", "ucvtf"} -> ToFP(S, i, i.k)
    [] i.op \in {"fcvts", "fcvtu"} ->
         LET x == NumberOf(i.f, S.v[i.n]) IN FromFP(S, i, [x EXCEPT !.v = @ * 2^i.k], "zero")

VisitFPCompare(S, i) == SetFlags(S, FPCompare(S.v[i.n], IF i.imm THEN Number(FALSE, 0) ELSE S.v[i.m]))

VisitFPConditionalCompare(S, i) ==
  SetFlags(S, IF ConditionPassed(S.nzcv, i.cond) THEN FPCompare(S.v[i.n], S.v[i.m]) ELSE FlagsOf(i.nzcv))

VisitFPConditionalSelect(S, i) == WriteV(S, i.d, S.v[IF ConditionPassed(S.nzcv, i.cond) THEN i.n ELSE i.m])

(* The integer that rounding gives, back in the format.                    *)
PutInteger(F, x) ==
  CASE x.cls = "inf" -> Pack(F, Truth(x.neg), InfiniteExponent(F), 0)
    [] x.cls = "num" /\ x.v = 0 -> Pack(F, Truth(x.neg), 0, 0)
    [] OTHER -> FixedToFP(F, x.v, 0)

SimulateFPRoundIntToSize(S, i) ==
  WriteV(S, i.d, PutInteger(i.f, FPRoundIntToSize(NumberOf(i.f, S.v[i.n]), i.mode, i.size)))

SimulateFPRoundInt(S, i) ==
  LET x == NumberOf(i.f, S.v[i.n])
  IN WriteV(S, i.d, IF IsNaN(x) THEN (IF S.dn THEN FPDefaultNaN(i.f) ELSE ToQuietNaN(i.f, S.v[i.n]))
                    ELSE PutInteger(i.f, FPRoundInt(x, i.mode)))

SimulateFPConvert(S, i) ==
  LET x == S.v[i.n]
  IN WriteV(S, i.d, CASE i.f = i.g -> x
                      [] i.f = FP64 /\ i.g = FP32 -> FPToFloat(x, "tie_even", S.dn)
                      [] i.f = FP64 /\ i.g = FP16 -> FPToFloat16FromDouble(x, S.dn)
                      [] i.f = FP32 /\ i.g = FP64 -> FPToDoubleFromFloat(x, S.dn)
                      [] i.f = FP32 /\ i.g = FP16 -> FPToFloat16FromFloat(x, S.dn)
                      [] i.f = FP32 /\ i.g = BF16 -> FPToBFloat16(x, S.dn)
                      [] i.f = FP16 /\ i.g = FP32 -> FPToFloatFromFloat16(x, S.dn)
                      [] i.f = FP16 /\ i.g = FP64 -> FPToDoubleFromFloat16(x, S.dn))

VisitFPDataProcessing1Source(S, i) ==
  LET x == S.v[i.n]
  IN WriteV(S, i.d, CASE i.op = "fabs" -> IF x.neg THEN Negated(x) ELSE x
                      [] i.op = "fneg" -> Negated(x)
                      [] i.op = "fsqrt" -> FPSqrt(x, S.dn))

(* fnmul negates what fmul gives, a NaN as well.                           *)
VisitFPDataProcessing2Source(S, i) ==
  LET x == S.v[i.n]
      y == S.v[i.m]
  IN WriteV(S, i.d, CASE i.op = "fadd" -> FPAdd(x, y, S.dn)
                      [] i.op = "fsub" -> FPSub(x, y, S.dn)
                      [] i.op = "fmul" -> FPMul(x, y, S.dn)
                      [] i.op = "fnmul" -> Negated(FPMul(x, y, S.dn))
                      [] i.op = "fdiv" -> FPDiv(x, y, S.dn)
                      [] i.op = "fmax" -> FPMax(x, y, S.dn)
                      [] i.op = "fmin" -> FPMin(x, y, S.dn)
                      [] i.op = "fmaxnm" -> FPMaxNM(x, y, S.dn)
                      [] i.op = "fminnm" -> FPMinNM(x, y, S.dn))

VisitFPDataProcessing3Source(S, i) ==
  LET a == S.v[i.a]
      x == S.v[i.n]
      y == S.v[i.m]
  IN WriteV(S, i.d, CASE i.op = "fmadd" -> FPMulAdd(a, x, y, S.dn)
                      [] i.op = "fmsub" -> FPMulAdd(a, Negated(x), y, S.dn)
                      [] i.op = "fnmadd" -> FPMulAdd(Negated(a), Negated(x), y, S.dn)
                      [] i.op = "fnmsub" -> FPMulAdd(Negated(a), x, y, S.dn))

(* The forms of one lane that have a result for zero times infinity.       *)
VisitNEONScalar3SameFP(S, i) ==
  LET x == S.v[i.n]
      y == S.v[i.m]
      ops == <<Negated(x), y>>
  IN WriteV(S, i.d, CASE i.op = "fmulx" -> FPMulx(x, y, S.dn)
                      [] i.op = "frecps" -> IF AnyNaN(ops) THEN FPProcessNaNs(ops, S.dn) ELSE FPRecipStepFused(Negated(x), y)
                      [] i.op = "frsqrts" -> IF AnyNaN(ops) THEN FPProcessNaNs(ops, S.dn) ELSE FPRSqrtStepFused(Negated(x), y))

VisitFP(S, i) ==
  CASE i.visitor = "FPImmediate" -> VisitFPImmediate(S, i)
    [] i.visitor = "FPIntegerConvert" -> VisitFPIntegerConvert(S, i)
    [] i.visitor = "FPFixedPointConvert" -> VisitFPFixedPointConvert(S, i)
    [] i.visitor = "FPCompare" -> VisitFPCompare(S, i)
    [] i.visitor = "FPConditionalCompare" -> VisitFPConditionalCompare(S, i)
    [] i.visitor = "FPConditionalSelect" -> VisitFPConditionalSelect(S, i)
    [] i.visitor = "FPRoundIntToSize" -> SimulateFPRoundIntToSize(S, i)
    [] i.visitor = "FPRoundInt" -> SimulateFPRoundInt(S, i)
    [] i.visitor = "FPConvert" -> SimulateFPConvert(S, i)
    [] i.visitor = "FPDataProcessing1Source" -> VisitFPDataProcessing1Source(S, i)
    [] i.visitor = "FPDataProcessing2Source" -> VisitFPDataProcessing2Source(S, i)
    [] i.visitor = "FPDataProcessing3Source" -> VisitFPDataProcessing3Source(S, i)
    [] i.visitor = "NEONScalar3SameFP" -> VisitNEONScalar3SameFP(S, i)
=============================================================================
