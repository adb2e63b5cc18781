------------------------------ MODULE FpLogic ------------------------------
(***************************************************************************)
(* Floating-point rounding, conversion and the special cases of scalar     *)
(* arithmetic.                                                             *)
(*                                                                         *)
(* The formats are scaled down with the relations the code relies on: each *)
(* one's subnormal numbers are below half the smallest number of the next  *)
(* narrower one, and BF16 has the exponents of FP32.  A value is its bits, *)
(* as in the code; where the code computes with host doubles, it is a      *)
(* number: a class, a sign and an integer count of 2^-Point.               *)
(***************************************************************************)
EXTENDS IntegerLogic

FP64 == [e |-> 4, m |-> 7]
FP32 == [e |-> 3, m |-> 3]
FP16 == [e |-> 2, m |-> 1]
BF16 == [e |-> 3, m |-> 1]

SignOffset(F) == F.e + F.m
InfiniteExponent(F) == 2^F.e - 1
Bias(F) == (InfiniteExponent(F) - 1) \div 2

Pack(F, sign, exponent, mantissa) == sign * 2^SignOffset(F) + exponent * 2^F.m + mantissa
SignOf(F, x) == x \div 2^SignOffset(F)
ExponentOf(F, x) == (x \div 2^F.m) % 2^F.e
MantissaOf(F, x) == x % 2^F.m

Classify(F, x) ==
  CASE ExponentOf(F, x) = 0 -> IF MantissaOf(F, x) = 0 THEN "zero" ELSE "subnormal"
    [] ExponentOf(F, x) = InfiniteExponent(F) -> IF MantissaOf(F, x) = 0 THEN "infinite" ELSE "nan"
    [] OTHER -> "normal"

Quiet(F) == 2^(F.m - 1)
IsSignallingNaN(F, x) == Classify(F, x) = "nan" /\ MantissaOf(F, x) < Quiet(F)
ToQuietNaN(F, x) == IF IsSignallingNaN(F, x) THEN x + Quiet(F) ELSE x
FPDefaultNaN(F) == Pack(F, 0, InfiniteExponent(F), Quiet(F))

HighestBit(x) == Max({k \in 0..30 : 2^k <= x})

-----------------------------------------------------------------------------
(* Mutant: rounding to odd truncates.                                      *)
Truncated(rest, shift) == rest

(* Whatever is lost makes the last bit that is kept a one.                 *)
RoundedToOdd(rest, shift) == IF rest % 2^shift # 0 /\ Bit(rest, shift) = 0 THEN rest + 2^shift ELSE rest

(* The value of the mantissa's highest bit is 2^exponent.  Rounding is one *)
(* addition to the assembled bits, which carries from the mantissa into    *)
(* the exponent, from the subnormal numbers to the normal ones and from    *)
(* the largest to infinity.                                                *)
FPRound(F, sign, exponent, mantissa, mode) ==
  LET biased == exponent + Bias(F)
      top == HighestBit(mantissa)
      subnormal == biased <= 0
      shift == top - F.m + (IF subnormal THEN 1 - biased ELSE 0)
      field == IF subnormal THEN 0 ELSE biased
      rest == IF subnormal THEN mantissa ELSE mantissa - 2^top
      one == Bit(rest, shift)
      half == Bit(rest, shift - 1)
      adjusted == rest - (IF half = 1 /\ one = 0 THEN 1 ELSE 0)
  IN CASE mantissa = 0 -> Pack(F, sign, 0, 0)
       [] mantissa > 0 /\ biased >= InfiniteExponent(F) ->
            IF mode = "tie_even" THEN Pack(F, sign, InfiniteExponent(F), 0)
                                 ELSE Pack(F, sign, InfiniteExponent(F) - 1, Mask(F.m))
       [] mantissa > 0 /\ subnormal /\ shift > top + 1 -> Pack(F, sign, 0, IF mode = "tie_even" THEN 0 ELSE 1)
       [] OTHER ->
            CASE shift <= 0 -> Pack(F, sign, field, rest * 2^(-shift))
              [] shift > 0 /\ mode = "tie_even" -> Pack(F, sign, field, rest \div 2^shift) + Bit(adjusted, shift - 1)
              [] shift > 0 /\ mode = "odd" -> Pack(F, sign, field, RoundedToOdd(rest, shift) \div 2^shift)

-----------------------------------------------------------------------------
(* NaNs keep their sign and what fits of their payload, and become quiet.  *)
ConvertNaN(F, G, x, dn) ==
  LET payload == (MantissaOf(F, x) * 2^G.m) \div 2^F.m
  IN IF dn THEN FPDefaultNaN(G)
     ELSE Pack(G, SignOf(F, x), InfiniteExponent(G), Quiet(G) + (payload % Quiet(G)))

(* To a narrower format.  The code adds the implicit bit; it does so to    *)
(* subnormal numbers too, or takes them as they are, because both round    *)
(* to nothing.                                                             *)
Narrow(F, G, x, mode, dn) ==
  CASE Classify(F, x) = "nan" -> ConvertNaN(F, G, x, dn)
    [] Classify(F, x) \in {"zero", "infinite"} ->
         Pack(G, SignOf(F, x), IF Classify(F, x) = "zero" THEN 0 ELSE InfiniteExponent(G), 0)
    [] OTHER -> FPRound(G, SignOf(F, x), ExponentOf(F, x) - Bias(F),
                        MantissaOf(F, x) + (IF F = FP64 /\ G = FP32 /\ Classify(F, x) = "subnormal" THEN 0 ELSE 2^F.m), mode)

FPToFloat(x, mode, dn) == Narrow(FP64, FP32, x, mode, dn)
FPToFloat16FromFloat(x, dn) == Narrow(FP32, FP16, x, "tie_even", dn)
FPToFloat16FromDouble(x, dn) == Narrow(FP64, FP16, x, "tie_even", dn)

(* The same exponents: a subnormal number is normalized first.             *)
FPToBFloat16(x, dn) ==
  LET m == MantissaOf(FP32, x)
      exponent == ExponentOf(FP32, x) - Bias(FP32)
  IN CASE Classify(FP32, x) = "subnormal" ->
            FPRound(BF16, SignOf(FP32, x), exponent - (FP32.m - 1 - HighestBit(m)), m, "tie_even")
       [] OTHER -> Narrow(FP32, BF16, x, "tie_even", dn)

(* To a wider format: exact.  A subnormal number becomes a normal one.     *)
FPToFloatFromFloat16(x, dn) ==
  LET m == MantissaOf(FP16, x)
      shift == FP16.m - 1 - HighestBit(m)
      rebias == Bias(FP32) - Bias(FP16)
      sign == SignOf(FP16, x)
  IN CASE Classify(FP16, x) = "nan" -> ConvertNaN(FP16, FP32, x, dn)
       [] Classify(FP16, x) = "zero" -> Pack(FP32, sign, 0, 0)
       [] Classify(FP16, x) = "infinite" -> Pack(FP32, sign, InfiniteExponent(FP32), 0)
       [] Classify(FP16, x) = "normal" ->
            Pack(FP32, sign, ExponentOf(FP16, x) + rebias, m * 2^(FP32.m - FP16.m))
       [] Classify(FP16, x) = "subnormal" ->
            Pack(FP32, sign, rebias - shift, (m * 2^(FP32.m - FP16.m + shift + 1)) % 2^FP32.m)

(* Only NaNs are converted by hand; the rest is the host's cast.           *)
FPToDoubleFromFloat(x, dn) ==
  LET m == MantissaOf(FP32, x)
      rebias == Bias(FP64) - Bias(FP32)
      sign == SignOf(FP32, x)
  IN CASE Classify(FP32, x) = "nan" -> ConvertNaN(FP32, FP64, x, dn)
       [] Classify(FP32, x) = "zero" -> Pack(FP64, sign, 0, 0)
       [] Classify(FP32, x) = "infinite" -> Pack(FP64, sign, InfiniteExponent(FP64), 0)
       [] Classify(FP32, x) = "normal" -> Pack(FP64, sign, ExponentOf(FP32, x) + rebias, m * 2^(FP64.m - FP32.m))
       [] Classify(FP32, x) = "subnormal" ->
            LET shift == FP32.m - 1 - HighestBit(m)
            IN Pack(FP64, sign, rebias - shift, (m * 2^(FP64.m - FP32.m + shift + 1)) % 2^FP64.m)

FPToDoubleFromFloat16(x, dn) == FPToDoubleFromFloat(FPToFloatFromFloat16(x, dn), dn)

(* An integer with fbits fraction bits.  The most negative one is its own  *)
(* magnitude as an unsigned number.                                        *)
UFixedToFP(F, src, fbits) ==
  IF src = 0 THEN Pack(F, 0, 0, 0) ELSE FPRound(F, 0, HighestBit(src) - fbits, src, "tie_even")

FixedToFP(F, src, fbits) ==
  IF src >= 0 THEN UFixedToFP(F, src, fbits) ELSE UFixedToFP(F, -src, fbits) + 2^SignOffset(F)

-----------------------------------------------------------------------------
(* Host doubles.                                                           *)
Point == Bias(FP64) - 1 + FP64.m

Number(neg, v) == [cls |-> "num", neg |-> neg, v |-> v]
Infinity(neg) == [cls |-> "inf", neg |-> neg, v |-> 0]
NaN == [cls |-> "nan", neg |-> FALSE, v |-> 0]

NumberOf(F, x) ==
  LET neg == SignOf(F, x) = 1
      exponent == Max({ExponentOf(F, x), 1}) - Bias(F) - F.m
      mantissa == MantissaOf(F, x) + (IF ExponentOf(F, x) > 0 THEN 2^F.m ELSE 0)
      v == mantissa * 2^(exponent + Point)
  IN CASE Classify(F, x) = "nan" -> NaN
       [] Classify(F, x) = "infinite" -> Infinity(neg)
       [] OTHER -> Number(neg, IF neg THEN -v ELSE v)

OneUnit == 2^Point
Floor(v) == v \div OneUnit

(* Integers come back as counts of 1, with a sign for zero.                *)
FPRoundIntCommon(x, mode) ==
  LET low == Floor(x.v)
      error == x.v % OneUnit
      Whole(z) == Number(z < 0, z)
      zero == Number(TRUE, 0)
      half == OneUnit \div 2
  IN CASE mode = "tie_away" ->
            IF x.v < 0 /\ x.v > -half THEN zero
            ELSE Whole(IF error > half \/ (error = half /\ low >= 0) THEN low + 1 ELSE low)
       [] mode = "tie_even" ->
            IF x.v < 0 /\ x.v >= -half THEN zero
            ELSE Whole(IF error > half \/ (error = half /\ low % 2 # 0) THEN low + 1 ELSE low)
       [] mode = "zero" -> IF x.v < 0 THEN Number(TRUE, -Floor(-x.v)) ELSE Whole(low)
       [] mode = "negative" -> Whole(low)
       [] mode = "positive" ->
            IF x.v < 0 /\ x.v > -OneUnit THEN zero ELSE Whole(IF error > 0 THEN low + 1 ELSE low)

FPRoundInt(x, mode) == IF x.cls # "num" \/ x.v = 0 THEN x ELSE FPRoundIntCommon(x, mode)

(* frint32, frint64: out of range gives the most negative integer.         *)
FPRoundIntToSize(x, mode, size) ==
  LET least == Number(TRUE, -(2^(size - 1)))
      result == FPRoundIntCommon(x, mode)
  IN CASE x.cls = "num" /\ x.v = 0 -> x
       [] x.cls # "num" -> least
       [] OTHER -> IF result.v >= 2^(size - 1) \/ result.v < -(2^(size - 1)) THEN least ELSE result

Saturated(x, low, high) ==
  CASE x.cls = "nan" -> 0
    [] x.cls = "inf" -> IF x.neg THEN low ELSE high
    [] x.cls = "num" -> IF x.v >= high THEN high ELSE IF x.v < low THEN low ELSE x.v

FPToInt(x, mode, size) == Saturated(FPRoundInt(x, mode), -(2^(size - 1)), 2^(size - 1) - 1)
FPToUInt(x, mode, size) == Saturated(FPRoundInt(x, mode), 0, 2^size - 1)

(* fjcvtzs: towards zero, modulo 2^32; round() takes halves away from      *)
(* zero, so a residue of one half is told apart.  Z: the result is exact.  *)
FPToFixedJS(x) ==
  LET toZero == IF x.v < 0 THEN -Floor(-x.v) ELSE Floor(x.v)
      residue == toZero % 2^WBits
      nearest == IF toZero >= 0 THEN (toZero + 2^(WBits - 1)) \div 2^WBits
                 ELSE -((-toZero + 2^(WBits - 1)) \div 2^WBits)
      inexact == x.v % OneUnit # 0 \/ toZero \notin -(2^(WBits - 1))..(2^(WBits - 1) - 1)
  IN IF x.cls # "num" \/ x.v = 0 THEN [value |-> 0, Z |-> Truth(x.cls = "num" /\ ~x.neg)]
     ELSE [value |-> IF residue = 2^(WBits - 1) THEN -(2^(WBits - 1)) ELSE toZero - 2^WBits * nearest,
           Z |-> Truth(~inexact)]

-----------------------------------------------------------------------------
(* Arithmetic on numbers and NaNs.  NaNs here have a name and are          *)
(* signalling or quiet.                                                    *)
NamedNaN(name, quiet) == [cls |-> "nan", neg |-> FALSE, v |-> 0, name |-> name, quiet |-> quiet]
DefaultNaN == NamedNaN("default", TRUE)

IsNaN(x) == x.cls = "nan"
IsInf(x) == x.cls = "inf"
IsZero(x) == x.cls = "num" /\ x.v = 0
Negated(x) == [x EXCEPT !.neg = ~@, !.v = -@]
Less(x, y) ==
  LET key(z) == IF IsInf(z) THEN (IF z.neg THEN -1000 ELSE 1000) ELSE z.v IN key(x) < key(y)

FPProcessNaN(x, dn) == IF dn THEN DefaultNaN ELSE [x EXCEPT !.quiet = TRUE]

(* The first signalling NaN, else the first NaN.                           *)
FPProcessNaNs(ops, dn) ==
  LET NaNs(q) == SelectSeq(ops, LAMBDA x : IsNaN(x) /\ x.quiet = q)
  IN FPProcessNaN(Head(NaNs(FALSE) \o NaNs(TRUE)), dn)

AnyNaN(ops) == \E k \in DOMAIN ops : IsNaN(ops[k])

(* The host's operations on what is not a NaN and has a result, in counts  *)
(* of a quarter; what is less than a count underflows to zero.             *)
Unit == 4

HostAdd(x, y) ==
  CASE IsInf(x) -> x
    [] ~IsInf(x) /\ IsInf(y) -> y
    [] OTHER -> Number(IF x.v + y.v = 0 THEN x.neg /\ y.neg ELSE x.v + y.v < 0, x.v + y.v)

HostMul(x, y) ==
  IF IsInf(x) \/ IsInf(y) THEN Infinity(x.neg # y.neg) ELSE Number(x.neg # y.neg, Quotient(x.v * y.v, Unit))

HostDiv(x, y) ==
  CASE IsInf(x) -> Infinity(x.neg # y.neg)
    [] ~IsInf(x) /\ IsInf(y) -> Number(x.neg # y.neg, 0)
    [] OTHER -> Number(x.neg # y.neg, Quotient(x.v * Unit, y.v))

HostSqrt(x) == IF IsInf(x) THEN x ELSE Number(x.neg, Max({r \in 0..x.v : r * r <= x.v * Unit}))

(* A host whose fma gets the sign of zero results wrong, as some do.       *)
HostFma(x, y, a) ==
  LET r == HostAdd(HostMul(x, y), a) IN IF IsZero(r) /\ IsZero(a) THEN [r EXCEPT !.neg = ~@] ELSE r

FPAdd(x, y, dn) ==
  CASE AnyNaN(<<x, y>>) -> FPProcessNaNs(<<x, y>>, dn)
    [] IsInf(x) /\ IsInf(y) /\ x # y -> DefaultNaN
    [] OTHER -> HostAdd(x, y)

FPSub(x, y, dn) ==
  CASE AnyNaN(<<x, y>>) -> FPProcessNaNs(<<x, y>>, dn)
    [] IsInf(x) /\ IsInf(y) /\ x = y -> DefaultNaN
    [] OTHER -> HostAdd(x, Negated(y))

ZeroTimesInf(x, y) == (IsInf(x) /\ IsZero(y)) \/ (IsInf(y) /\ IsZero(x))

FPMul(x, y, dn) ==
  CASE AnyNaN(<<x, y>>) -> FPProcessNaNs(<<x, y>>, dn)
    [] ZeroTimesInf(x, y) -> DefaultNaN
    [] OTHER -> HostMul(x, y)

FPMulx(x, y, dn) ==
  CASE AnyNaN(<<x, y>>) -> FPProcessNaNs(<<x, y>>, dn)
    [] ZeroTimesInf(x, y) -> Number(x.neg # y.neg, IF x.neg # y.neg THEN -2 * Unit ELSE 2 * Unit)
    [] OTHER -> HostMul(x, y)

(* An invalid product or sum overrides a quiet NaN in the accumulator.     *)
(* The signs of zero results do not come from the host.                    *)
FPMulAdd(a, x, y, dn) ==
  LET ops == <<a, x, y>>
      product == x.neg # y.neg
      invalid == ZeroTimesInf(x, y) \/ (IsInf(a) /\ (IsInf(x) \/ IsInf(y)) /\ a.neg # product)
      r == HostFma(x, y, a)
  IN CASE AnyNaN(ops) -> IF invalid /\ IsNaN(a) /\ a.quiet THEN DefaultNaN ELSE FPProcessNaNs(ops, dn)
       [] ~AnyNaN(ops) /\ invalid -> DefaultNaN
       [] ~AnyNaN(ops) /\ ~invalid /\ (IsZero(x) \/ IsZero(y)) /\ IsZero(a) -> Number(a.neg /\ product, 0)
       [] OTHER -> IF IsZero(a) /\ IsZero(r) THEN Number(product, 0) ELSE r

FPDiv(x, y, dn) ==
  CASE AnyNaN(<<x, y>>) -> FPProcessNaNs(<<x, y>>, dn)
    [] (IsInf(x) /\ IsInf(y)) \/ (IsZero(x) /\ IsZero(y)) -> DefaultNaN
    [] IsZero(y) /\ ~IsZero(x) /\ ~IsNaN(x) -> Infinity(x.neg # y.neg)
    [] OTHER -> HostDiv(x, y)

FPSqrt(x, dn) ==
  CASE IsNaN(x) -> FPProcessNaN(x, dn)
    [] ~IsNaN(x) /\ Less(x, Number(FALSE, 0)) -> DefaultNaN
    [] OTHER -> HostSqrt(x)

(* Zeros of both signs are ordered; otherwise the host compares.           *)
FPMax(x, y, dn) ==
  CASE AnyNaN(<<x, y>>) -> FPProcessNaNs(<<x, y>>, dn)
    [] ~AnyNaN(<<x, y>>) /\ IsZero(x) /\ IsZero(y) /\ x.neg # y.neg -> Number(FALSE, 0)
    [] OTHER -> IF Less(y, x) THEN x ELSE y

FPMin(x, y, dn) ==
  CASE AnyNaN(<<x, y>>) -> FPProcessNaNs(<<x, y>>, dn)
    [] ~AnyNaN(<<x, y>>) /\ IsZero(x) /\ IsZero(y) /\ x.neg # y.neg -> Number(TRUE, 0)
    [] OTHER -> IF Less(x, y) THEN x ELSE y

IsQuietNaN(x) == IsNaN(x) /\ x.quiet

(* One quiet NaN gives way to the number, by standing for the infinity     *)
(* that loses every comparison.                                            *)
Numbered(x, y, losing) == IF IsQuietNaN(x) /\ ~IsQuietNaN(y) THEN losing ELSE x

FPMaxNM(x, y, dn) == FPMax(Numbered(x, y, Infinity(TRUE)), Numbered(y, x, Infinity(TRUE)), dn)
FPMinNM(x, y, dn) == FPMin(Numbered(x, y, Infinity(FALSE)), Numbered(y, x, Infinity(FALSE)), dn)

(* The step of a reciprocal estimate, 2 + x * y, with x already negated.   *)
FPRecipStepFused(x, y) ==
  CASE ZeroTimesInf(x, y) -> Number(FALSE, 2 * Unit)
    [] ~ZeroTimesInf(x, y) /\ (IsInf(x) \/ IsInf(y)) ->
         Infinity(Less(x, Number(FALSE, 0)) # Less(y, Number(FALSE, 0)))
    [] OTHER -> HostFma(x, y, Number(FALSE, 2 * Unit))

(* The product is halved on the way: in the operand whose half is a normal *)
(* number.  (A count stands for the least number, which has no half.)      *)
HasNormalHalf(x) == x.v # 0 /\ x.v % 2 = 0
Halved(x) == [x EXCEPT !.v = Quotient(@, 2)]

FPRSqrtStepFused(x, y) ==
  LET one_point_five == Number(FALSE, Unit + Unit \div 2)
  IN CASE ZeroTimesInf(x, y) -> one_point_five
       [] ~ZeroTimesInf(x, y) /\ (IsInf(x) \/ IsInf(y)) ->
            Infinity(Less(x, Number(FALSE, 0)) # Less(y, Number(FALSE, 0)))
       [] ~IsInf(x) /\ ~IsInf(y) /\ HasNormalHalf(x) -> HostFma(Halved(x), y, one_point_five)
       [] ~IsInf(x) /\ ~IsInf(y) /\ ~HasNormalHalf(x) /\ HasNormalHalf(y) -> HostFma(x, Halved(y), one_point_five)
       [] OTHER -> one_point_five

(* N, Z, C and V after a comparison.                                       *)
FPCompare(x, y) ==
  CASE AnyNaN(<<x, y>>) -> NZCV(0, 0, 1, 1)
    [] ~AnyNaN(<<x, y>>) /\ Less(x, y) -> NZCV(1, 0, 0, 0)
    [] ~AnyNaN(<<x, y>>) /\ Less(y, x) -> NZCV(0, 0, 1, 0)
    [] OTHER -> NZCV(0, 1, 1, 0)
=============================================================================
