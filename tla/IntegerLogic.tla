---------------------------- MODULE IntegerLogic ----------------------------
(***************************************************************************)
(* Integer data processing on the general registers.                       *)
(*                                                                         *)
(* Registers are scaled down: an X register has XBits bits, W, H and B     *)
(* registers a half, a quarter and an eighth of them, and a host uint64_t  *)
(* is as wide as an X register.  A state S has the registers (r) and the   *)
(* flags (nzcv).  An instruction i names registers d, n, m and a, its size *)
(* in bits, an operation, immediates k and l, a condition and an nzcv      *)
(* immediate.                                                              *)
(***************************************************************************)
EXTENDS Integers, Sequences, SequencesExt, FiniteSetsExt, Bitwise

CONSTANTS XBits,     \* the bits of an X register, 64 in the code
          TagBits    \* the bits of an allocation tag, 4 in the code

ASSUME XBitsAssumption == XBits \in Nat /\ XBits > 0 /\ XBits % 8 = 0
ASSUME TagBitsAssumption == TagBits \in Nat /\ TagBits > 0 /\ 3 * TagBits <= XBits

WBits == XBits \div 2
HBits == XBits \div 4
BBits == XBits \div 8

(* uint64_t arithmetic.                                                    *)
Mask(n) == 2^n - 1
Wrap(x) == x % 2^XBits
Not64(x) == Mask(XBits) - x
Bit(x, k) == (x \div 2^k) % 2
Signed(x, n) == IF Bit(x, n - 1) = 1 THEN (x % 2^n) - 2^n ELSE x % 2^n
LeftShift(x, k) == Wrap(x * 2^k)
UnsignedNegate(x) == Wrap(Not64(x) + 1)

RotateRight(x, k, width) ==
  LET v == x % 2^width
  IN IF k = 0 THEN v ELSE (LeftShift(v, width - k) | (v \div 2^k)) % 2^width

ReadRegister(S, size, r) == S.r[r] % 2^size

(* Every write is zero-extended to the X register.                         *)
WriteRegister(S, size, r, x) == [S EXCEPT !.r[r] = x % 2^size]

-----------------------------------------------------------------------------
NZCV(n, z, c, v) == [N |-> n, Z |-> z, C |-> c, V |-> v]
FlagsOf(x) == NZCV(Bit(x, 3), Bit(x, 2), Bit(x, 1), Bit(x, 0))
FlagBits(f) == 8 * f.N + 4 * f.Z + 2 * f.C + f.V

SetFlags(S, f) == [S EXCEPT !.nzcv = f]

Truth(p) == IF p THEN 1 ELSE 0

Conditions == {"eq", "ne", "hs", "lo", "mi", "pl", "vs", "vc", "hi", "ls", "ge", "lt", "gt", "le", "al", "nv"}

ConditionPassed(f, cond) ==
  CASE cond = "eq" -> f.Z = 1
    [] cond = "ne" -> f.Z = 0
    [] cond = "hs" -> f.C = 1
    [] cond = "lo" -> f.C = 0
    [] cond = "mi" -> f.N = 1
    [] cond = "pl" -> f.N = 0
    [] cond = "vs" -> f.V = 1
    [] cond = "vc" -> f.V = 0
    [] cond = "hi" -> f.C = 1 /\ f.Z = 0
    [] cond = "ls" -> ~(f.C = 1 /\ f.Z = 0)
    [] cond = "ge" -> f.N = f.V
    [] cond = "lt" -> f.N # f.V
    [] cond = "gt" -> f.Z = 0 /\ f.N = f.V
    [] cond = "le" -> ~(f.Z = 0 /\ f.N = f.V)
    [] cond \in {"al", "nv"} -> TRUE

(* The sum and its flags.  The sum itself has no bit for the carry, so the *)
(* carry is found by comparing the operands with what still fits.          *)
AddWithCarry(size, x, y, carry) ==
  LET left == x % 2^size
      right == y % 2^size
      result == (left + right + carry) % 2^size
      max == Mask(size) - carry
      sign(v) == Bit(v, size - 1)
  IN [value |-> result,
      flags |-> NZCV(sign(result), Truth(result = 0), Truth(left > max \/ max - left < right),
                     Truth(sign(left) = sign(right) /\ sign(left) # sign(result)))]

-----------------------------------------------------------------------------
(* 128-bit numbers as pairs of 64-bit ones.                                *)
Pair(hi, lo) == [hi |-> hi, lo |-> lo]

Add128(x, y) ==
  LET low == AddWithCarry(XBits, x.lo, y.lo, 0)
  IN Pair(AddWithCarry(XBits, x.hi, y.hi, low.flags.C).value, low.value)

Lsl128(x, k) ==
  CASE k = 0 -> x
    [] k = XBits -> Pair(x.lo, 0)
    [] OTHER -> Pair(LeftShift(x.hi, k) | (x.lo \div 2^(XBits - k)), LeftShift(x.lo, k))

Eor128(x, y) == Pair(x.hi ^^ y.hi, x.lo ^^ y.lo)

(* Mutant: the carry into the high half is forgotten.                      *)
NegateHalves(x) == Pair(UnsignedNegate(x.hi), UnsignedNegate(x.lo))

Neg128(x) == Add128(Pair(Not64(x.hi), Not64(x.lo)), Pair(0, 1))

(* The product of the magnitudes from four products of halves; a negative  *)
(* result has its halves negated one by one.                               *)
Mul64(u, v) ==
  LET negative == Bit(u, XBits - 1) # Bit(v, XBits - 1)
      x == IF Bit(u, XBits - 1) = 1 THEN UnsignedNegate(u) ELSE u
      y == IF Bit(v, XBits - 1) = 1 THEN UnsignedNegate(v) ELSE v
      lo(z) == z % 2^WBits
      hi(z) == z \div 2^WBits
      cross(t) == Pair(t \div 2^WBits, LeftShift(t, WBits))
      product == Add128(Add128(Add128(Pair(0, lo(x) * lo(y)), cross(lo(x) * hi(y))), cross(hi(x) * lo(y))),
                        Pair(hi(x) * hi(y), 0))
  IN IF negative THEN Pair(Wrap(UnsignedNegate(product.hi) - 1), UnsignedNegate(product.lo)) ELSE product

(* sqrdmlah and sqrdmlsh on 64-bit lanes: the accumulator with XBits - 1   *)
(* fraction bits, the product and the rounding constant are added as       *)
(* 128-bit numbers; the top half after the shift is only a sign.           *)
sqrdmlash_d(acc, x, y, round, sub) ==
  LET start == Pair(Wrap(Signed(acc, XBits) \div 2), LeftShift(acc, XBits - 1))
      product == IF sub THEN Neg128(Mul64(x, y)) ELSE Mul64(x, y)
      accum == Add128(Add128(start, product), Pair(0, IF round THEN 2^(XBits - 2) ELSE 0))
      value == LeftShift(accum.hi, 1) | (accum.lo \div 2^(XBits - 1))
      max == Mask(XBits - 1)
  IN IF Bit(accum.hi, XBits - 1) = 0 THEN Min({value, max}) ELSE Max({value, max + 1})

PolynomialMult128(x, y, bits) ==
  FoldLeft(LAMBDA sum, k : IF Bit(x, k - 1) = 1 THEN Eor128(sum, Lsl128(Pair(0, y), k - 1)) ELSE sum,
           Pair(0, 0), [k \in 1..bits |-> k])

(* The high half of a product, from halves, with the partial sums extended *)
(* by their own sign.                                                      *)
MultiplyHigh(u, v, signed) ==
  LET half == WBits
      high(t) == t \div 2^half + (IF signed /\ Bit(t, XBits - 1) = 1 THEN 2^XBits - 2^half ELSE 0)
      low(t) == t % 2^half
      t == Wrap(high(u) * low(v) + (low(u) * low(v)) \div 2^half)
      w1 == Wrap(low(u) * high(v) + low(t))
  IN Wrap(high(u) * high(v) + high(t) + high(w1))

-----------------------------------------------------------------------------
(* Shifts by at least the register's size have results of their own, all   *)
(* 64 bits of them.                                                        *)
ShiftOperand(size, x, shift, k) ==
  LET negative == Bit(x, size - 1) = 1
  IN CASE k = 0 -> x
       [] k > 0 /\ shift \in {"lsl", "lsr"} /\ k >= size -> 0
       [] k > 0 /\ shift = "asr" /\ k >= size -> IF negative THEN Mask(XBits) ELSE 0
       [] k > 0 /\ shift = "lsl" /\ k < size -> LeftShift(x, k) % 2^size
       [] k > 0 /\ shift = "lsr" /\ k < size -> (x \div 2^k) % 2^size
       [] k > 0 /\ shift = "asr" /\ k < size ->
            ((x \div 2^k) | (IF negative THEN LeftShift(Mask(XBits), size - k) ELSE 0)) % 2^size
       [] k > 0 /\ shift = "ror" -> RotateRight(x, k, size)

ExtendBits == [b |-> BBits, h |-> HBits, w |-> WBits, x |-> XBits]

ExtendValue(size, x, extend, k) ==
  LET n == ExtendBits[extend.from]
      v == x % 2^n
      extended == IF extend.signed /\ n < XBits /\ Bit(v, n - 1) = 1 THEN v | LeftShift(Mask(XBits), n) ELSE v
  IN ShiftOperand(size, extended, "lsl", k)

-----------------------------------------------------------------------------
AddSubHelper(S, i, op2) ==
  LET x == ReadRegister(S, i.size, i.n)
      sum == IF i.op = "add" THEN AddWithCarry(i.size, x, op2, 0) ELSE AddWithCarry(i.size, x, Not64(op2), 1)
  IN WriteRegister(IF i.s THEN SetFlags(S, sum.flags) ELSE S, i.size, i.d, sum.value)

VisitAddSubShifted(S, i) == AddSubHelper(S, i, ShiftOperand(i.size, ReadRegister(S, i.size, i.m), i.shift, i.k))

(* The immediate can be shifted by 12 of the 64 bits.                      *)
VisitAddSubImmediate(S, i) == AddSubHelper(S, i, LeftShift(i.k, IF i.l = 1 THEN (3 * XBits) \div 16 ELSE 0))

VisitAddSubExtended(S, i) == AddSubHelper(S, i, ExtendValue(i.size, ReadRegister(S, i.size, i.m), i.extend, i.k))

VisitAddSubWithCarry(S, i) ==
  LET y == ReadRegister(S, i.size, i.m)
      sum == AddWithCarry(i.size, ReadRegister(S, i.size, i.n), IF i.op = "sub" THEN Not64(y) ELSE y, S.nzcv.C)
  IN WriteRegister(IF i.s THEN SetFlags(S, sum.flags) ELSE S, i.size, i.d, sum.value)

(* rmif: some flags from bits of a rotated register.                       *)
VisitRotateRightIntoFlags(S, i) ==
  LET rotated == RotateRight(ReadRegister(S, XBits, i.n), i.k, XBits)
  IN SetFlags(S, FlagsOf((rotated & i.nzcv) | (FlagBits(S.nzcv) & (15 - i.nzcv))))

(* setf8, setf16: C is kept.                                               *)
VisitEvaluateIntoFlags(S, i) ==
  LET x == ReadRegister(S, WBits, i.n)
      msb == (IF i.op = "setf16" THEN HBits ELSE BBits) - 1
  IN SetFlags(S, [S.nzcv EXCEPT !.N = Bit(x, msb),
                                !.Z = Truth((x * 2^(WBits - 1 - msb)) % 2^WBits = 0),
                                !.V = (Bit(x, msb) + Bit(x, msb + 1)) % 2])

LogicalHelper(S, i, op2) ==
  LET x == ReadRegister(S, i.size, i.n)
      result == CASE i.op \in {"and", "ands"} -> x & op2
                  [] i.op = "orr" -> x | op2
                  [] i.op = "eor" -> x ^^ op2
      T == IF i.op = "ands" THEN SetFlags(S, NZCV(Bit(result, i.size - 1), Truth(result = 0), 0, 0)) ELSE S
  IN WriteRegister(T, i.size, i.d, result)

VisitLogicalShifted(S, i) ==
  LET op2 == ShiftOperand(i.size, ReadRegister(S, i.size, i.m), i.shift, i.k)
  IN LogicalHelper(S, i, IF i.not THEN Not64(op2) ELSE op2)

(* A run of ones of length s + 1, rotated by r in an element of width bits *)
(* and repeated.  The element is the largest of which s has the bit clear, *)
(* or the whole register with n = 1; 0 stands for reserved encodings.      *)
DecodeImmBitMask(n, s, r, size) ==
  LET widths == {w \in {2^e : e \in 1..XBits} : w < XBits /\ (s \div w) % 2 = 0}
      width == Max(widths)
      low(x) == x % width
      element == RotateRight(Mask(low(s) + 1), low(r), width)
  IN CASE n = 1 -> IF s = XBits - 1 THEN 0 ELSE RotateRight(Mask(s + 1), r, XBits)
       [] n = 0 /\ (widths = {} \/ low(s) = width - 1) -> 0
       [] OTHER -> FoldLeft(LAMBDA x, k : LeftShift(x, width) | element, 0, [k \in 1..(size \div width) |-> k])

(* A reserved immediate is unimplemented, an abort.                        *)
VisitLogicalImmediate(S, i) == LogicalHelper(S, i, DecodeImmBitMask(i.l, i.k, i.r, i.size))

ConditionalCompareHelper(S, i, op2) ==
  LET x == ReadRegister(S, i.size, i.n)
  IN IF ConditionPassed(S.nzcv, i.cond)
     THEN SetFlags(S, (IF i.op = "ccmp" THEN AddWithCarry(i.size, x, Not64(op2), 1)
                                        ELSE AddWithCarry(i.size, x, op2, 0)).flags)
     ELSE SetFlags(S, FlagsOf(i.nzcv))

VisitConditionalCompareRegister(S, i) == ConditionalCompareHelper(S, i, ReadRegister(S, i.size, i.m))
VisitConditionalCompareImmediate(S, i) == ConditionalCompareHelper(S, i, i.k)

-----------------------------------------------------------------------------
(* movk_w reads the W register as an int32_t, which is sign-extended into  *)
(* the int64_t the immediate is inserted in, and writes an X register.     *)
VisitMoveWideImmediate(S, i) ==
  LET shift == i.l * HBits
      imm == LeftShift(i.k, shift)
      old == IF i.size = XBits THEN S.r[i.d] ELSE Wrap(Signed(S.r[i.d], WBits))
      result == CASE i.op = "movz" -> imm
                  [] i.op = "movn" -> IF i.size = XBits THEN Not64(imm) ELSE Not64(imm) % 2^WBits
                  [] i.op = "movk" -> (old & Not64(LeftShift(Mask(HBits), shift))) | imm
  IN WriteRegister(S, XBits, i.d, result)

VisitConditionalSelect(S, i) ==
  LET y == S.r[i.m]
      other == CASE i.op = "csel" -> y
                 [] i.op = "csinc" -> Wrap(y + 1)
                 [] i.op = "csinv" -> Not64(y)
                 [] i.op = "csneg" -> UnsignedNegate(y)
  IN WriteRegister(S, i.size, i.d, IF ConditionPassed(S.nzcv, i.cond) THEN S.r[i.n] ELSE other)

ReverseBits(x, size) ==
  FoldLeft(LAMBDA acc, k : [result |-> 2 * acc.result + (acc.value % 2), value |-> acc.value \div 2],
           [result |-> 0, value |-> x], [k \in 1..size |-> k]).result

(* The order of the bytes is reversed in every block of 2^log of them.     *)
ReverseBytes(x, size, log) ==
  LET block == 2^log
      byte(k) == (x \div 2^(k * BBits)) % 2^BBits
      from(k) == (k \div block) * block + (block - 1 - (k % block))
  IN FoldLeft(LAMBDA y, k : y + byte(from(k - 1)) * 2^((k - 1) * BBits), 0, [k \in 1..(size \div BBits) |-> k])

CountLeadingZeros(x, size) == Cardinality({k \in 0..(size - 1) : x \div 2^k = 0})
CountLeadingSignBits(x, size) ==
  (IF Bit(x, size - 1) = 1 THEN CountLeadingZeros(Mask(size) - x, size) ELSE CountLeadingZeros(x, size)) - 1
CountTrailingZeros(x, size) == Cardinality({k \in 0..(size - 1) : x % 2^(k + 1) = 0})
CountSetBits(x, size) == Cardinality({k \in 0..(size - 1) : Bit(x, k) = 1})

(* The most negative number is its own absolute value.                     *)
Abs(x, size) == IF Signed(x, size) < 0 /\ Signed(x, size) >= -Mask(size - 1) THEN (2^size - x) ELSE x

VisitDataProcessing1Source(S, i) ==
  LET x == ReadRegister(S, i.size, i.n)
      result == CASE i.op = "rbit" -> ReverseBits(x, i.size)
                  [] i.op = "rev16" -> ReverseBytes(x, i.size, 1)
                  [] i.op = "rev32" -> ReverseBytes(x, i.size, 2)
                  [] i.op = "rev64" -> ReverseBytes(x, i.size, 3)
                  [] i.op = "clz" -> CountLeadingZeros(x, i.size)
                  [] i.op = "cls" -> CountLeadingSignBits(x, i.size)
                  [] i.op = "ctz" -> CountTrailingZeros(x, i.size)
                  [] i.op = "cnt" -> CountSetBits(x, i.size)
                  [] i.op = "abs" -> Abs(x, i.size)
  IN WriteRegister(S, i.size, i.d, result)

-----------------------------------------------------------------------------
(* The remainder of a polynomial of n bits modulo x^32 + poly, from the    *)
(* top bit down to bit 32.                                                 *)
Poly32Mod2(n, data, poly) ==
  FoldLeft(LAMBDA x, k : LET b == n - k IN
             IF Bit(x, b) = 1 THEN (x % 2^b) ^^ LeftShift(poly, b - WBits) ELSE x,
           data, [k \in 1..(n - WBits) |-> k]) % 2^WBits

(* A checksum over a B, H or W value.                                      *)
Crc32Checksum(acc, x, size, poly) ==
  ReverseBits(Poly32Mod2(WBits + size, (ReverseBits(acc, WBits) * 2^size) ^^ (ReverseBits(x, size) * 2^WBits), poly),
              WBits)

(* Over an X value: its words, the low one first.                          *)
Crc32Checksum64(acc, x, poly) ==
  Crc32Checksum(Crc32Checksum(acc, x % 2^WBits, WBits, poly), x \div 2^WBits, WBits, poly)

(* C++ division rounds towards zero.                                       *)
Quotient(x, y) ==
  LET magnitude(z) == IF z < 0 THEN -z ELSE z
      q == magnitude(x) \div magnitude(y)
  IN IF (x < 0) = (y < 0) THEN q ELSE -q

(* Division by zero gives zero; the one quotient that overflows is itself. *)
SignedDivide(x, y, size) ==
  CASE x = -(2^(size - 1)) /\ y = -1 -> x
    [] y = 0 -> 0
    [] OTHER -> Quotient(x, y)

UnsignedDivide(x, y) == IF y = 0 THEN 0 ELSE x \div y

VisitDataProcessing2Source(S, i) ==
  LET x == ReadRegister(S, i.size, i.n)
      y == ReadRegister(S, i.size, i.m)
      acc == ReadRegister(S, WBits, i.n)
      result == CASE i.op = "sdiv" -> SignedDivide(Signed(x, i.size), Signed(y, i.size), i.size)
                  [] i.op = "udiv" -> UnsignedDivide(x, y)
                  [] i.op \in {"lsl", "lsr", "asr", "ror"} ->
                       ShiftOperand(i.size, x, i.op, ReadRegister(S, WBits, i.m) % i.size)
                  [] i.op = "crc" /\ i.k < XBits -> Crc32Checksum(acc, ReadRegister(S, i.k, i.m), i.k, i.poly)
                  [] i.op = "crc" /\ i.k = XBits -> Crc32Checksum64(acc, S.r[i.m], i.poly)
  IN WriteRegister(S, IF i.op = "crc" THEN WBits ELSE i.size, i.d, result)

(* The immediate, if there is one, replaces the second register.           *)
SimulateSignedMinMax(S, i) ==
  LET x == Signed(S.r[i.n], i.size)
      y == IF i.imm THEN i.k ELSE Signed(S.r[i.m], i.size)
  IN WriteRegister(S, i.size, i.d, IF i.op = "smax" THEN Max({x, y}) ELSE Min({x, y}))

SimulateUnsignedMinMax(S, i) ==
  LET x == S.r[i.n] % 2^i.size
      y == (IF i.imm THEN i.k ELSE S.r[i.m]) % 2^i.size
  IN WriteRegister(S, XBits, i.d, IF i.op = "umax" THEN Max({x, y}) ELSE Min({x, y}))

(* The 32-bit forms compute in 64 bits and write the low half.             *)
VisitDataProcessing3Source(S, i) ==
  LET x == S.r[i.n]
      y == S.r[i.m]
      a == S.r[i.a]
      signed(z) == Signed(z, WBits)
      low(z) == z % 2^WBits
      result == CASE i.op = "madd" -> Wrap(a + x * y)
                  [] i.op = "msub" -> Wrap(a - x * y)
                  [] i.op = "smaddl" -> Wrap(a + signed(x) * signed(y))
                  [] i.op = "smsubl" -> Wrap(a - signed(x) * signed(y))
                  [] i.op = "umaddl" -> Wrap(a + low(x) * low(y))
                  [] i.op = "umsubl" -> Wrap(a - low(x) * low(y))
                  [] i.op = "umulh" -> MultiplyHigh(x, y, FALSE)
                  [] i.op = "smulh" -> MultiplyHigh(x, y, TRUE)
  IN WriteRegister(S, i.size, i.d, result)

(* Bits k to l of the source to the bottom of the destination, or, with    *)
(* l < k, bits 0 to l to bit size - k.  ubfm and sbfm zero and sign-extend *)
(* it, bfm keeps the rest of the destination.                              *)
VisitBitfield(S, i) ==
  LET diff == i.l - i.k
      mask == IF diff >= 0 THEN (IF diff < i.size - 1 THEN Mask(diff + 1) ELSE Mask(i.size))
              ELSE RotateRight(Mask(i.l + 1), i.k, i.size)
      top == diff + (IF diff < 0 THEN i.size ELSE 0)
      old == IF i.op = "bfm" THEN ReadRegister(S, i.size, i.d) ELSE 0
      src == ReadRegister(S, i.size, i.n)
      topbits == IF top = XBits - 1 THEN 0 ELSE LeftShift(Mask(XBits), top + 1)
      sign == IF i.op = "sbfm" /\ Bit(src, i.l) = 1 THEN topbits ELSE 0
  IN WriteRegister(S, i.size, i.d, sign | (RotateRight(src, i.k, i.size) & mask) | (old & Not64(mask)))

VisitExtract(S, i) ==
  LET low == ReadRegister(S, i.size, i.m) \div 2^i.k
      high == IF i.k = 0 THEN 0 ELSE LeftShift(ReadRegister(S, i.size, i.n), i.size - i.k)
  IN WriteRegister(S, i.size, i.d, low | high)

-----------------------------------------------------------------------------
(* SVE counts: acc and delta as n-bit numbers, the overflow found from the *)
(* signs (signed) or from the order of sum and accumulator (unsigned).     *)
IncDecN(acc, delta, n, saturating, signed) ==
  LET a == acc % 2^n
      sum == (a + delta) % 2^n
      negative(x) == Bit(x, n - 1) = 1
      overflow == signed /\ negative(a) = (delta < 0) /\ negative(a) # negative(sum)
      result == CASE saturating /\ overflow /\ negative(sum) -> 2^(n - 1) - 1
                  [] saturating /\ overflow /\ ~negative(sum) -> 2^(n - 1)
                  [] saturating /\ ~signed /\ delta < 0 /\ sum > a -> 0
                  [] saturating /\ ~signed /\ delta > 0 /\ sum < a -> Mask(n)
                  [] OTHER -> sum
  IN IF signed /\ negative(result) THEN result | (Mask(XBits) - Mask(n)) ELSE result

(* k the signed count; op is "x" or, when it saturates, "sq" or "uq".      *)
VisitIncDec(S, i) ==
  WriteRegister(S, XBits, i.d, IncDecN(S.r[i.n], i.k, i.size, i.op # "x", i.op # "uq"))

-----------------------------------------------------------------------------
(* Allocation tags in pointers: TagBits above the address, as many above   *)
(* the tag.                                                                *)
TagShift == XBits - 2 * TagBits
Tags == 0..(2^TagBits - 1)
kMTETagGranuleInBytes == 2^TagBits

GetAllocationTagFromAddress(x) == (x \div 2^TagShift) % 2^TagBits

GetAddressWithAllocationTag(x, tag) == (x & (Mask(XBits) - (2^TagBits - 1) * 2^TagShift)) | (tag * 2^TagShift)

(* The next tag, from tag on, that is not excluded.                        *)
NextAllowed(tag, exclude) ==
  (tag + Min({k \in Tags : Bit(exclude, (tag + k) % 2^TagBits) = 0})) % 2^TagBits

(* offset counts only the tags that are not excluded.                      *)
ChooseNonExcludedTag(tag, offset, exclude) ==
  LET from[k \in 0..offset] == IF k = 0 THEN tag ELSE NextAllowed((from[k - 1] + 1) % 2^TagBits, exclude)
  IN CASE exclude = Mask(2^TagBits) -> 0
       [] exclude # Mask(2^TagBits) /\ offset = 0 -> NextAllowed(tag, exclude)
       [] OTHER -> from[offset]

(* An empty mask of the program is replaced by a random one of the lowest  *)
(* tags: rtag and rmask are the random numbers.                            *)
GenerateRandomTag(exclude, rtag, rmask) == ChooseNonExcludedTag(rtag, 0, IF exclude = 0 THEN rmask ELSE exclude)

(* irg, with the random numbers l and r.                                   *)
Simulate_XdSP_XnSP_Xm(S, i) ==
  WriteRegister(S, XBits, i.d,
    GetAddressWithAllocationTag(S.r[i.n], GenerateRandomTag(S.r[i.m] % 2^(2^TagBits), i.l, i.r)))

(* addg, subg: k granules, l tags on.                                      *)
SimulateMTEAddSubTag(S, i) ==
  LET tag == ChooseNonExcludedTag(GetAllocationTagFromAddress(S.r[i.n]), i.l, 0)
      offset == i.k * kMTETagGranuleInBytes
      sum == IF i.op = "subg" THEN AddWithCarry(XBits, S.r[i.n], Not64(offset), 1)
             ELSE AddWithCarry(XBits, S.r[i.n], offset, 0)
  IN WriteRegister(S, XBits, i.d, GetAddressWithAllocationTag(sum.value, tag))

(* gmi                                                                     *)
SimulateMTETagMaskInsert(S, i) ==
  WriteRegister(S, XBits, i.d, S.r[i.m] | 2^GetAllocationTagFromAddress(S.r[i.n]))

(* subp, subps: the addresses are sign-extended over their tags.           *)
SimulateMTESubPointer(S, i) ==
  LET address(x) == Wrap(Signed(x, TagShift))
      difference == AddWithCarry(XBits, address(S.r[i.n]), Not64(address(S.r[i.m])), 1)
      T == IF i.op = "subps" THEN SetFlags(S, difference.flags) ELSE S
  IN WriteRegister(T, XBits, i.d, difference.value)

VisitInteger(S, i) ==
  CASE i.visitor = "AddSubShifted" -> VisitAddSubShifted(S, i)
    [] i.visitor = "AddSubImmediate" -> VisitAddSubImmediate(S, i)
    [] i.visitor = "AddSubExtended" -> VisitAddSubExtended(S, i)
    [] i.visitor = "AddSubWithCarry" -> VisitAddSubWithCarry(S, i)
    [] i.visitor = "RotateRightIntoFlags" -> VisitRotateRightIntoFlags(S, i)
    [] i.visitor = "EvaluateIntoFlags" -> VisitEvaluateIntoFlags(S, i)
    [] i.visitor = "LogicalShifted" -> VisitLogicalShifted(S, i)
    [] i.visitor = "LogicalImmediate" -> VisitLogicalImmediate(S, i)
    [] i.visitor = "ConditionalCompareRegister" -> VisitConditionalCompareRegister(S, i)
    [] i.visitor = "ConditionalCompareImmediate" -> VisitConditionalCompareImmediate(S, i)
    [] i.visitor = "MoveWideImmediate" -> VisitMoveWideImmediate(S, i)
    [] i.visitor = "ConditionalSelect" -> VisitConditionalSelect(S, i)
    [] i.visitor = "DataProcessing1Source" -> VisitDataProcessing1Source(S, i)
    [] i.visitor = "DataProcessing2Source" -> VisitDataProcessing2Source(S, i)
    [] i.visitor = "SignedMinMax" -> SimulateSignedMinMax(S, i)
    [] i.visitor = "UnsignedMinMax" -> SimulateUnsignedMinMax(S, i)
    [] i.visitor = "DataProcessing3Source" -> VisitDataProcessing3Source(S, i)
    [] i.visitor = "Bitfield" -> VisitBitfield(S, i)
    [] i.visitor = "Extract" -> VisitExtract(S, i)
    [] i.visitor = "IncDec" -> VisitIncDec(S, i)
    [] i.visitor = "XdSP_XnSP_Xm" -> Simulate_XdSP_XnSP_Xm(S, i)
    [] i.visitor = "MTEAddSubTag" -> SimulateMTEAddSubTag(S, i)
    [] i.visitor = "MTETagMaskInsert" -> SimulateMTETagMaskInsert(S, i)
    [] i.visitor = "MTESubPointer" -> SimulateMTESubPointer(S, i)
=============================================================================
