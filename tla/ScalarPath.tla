----------------------------- MODULE ScalarPath -----------------------------
(***************************************************************************)
(* One integer or floating-point instruction at a time on scalar           *)
(* registers, against what the operation means as arithmetic.              *)
(***************************************************************************)
EXTENDS ScalarForms

CONSTANT ScalarGroups   \* the sets of instructions to execute

VARIABLES form,   \* the instruction just executed, <<>> before the first
          cores   \* registers and flags after it, and after what it is compared with

scalarVars == <<form, cores>>

core == cores["itself"]
Dest == core.r["d"]
FpDest == core.v["d"]

(* Sets of instructions by group; after the first instruction of a         *)
(* behaviour only that one, for what follows it.                           *)
ScalarGroup(g) ==
  CASE g = "addsub" -> AddSub
    [] g = "counts" -> Counting
    [] g = "tags" -> TagArithmetic
    [] g = "system" -> Authentication \cup SystemFlags
    [] g = "flags" -> FlagOps
    [] g = "bits" -> Bits
    [] g = "multiply" -> Multiplications
    [] g = "sources" -> OneAndTwoSources
    [] g = "convert" -> Conversions
    [] g = "fp" -> Arithmetic
    [] g = "executed" -> {{form}}

-----------------------------------------------------------------------------
(* The instructions that each is compared with: what they start from and   *)
(* what they are, by the name of the comparison.                           *)

Versus(what, S, i) == what :> [from |-> S, inst |-> i]

(* The 32-bit forms on sources with other high halves.                     *)
HighHalfIgnored ==
  {"AddSubShifted", "AddSubExtended", "AddSubImmediate", "AddSubWithCarry", "LogicalShifted", "LogicalImmediate",
   "Bitfield", "Extract", "ConditionalSelect", "DataProcessing1Source", "DataProcessing2Source",
   "DataProcessing3Source", "SignedMinMax", "UnsignedMinMax", "MoveWideImmediate"}

OtherHighHalves(i) ==
  LET flip(v) == (2^XBits - 2^WBits) ^^ v
  IN Versus("high halves", Before([i EXCEPT !.x = flip(@), !.y = flip(@), !.z = flip(@), !.w = flip(@)]), i)

(* The pointer signed, and authenticated with the other key.               *)
OtherKey(i) == CHOOSE key \in {"ia", "ib"} : Keys[key].number # Keys[i.mode].number

Authentications(i) ==
  Versus("signed", Before([i EXCEPT !.w = StripPAC(@)]), [i EXCEPT !.op = "pac"])
  @@ Versus("other key", Before(i), [i EXCEPT !.mode = OtherKey(i)])

(* Maxima for minima, and the operands in the other order.                 *)
Opposites(i) ==
  LET max == [i EXCEPT !.op = IF @ = "fmin" THEN "fmax" ELSE "fmaxnm"]
      with(x, y) == Before([i EXCEPT !.fx = x, !.fy = y])
  IN Versus("swapped", with(i.fy, i.fx), i)
     @@ Versus("opposite", with(Negated(i.fx), Negated(i.fy)), max)
     @@ Versus("opposite, swapped", with(Negated(i.fy), Negated(i.fx)), max)

FormsBeside(i) ==
  Versus("itself", Before(i), i)
  @@ CASE i.visitor \in HighHalfIgnored /\ i.size = WBits /\ i.op \notin {"movk", "crc"} -> OtherHighHalves(i)
       [] i.visitor = "System" /\ i.op = "aut" -> Authentications(i)
       [] i.visitor = "FPDataProcessing2Source" /\ i.op \in {"fmin", "fminnm"} -> Opposites(i)
       [] OTHER -> <<>>

(* The instructions that undo, or use, the result.                         *)
FormsAfter(i) ==
  CASE i.visitor = "MTEAddSubTag" ->
         Versus("back", Before([i EXCEPT !.x = Dest, !.y = i.x]), Form("MTESubPointer", "subp", XBits))
    [] i.visitor = "MTETagMaskInsert" ->
         Versus("chosen", Before([i EXCEPT !.y = Dest]), [i EXCEPT !.visitor = "XdSP_XnSP_Xm"])
    [] i.visitor = "System" /\ i.op = "pac" ->
         Versus("authenticated", Before([i EXCEPT !.w = Dest]), [i EXCEPT !.op = "aut"])
    [] i.visitor = "FPConvert" /\ ~i.dn /\ i.f.m < i.g.m ->
         Versus("back", [core EXCEPT !.v["n"] = FpDest], [i EXCEPT !.f = i.g, !.g = i.f])
    [] OTHER -> <<>>

-----------------------------------------------------------------------------
ScalarInit == form = <<>> /\ cores = <<>>

ComputeForm(i) ==
  /\ form' = i
  /\ LET executions == IF form = <<>> THEN FormsBeside(i) ELSE FormsAfter(i)
     IN /\ DOMAIN executions \cap DOMAIN cores = {}
        /\ cores' = [e \in DOMAIN executions |-> VisitScalarForm(executions[e].from, executions[e].inst)] @@ cores

Finish ==
  /\ form # <<>>
  /\ form' = <<>> /\ cores' = <<>>

ScalarNext ==
  \/ \E g \in IF form = <<>> THEN ScalarGroups ELSE {"executed"} :
       \E kind \in ScalarGroup(g) : \E i \in kind : ComputeForm(i)
  \/ Finish

-----------------------------------------------------------------------------
Ran(visitors) == form # <<>> /\ form.visitor \in visitors
Compared(what) == form # <<>> /\ what \in DOMAIN cores

Unsigned(x) == x % 2^form.size
AsSigned(x) == Signed(x, form.size)
Passes(cond) == ConditionPassed(core.nzcv, cond)
Magnitude(v) == IF v < 0 THEN -v ELSE v

(* The second operand of the additions and comparisons that are checked.   *)
SecondOperand ==
  CASE form.visitor = "AddSubImmediate" -> form.k * (IF form.l = 1 THEN 2^((3 * XBits) \div 16) ELSE 1)
    [] form.visitor = "ConditionalCompareImmediate" -> form.k
    [] OTHER -> form.y

(* After an addition or a subtraction, with or without carry, in 32 or 64  *)
(* bits, and after a comparison that was made, the sixteen conditions      *)
(* mean the relation of the exact numbers: AddWithCarry finds the carry    *)
(* without a wider sum.  After a floating-point comparison they mean less, *)
(* equal, greater or unordered.                                            *)
FlagsTellOrder ==
  /\ \/ Ran({"AddSubShifted"}) /\ form.s
     \/ Ran({"AddSubImmediate", "AddSubWithCarry"})
     \/ Ran({"ConditionalCompareRegister", "ConditionalCompareImmediate"}) /\ ConditionPassed(form.flags, form.cond) =>
       LET sub == form.op \in {"sub", "ccmp"}
           carry == IF form.visitor = "AddSubWithCarry" THEN form.flags.C ELSE Truth(sub)
           exact(n(_)) == IF sub THEN n(form.x) - n(SecondOperand) - (1 - carry) ELSE n(form.x) + n(SecondOperand) + carry
           signed == exact(AsSigned)
       IN /\ Passes("eq") <=> exact(Unsigned) % 2^form.size = 0
          /\ Passes("hs") <=> IF sub THEN exact(Unsigned) >= 0 ELSE exact(Unsigned) >= 2^form.size
          /\ Passes("ge") <=> signed >= 0
          /\ Passes("vs") <=> signed \notin -(2^(form.size - 1))..(2^(form.size - 1) - 1)
          /\ sub /\ carry = 1 => /\ Passes("hi") <=> Unsigned(form.x) > Unsigned(SecondOperand)
                                 /\ Passes("gt") <=> AsSigned(form.x) > AsSigned(SecondOperand)
  /\ Ran({"FPCompare", "FPConditionalCompare"}) /\ ConditionPassed(form.flags, form.cond) =>
       LET y == IF form.imm THEN Number(FALSE, 0) ELSE form.fy
           ordered == ~AnyNaN(<<form.fx, y>>)
       IN /\ Passes("vs") <=> ~ordered
          /\ Passes("mi") <=> ordered /\ Less(form.fx, y)
          /\ Passes("gt") <=> ordered /\ Less(y, form.fx)
          /\ Passes("eq") <=> ordered /\ ~Less(form.fx, y) /\ ~Less(y, form.fx)
          /\ Passes("ls") <=> ordered /\ ~Less(y, form.fx)

(* Counts added to a register stop at the ends of the 32-bit or 64-bit     *)
(* range, signed or unsigned, and nowhere else; a signed 32-bit result is  *)
(* sign-extended.  (IncDecN sees only sums that have wrapped.)             *)
CountsSaturate ==
  Ran({"IncDec"}) =>
    LET signed == form.op = "sq"
        low == IF signed THEN -(2^(form.size - 1)) ELSE 0
        high == IF signed THEN 2^(form.size - 1) - 1 ELSE 2^form.size - 1
        exact == (IF signed THEN AsSigned(form.x) ELSE Unsigned(form.x)) + form.k
    IN Dest = Wrap(IF form.op = "x" THEN exact ELSE Max({low, Min({exact, high})}))

TagOf(x) == GetAllocationTagFromAddress(x)

(* What memory tagging relies on: the distance of two pointers is that of  *)
(* their addresses whatever their tags, after addg too; addg moves the tag *)
(* on by as much as it says; and irg never gives a tag that its mask       *)
(* excludes, in particular not the one gmi has put there.                  *)
TagsKeptApart ==
  /\ Ran({"MTEAddSubTag"}) /\ Compared("back") =>
       LET moved == IF form.op = "addg" THEN form.k ELSE -form.k
       IN /\ TagOf(Dest) = (TagOf(form.x) + form.l) % 2^TagBits
          /\ (Signed(cores["back"].r["d"], XBits) - moved * kMTETagGranuleInBytes) % 2^TagShift = 0
  /\ Ran({"MTESubPointer"}) =>
       /\ Signed(Dest, XBits) = Signed(form.x, TagShift) - Signed(form.y, TagShift)
       /\ form.op = "subps" => (Passes("lt") <=> Signed(form.x, TagShift) < Signed(form.y, TagShift))
  /\ Ran({"XdSP_XnSP_Xm"}) =>
       /\ form.y \in 1..(2^(2^TagBits) - 2) => Bit(form.y, TagOf(Dest)) = 0
       /\ GetAddressWithAllocationTag(Dest, TagOf(form.x)) = form.x
  /\ Compared("chosen") /\ Dest # Mask(2^TagBits) => TagOf(cores["chosen"].r["d"]) # TagOf(form.x)

(* A pointer that was signed authenticates, with the same context and key, *)
(* to itself if it was canonical and to an error otherwise, and stripping  *)
(* it has the same result; a pointer authenticates only if it is what      *)
(* signing gives; and no error is a canonical pointer, in neither half of  *)
(* the address space, nor the error of the other key.                      *)
PointersAuthenticate ==
  /\ Compared("authenticated") =>
       /\ StripPAC(Dest) = StripPAC(form.w)
       /\ form.w = StripPAC(form.w) <=> cores["authenticated"].r["d"] = StripPAC(form.w)
  /\ Compared("signed") =>
       /\ Dest = StripPAC(Dest) <=> cores["signed"].r["d"] = form.w
       /\ Dest = cores["other key"].r["d"] => Dest = StripPAC(form.w)

(* axflag and xaflag lose nothing of what a floating-point comparison      *)
(* found, and after axflag "ls" still means less, equal or unordered.      *)
FlagFormats ==
  /\ Ran({"System"}) /\ form.op = "axflag" /\ FlagBits(form.flags) \in {2, 3, 6, 8} =>
       /\ ConvertFlags(core.nzcv, "xaflag") = form.flags
       /\ Passes("ls") <=> FlagBits(form.flags) # 2
  /\ Ran({"System"}) /\ form.op = "mrs" =>
       VisitSystem([core EXCEPT !.nzcv = FlagsOf(0)], [form EXCEPT !.op = "msr", !.n = "d"]).nzcv = form.flags

-----------------------------------------------------------------------------
SignedProduct == AsSigned(form.x) * AsSigned(form.y)
UnsignedProduct == form.x * form.y

(* What the comment in sqrdmlash_d promises of 64-bit lanes, saturated.    *)
DoublingHigh ==
  LET exact == (Signed(form.z, XBits) * 2^(XBits - 1) + (IF form.op = "sub" THEN -SignedProduct ELSE SignedProduct)
                + (IF form.s THEN 2^(XBits - 2) ELSE 0)) \div 2^(XBits - 1)
  IN Wrap(Max({-(2^(XBits - 1)), Min({exact, 2^(XBits - 1) - 1})}))

(* Mul64 negates the halves of a product one by one, which is right unless *)
(* the low one is zero: the carry into the high half is missing then, and  *)
(* sqrdmlash_d is wrong by two.                                            *)
NegatedWithoutCarry == SignedProduct % 2^XBits = 0 /\ Bit(form.x, XBits - 1) # Bit(form.y, XBits - 1)

(* Results wider than the arithmetic that computes them: the high half of  *)
(* a product from products of halves, multiply-adds of W registers, the    *)
(* doubling multiply-adds of 64-bit lanes and polynomial products from     *)
(* pairs of 64-bit numbers.  They are the exact ones.                      *)
WideResults ==
  /\ Ran({"DataProcessing3Source"}) =>
       LET x == form.x
           y == form.y
           product == IF form.op \in {"smaddl", "smsubl"} THEN Signed(x, WBits) * Signed(y, WBits)
                      ELSE IF form.op \in {"umaddl", "umsubl"} THEN (x % 2^WBits) * (y % 2^WBits)
                      ELSE (x % 2^form.size) * (y % 2^form.size)
       IN Dest = CASE form.op = "umulh" -> UnsignedProduct \div 2^XBits
                   [] form.op = "smulh" -> Wrap(SignedProduct \div 2^XBits)
                   [] form.op \in {"madd", "smaddl", "umaddl"} -> (form.z + product) % 2^form.size
                   [] OTHER -> (form.z - product) % 2^form.size
  /\ Ran({"sqrdmlash_d"}) /\ ~NegatedWithoutCarry => Dest = DoublingHigh
  /\ Ran({"PolynomialMult128"}) =>
       \A k \in 0..(2 * XBits - 1) :
         LET set == {j \in 0..(XBits - 1) : k - j \in 0..(XBits - 1) /\ Bit(form.x, j) = 1 /\ Bit(form.y, k - j) = 1}
         IN Cardinality(set) % 2 = IF k < XBits THEN Bit(Dest, k) ELSE Bit(core.r["a"], k - XBits)

-----------------------------------------------------------------------------
(* A shift, also one behind an extension, is a multiplication or a         *)
(* division rounded down of the number the register holds, however far it  *)
(* goes; a rotation moves each bit.                                        *)
ShiftsScale ==
  /\ Ran({"AddSubShifted"}) /\ ~form.s =>
       Dest = Unsigned(CASE form.shift = "lsl" -> Unsigned(form.y) * 2^form.k
                         [] form.shift = "lsr" -> Unsigned(form.y) \div 2^form.k
                         [] form.shift = "asr" -> AsSigned(form.y) \div 2^form.k)
  /\ Ran({"AddSubExtended"}) =>
       LET n == Min({ExtendBits[form.extend.from], form.size})
       IN Dest = Unsigned((IF form.extend.signed THEN Signed(form.y, n) ELSE form.y % 2^n) * 2^form.k)
  /\ Ran({"DataProcessing2Source"}) /\ form.op \in {"lsl", "lsr", "asr", "ror"} =>
       LET k == (form.y % 2^WBits) % form.size
       IN CASE form.op = "lsl" -> Dest = Unsigned(Unsigned(form.x) * 2^k)
            [] form.op = "lsr" -> Dest = Unsigned(form.x) \div 2^k
            [] form.op = "asr" -> Dest = Unsigned(AsSigned(form.x) \div 2^k)
            [] form.op = "ror" -> \A b \in 0..(form.size - 1) : Bit(Dest, b) = Bit(form.x, (b + k) % form.size)

(* Where bit b of a bitfield move's result comes from: r bits up in the    *)
(* source, around the end when the field is moved up.                      *)
FieldBit(b) == (b + form.k) % form.size
InField(b) ==
  IF form.l >= form.k THEN b <= form.l - form.k ELSE b \in (form.size - form.k)..(form.size - form.k + form.l)
AboveField(b) == b > (form.l - form.k + form.size) % form.size

(* ubfm, sbfm and bfm with every pair of positions, and extr: each bit of  *)
(* the result is the bit of the field, of its sign, of the destination, or *)
(* zero.  The code builds masks with rotations and shifts by up to 64.     *)
BitfieldReference ==
  /\ Ran({"Bitfield"}) =>
       \A b \in 0..(XBits - 1) :
         Bit(Dest, b) = CASE b >= form.size -> 0
                          [] b < form.size /\ InField(b) -> Bit(form.x, FieldBit(b))
                          [] b < form.size /\ ~InField(b) /\ form.op = "bfm" -> Bit(form.w, b)
                          [] b < form.size /\ ~InField(b) /\ form.op = "sbfm" -> IF AboveField(b) THEN Bit(form.x, form.l) ELSE 0
                          [] OTHER -> 0
  /\ Ran({"Extract"}) =>
       Dest = Unsigned((Unsigned(form.x) * 2^form.size + Unsigned(form.y)) \div 2^form.k)

(* A logical immediate is a run of ones repeated and rotated: as many ones *)
(* as its encoding says and one end to each run; no other rotation of the  *)
(* same run gives it.                                                      *)
ImmediateMasks ==
  Ran({"LogicalImmediate"}) =>
    LET width == IF form.l = 1 THEN XBits ELSE Max({w \in {2, 4, XBits \div 2} : (form.k \div w) % 2 = 0})
        value == Dest
        ends == {b \in 0..(width - 1) : Bit(value, b) = 1 /\ Bit(value, (b + 1) % width) = 0}
    IN /\ \A b \in 0..(form.size - 1) : Bit(value, b) = Bit(value, b % width)
       /\ CountSetBits(value % 2^width, width) = (form.k % width) + 1
       /\ Cardinality(ends) = 1
       /\ \A r \in 0..(width - 1) : DecodeImmBitMask(form.l, form.k, r, form.size) = value => r = form.r % width

(* Counts and reversals agree with one another and with the bits.          *)
CountsAndReversals ==
  Ran({"DataProcessing1Source"}) =>
    LET x == Unsigned(form.x)
        ones == {b \in 0..(form.size - 1) : Bit(x, b) = 1}
        block == CASE form.op = "rev16" -> 2 * BBits [] form.op = "rev32" -> 4 * BBits [] OTHER -> XBits
        byte(b) == b \div BBits
        mirrored(b) == (b \div block) * block + (block - BBits - BBits * byte(b % block)) + (b % BBits)
    IN CASE form.op = "rbit" -> \A b \in 0..(form.size - 1) : Bit(Dest, form.size - 1 - b) = Bit(x, b)
         [] form.op \in {"rev16", "rev32", "rev64"} -> \A b \in 0..(form.size - 1) : Bit(Dest, mirrored(b)) = Bit(x, b)
         [] form.op = "clz" -> Dest = IF ones = {} THEN form.size ELSE form.size - 1 - Max(ones)
         [] form.op = "ctz" -> Dest = IF ones = {} THEN form.size ELSE Min(ones)
         [] form.op = "cnt" -> Dest = Cardinality(ones)
         [] form.op = "cls" -> Dest + 1 = Max({n \in 1..form.size : AsSigned(x) \in -(2^(form.size - n))..(2^(form.size - n) - 1)})
         [] form.op = "abs" -> Dest = Unsigned(IF AsSigned(x) < 0 THEN -AsSigned(x) ELSE AsSigned(x))

(* A checksum over an H, W or X value is the checksum over its bytes, the  *)
(* low one first, and it is linear: two inputs that differ by d give       *)
(* results that differ by the checksum of d from zero.                     *)
CrcChains ==
  Ran({"DataProcessing2Source"}) /\ form.op = "crc" =>
    LET x == form.y % 2^form.k
        byte(j) == (x \div 2^((j - 1) * BBits)) % 2^BBits
        step(acc, j) == Crc32Checksum(acc, byte(j), BBits, form.poly)
        acc0 == form.x % 2^WBits
        all(acc, v) == IF form.k = XBits THEN Crc32Checksum64(acc, v, form.poly) ELSE Crc32Checksum(acc, v, form.k, form.poly)
    IN /\ Dest = FoldLeft(step, acc0, [j \in 1..(form.k \div BBits) |-> j])
       /\ Dest ^^ all(0, 5 % 2^form.k) = all(acc0, x ^^ (5 % 2^form.k))

(* sdiv and udiv round towards zero, give zero for a zero divisor, and the *)
(* one quotient that does not fit is its low bits; the minima and maxima   *)
(* are the numbers', sign-extended or not.                                 *)
DivisionAndOrder ==
  /\ Ran({"DataProcessing2Source"}) /\ form.op \in {"sdiv", "udiv"} =>
       LET n(x) == IF form.op = "sdiv" THEN AsSigned(x) ELSE Unsigned(x)
           x == n(form.x)
           y == n(form.y)
       IN IF y = 0 THEN Dest = 0
          ELSE \E q \in -(2^form.size)..(2^form.size) :
                 LET r == x - q * y IN Dest = Unsigned(q) /\ Magnitude(r) < Magnitude(y) /\ (r = 0 \/ (r < 0) = (x < 0))
  /\ Ran({"SignedMinMax", "UnsignedMinMax"}) =>
       LET signed == form.visitor = "SignedMinMax"
           n(x) == IF signed THEN AsSigned(x) ELSE Unsigned(x)
           y == IF form.imm THEN form.k ELSE n(form.y)
       IN Dest = Unsigned(IF form.op \in {"smax", "umax"} THEN Max({n(form.x), y}) ELSE Min({n(form.x), y}))

(* A 32-bit instruction reads only the low halves of its sources and       *)
(* clears the high half of its destination; movk has a run of its own.     *)
UpperHalves ==
  Compared("high halves") =>
    LET other == cores["high halves"]
    IN other.r["d"] = Dest /\ other.nzcv = core.nzcv /\ Dest < 2^WBits

(* "Write 'value' into an integer register. The value is zero-extended.    *)
(* This behaviour matches AArch64 register writes.": no instruction on a W *)
(* register leaves anything in the high half of its destination.           *)
UpperHalfCleared ==
  Ran({"MoveWideImmediate", "AddSubShifted", "Bitfield"}) /\ form.size = WBits => Dest < 2^WBits

-----------------------------------------------------------------------------
Even(F, x) == MantissaOf(F, x) % 2 = 0 \/ F.m = 0

(* The encodings next to one of the same sign; infinity counts as the next *)
(* power of two.                                                           *)
Neighbours(F, x) == {y \in {x - 1, x + 1} : y \in Encodings(F) /\ SignOf(F, y) = SignOf(F, x) /\ Classify(F, y) # "nan"}
ValueOf(F, x) ==
  LET limit == 2^(InfiniteExponent(F) - Bias(F)) * OneUnit
  IN IF Classify(F, x) = "infinite" THEN (IF SignOf(F, x) = 1 THEN -limit ELSE limit) ELSE NumberOf(F, x).v

(* x is the value v of sign neg rounded to the nearest of format F, of two *)
(* equally near ones to the even one.                                      *)
Nearest(F, x, neg, v) ==
  /\ Classify(F, x) # "nan" /\ SignOf(F, x) = Truth(neg)
  /\ LET error(y) == Magnitude(ValueOf(F, y) - v)
     IN \/ Classify(F, x) = "infinite" /\ Magnitude(v) >= Magnitude(ValueOf(F, x))
        \/ \A y \in Neighbours(F, x) : error(x) < error(y) \/ (error(x) = error(y) /\ Even(F, x))

(* A conversion to a narrower format, or of an integer or a fixed-point    *)
(* number to any format, gives the nearest number: across the subnormal    *)
(* ones, over a carry into the exponent and up to infinity.  FPRound does  *)
(* it with one addition to the assembled bits.                             *)
RoundsToNearest ==
  /\ Ran({"FPConvert"}) /\ Classify(form.f, form.fx) # "nan" =>
       LET x == NumberOf(form.f, form.fx)
       IN IF IsInf(x) THEN Classify(form.g, FpDest) = "infinite" /\ SignOf(form.g, FpDest) = Truth(x.neg)
          ELSE Nearest(form.g, FpDest, x.neg, x.v)
  /\ Ran({"FPIntegerConvert", "FPFixedPointConvert"}) /\ form.op \in {"scvtf", "ucvtf"} =>
       LET n == IF form.op = "scvtf" THEN AsSigned(form.x) ELSE Unsigned(form.x)
       IN Nearest(form.f, FpDest, n < 0, n * (OneUnit \div 2^form.k))

(* fcvtxn: what was first rounded to odd can be rounded again, to a        *)
(* format two bits shorter, as if it never had been.                       *)
OddThenNearest ==
  Ran({"FPConvert"}) /\ form.f = FP64 /\ form.g = FP16 /\ Classify(FP64, form.fx) # "nan" =>
    FPToFloat16FromFloat(FPToFloat(form.fx, "odd", FALSE), FALSE) = FpDest

(* Widening loses nothing: converted back it is the same number, the same  *)
(* zero or the same NaN made quiet.                                        *)
WideningIsExact ==
  Ran({"FPConvert"}) /\ Compared("back") => cores["back"].v["d"] = ToQuietNaN(form.f, form.fx)

(* The integer that rounding v (in counts of 2^-Point) gives in a mode.    *)
IsRounded(n, v, mode) ==
  LET error == v - n * OneUnit
      half == OneUnit \div 2
  IN CASE mode = "negative" -> error \in 0..(OneUnit - 1)
       [] mode = "positive" -> -error \in 0..(OneUnit - 1)
       [] mode = "zero" -> IF v >= 0 THEN error \in 0..(OneUnit - 1) ELSE -error \in 0..(OneUnit - 1)
       [] mode = "tie_even" -> Magnitude(error) < half \/ (Magnitude(error) = half /\ n % 2 = 0)
       [] mode = "tie_away" -> Magnitude(error) < half \/ (Magnitude(error) = half /\ Magnitude(n) * OneUnit > Magnitude(v))

(* Conversions to integers round as their mode says and stop at the ends   *)
(* of the range, NaNs give zero; frint gives the same integers as numbers  *)
(* with the sign of what was rounded, zero's included; frint32 and frint64 *)
(* give the least integer instead of what is out of range.                 *)
RoundsToInteger ==
  /\ Ran({"FPIntegerConvert", "FPFixedPointConvert"}) /\ form.op \in {"fcvts", "fcvtu"} =>
       LET x == NumberOf(form.f, form.fx)
           v == x.v * 2^form.k
           mode == IF form.visitor = "FPFixedPointConvert" THEN "zero" ELSE form.mode
           low == IF form.op = "fcvts" THEN -(2^(form.size - 1)) ELSE 0
           high == IF form.op = "fcvts" THEN 2^(form.size - 1) - 1 ELSE 2^form.size - 1
           result == IF form.op = "fcvts" THEN AsSigned(Dest) ELSE Dest
       IN CASE x.cls = "nan" -> result = 0
            [] x.cls = "inf" -> result = IF x.neg THEN low ELSE high
            [] x.cls = "num" -> \/ IsRounded(result, v, mode)
                                \/ result = low /\ v < low * OneUnit
                                \/ result = high /\ v > high * OneUnit
  /\ Ran({"FPRoundInt", "FPRoundIntToSize"}) /\ Classify(form.f, form.fx) \notin {"nan", "infinite"} =>
       LET x == NumberOf(form.f, form.fx)
           y == NumberOf(form.f, FpDest)
       IN \/ y.v % OneUnit = 0 /\ IsRounded(y.v \div OneUnit, x.v, form.mode) /\ y.neg = x.neg
          \/ form.visitor = "FPRoundIntToSize" /\ y.v = -(2^(form.size - 1)) * OneUnit

(* fjcvtzs gives the integer part modulo 2^32, and Z exactly when the      *)
(* result is the number that was converted (minus zero is not).            *)
JavaScriptModulo ==
  Ran({"FPIntegerConvert"}) /\ form.op = "fjcvtzs" =>
    LET x == NumberOf(FP64, form.fx)
        whole == IF x.v < 0 THEN -Floor(-x.v) ELSE Floor(x.v)
    IN /\ Dest = IF x.cls = "num" THEN whole % 2^WBits ELSE 0
       /\ core.nzcv.Z = 1 <=> FixedToFP(FP64, Signed(Dest, WBits), 0) = form.fx

-----------------------------------------------------------------------------
Accumulator == IF form.op \in {"fnmadd", "fnmsub"} THEN Negated(form.fz) ELSE form.fz
Factor == IF form.op \in {"fmsub", "fnmadd"} THEN Negated(form.fx) ELSE form.fx

(* A fused multiply-add whose product needs no rounding is a               *)
(* multiplication and an addition: the same number, the same zero and the  *)
(* same NaN, on a host whose fma gets zeros wrong.  A product that         *)
(* vanishes keeps its sign.                                                *)
FusedAgrees ==
  Ran({"FPDataProcessing3Source"}) =>
    LET product == FPMul(Factor, form.fy, FALSE)
    IN IF product.cls # "num" \/ (form.fx.v * form.fy.v) % Unit = 0
       THEN FpDest = FPAdd(product, Accumulator, FALSE)
       ELSE IsZero(form.fz) => FpDest = product

(* frecps and frsqrts are 2 - xy and (3 - xy) / 2, whichever operand is    *)
(* halved to avoid a second rounding, and 2 and 1.5 where the product is   *)
(* invalid.                                                                *)
StepsExact ==
  Ran({"NEONScalar3SameFP"}) /\ form.op \in {"frecps", "frsqrts"} /\ ~AnyNaN(<<form.fx, form.fy>>) =>
    LET steps == IF form.op = "frecps" THEN <<2, 1>> ELSE <<3, 2>>
        product == form.fx.v * form.fy.v
    IN CASE ZeroTimesInf(form.fx, form.fy) -> FpDest.v * steps[2] = steps[1] * Unit
         [] ~ZeroTimesInf(form.fx, form.fy) /\ (IsInf(form.fx) \/ IsInf(form.fy)) -> FpDest = Infinity(form.fx.neg = form.fy.neg)
         [] OTHER -> product % (steps[2] * Unit) = 0 => FpDest.v * steps[2] = steps[1] * Unit - product \div Unit

(* The minimum of two numbers is the maximum of their opposites, and the   *)
(* order of the operands matters only to NaNs.                             *)
MinMaxDual ==
  Compared("swapped") /\ ~IsNaN(FpDest) =>
    /\ cores["swapped"].v["d"] = FpDest
    /\ \A what \in {"opposite", "opposite, swapped"} : cores[what].v["d"] = Negated(FpDest)

-----------------------------------------------------------------------------
(* The integer instructions compute what arithmetic on numbers, or on      *)
(* single bits, says: flags and carries, high and doubled products,        *)
(* shifts, fields, masks, counts, checksums and divisions at the edges of  *)
(* both register widths, tagged and signed pointers.                       *)
IntegerReference ==
  /\ FlagsTellOrder /\ WideResults /\ ShiftsScale /\ DivisionAndOrder /\ UpperHalves
  /\ BitfieldReference /\ ImmediateMasks /\ CountsAndReversals /\ CrcChains
  /\ CountsSaturate /\ TagsKeptApart /\ PointersAuthenticate /\ FlagFormats

(* The floating-point instructions round where they should and only there: *)
(* to nearest or to odd, between formats and to integers, and a fused      *)
(* operation, a NaN or a zero is treated as the unfused ones treat it.     *)
FloatReference ==
  /\ RoundsToNearest /\ OddThenNearest /\ WideningIsExact /\ RoundsToInteger
  /\ JavaScriptModulo /\ FusedAgrees /\ StepsExact /\ MinMaxDual
=============================================================================
