---------------------------- MODULE ScalarForms ----------------------------
(***************************************************************************)
(* The scalar instructions and the values they are executed on.  An        *)
(* instruction carries the values of its registers before it: w in the     *)
(* destination, x, y and z in the sources n, m and a, fx, fy and fz in the *)
(* FP sources, and the flags.                                              *)
(***************************************************************************)
EXTENDS FpVisitors, SystemLogic

(* The values next to a boundary of some width, and a few in between.      *)
Boundaries ==
  {0, 1, 2, 3, 90, 165}
  \cup UNION {{2^k - 1, 2^k, 2^k + 1} : k \in {WBits - 1, WBits, XBits - 1}} \cup {2^XBits - 2^WBits, 2^XBits - 1}

Sparse == {0, 1, 2^WBits - 1, 90, 2^(XBits - 1), 2^XBits - 1}
Sizes == {WBits, XBits}

Form(visitor, op, size) ==
  [visitor |-> visitor, op |-> op, size |-> size, d |-> "d", n |-> "n", m |-> "m", a |-> "a",
   k |-> 0, l |-> 0, r |-> 0, s |-> TRUE, shift |-> "lsl", extend |-> [from |-> "x", signed |-> FALSE],
   not |-> FALSE, cond |-> "al", nzcv |-> 0, imm |-> FALSE, poly |-> 0, f |-> FP64, g |-> FP64, mode |-> "tie_even",
   w |-> 2^XBits - 91, x |-> 0, y |-> 0, z |-> 0, fx |-> 0, fy |-> 0, fz |-> 0, flags |-> FlagsOf(0), dn |-> FALSE]

Before(i) ==
  [r |-> [d |-> i.w, n |-> i.x, m |-> i.y, a |-> i.z], v |-> [d |-> 0, n |-> i.fx, m |-> i.fy, a |-> i.fz],
   nzcv |-> i.flags, dn |-> i.dn]

-----------------------------------------------------------------------------
AddSub ==
  {{[Form("AddSubShifted", op, size) EXCEPT !.x = x, !.y = y] :
      op \in {"add", "sub"}, size \in Sizes, x \in Boundaries, y \in Boundaries},
   {[Form("AddSubShifted", "add", size) EXCEPT !.y = y, !.shift = shift, !.k = k, !.s = FALSE] :
      size \in Sizes, y \in Boundaries, shift \in {"lsl", "lsr", "asr"}, k \in 0..(WBits - 1)},
   {[Form("AddSubExtended", "add", size) EXCEPT !.y = y, !.extend = [from |-> from, signed |-> signed], !.k = k] :
      size \in Sizes, y \in Boundaries, from \in {"b", "h", "w", "x"}, signed \in BOOLEAN, k \in {0, 1, 4}},
   {[Form("AddSubImmediate", op, size) EXCEPT !.x = x, !.k = k, !.l = l] :
      op \in {"add", "sub"}, size \in Sizes, x \in Boundaries, k \in 0..3, l \in {0, 1}},
   {[Form("AddSubWithCarry", op, size) EXCEPT !.x = x, !.y = y, !.flags = FlagsOf(f)] :
      op \in {"add", "sub"}, size \in Sizes, x \in Boundaries, y \in Boundaries, f \in {0, 2}}}

(* Counts as those of a vector of few elements, times a multiplier.        *)
Counting ==
  {{[Form("IncDec", op, size) EXCEPT !.x = x, !.k = k] :
      op \in {"sq", "uq"}, size \in Sizes, x \in Boundaries, k \in {-7, -2, -1, 0, 1, 2, 7}},
   {[Form("IncDec", "x", XBits) EXCEPT !.x = x, !.k = k] : x \in Sparse, k \in {-7, 0, 7}}}

TagArithmetic ==
  {{[Form("MTEAddSubTag", op, XBits) EXCEPT !.x = x, !.k = k, !.l = l] :
      op \in {"addg", "subg"}, x \in Boundaries, k \in {0, 1, 3}, l \in Tags},
   {[Form("MTESubPointer", op, XBits) EXCEPT !.x = x, !.y = y] :
      op \in {"subp", "subps"}, x \in Boundaries, y \in Boundaries},
   {[Form(visitor, "irg", XBits) EXCEPT !.x = x, !.y = y, !.l = tag, !.r = mask] :
      visitor \in {"XdSP_XnSP_Xm", "MTETagMaskInsert"}, x \in {90, 2^XBits - 1}, y \in 0..(2^(2^TagBits) - 1),
      tag \in Tags, mask \in {1, 2^TagBits - 1}}}

(* Every pointer, signed, authenticated and stripped.                      *)
Authentication ==
  {{[Form("System", op, XBits) EXCEPT !.w = x, !.y = y, !.mode = key, !.imm = zero] :
      op \in {"pac", "aut"}, x \in 0..(2^XBits - 1), y \in {90}, key \in {"ia", "db"}, zero \in {FALSE}},
   {[Form("System", op, XBits) EXCEPT !.w = x, !.mode = key, !.imm = TRUE] :
      op \in {"pac", "aut"}, x \in Sparse, key \in {"ib", "da"}},
   {[Form("System", "xpac", XBits) EXCEPT !.w = x] : x \in 0..(2^XBits - 1)},
   {[Form("System", "pacga", XBits) EXCEPT !.x = x, !.y = 90] : x \in Sparse}}

SystemFlags ==
  {{[Form("System", op, XBits) EXCEPT !.flags = FlagsOf(f)] : op \in {"cfinv", "axflag", "xaflag", "mrs", "rndr"}, f \in 0..15},
   {[Form("System", "msr", XBits) EXCEPT !.x = x] : x \in 0..(2^WBits - 1)}}

FlagOps ==
  {{[Form("RotateRightIntoFlags", "rmif", XBits) EXCEPT !.x = x, !.k = k, !.nzcv = n, !.flags = FlagsOf(f)] :
      x \in Sparse, k \in 0..(XBits - 1), n \in {0, 5, 15}, f \in {0, 10}},
   {[Form("EvaluateIntoFlags", op, WBits) EXCEPT !.x = x, !.flags = FlagsOf(f)] :
      op \in {"setf8", "setf16"}, x \in Boundaries, f \in {0, 15}},
   {[Form(visitor, op, size) EXCEPT !.x = x, !.y = y, !.k = y % 4, !.cond = cond, !.flags = FlagsOf(f), !.nzcv = 9] :
      visitor \in {"ConditionalCompareRegister", "ConditionalCompareImmediate"}, op \in {"ccmp", "ccmn"}, size \in Sizes,
      x \in Sparse, y \in Sparse, cond \in {"eq", "ge"}, f \in {0, 4}},
   {[Form("ConditionalSelect", op, size) EXCEPT !.x = x, !.y = y, !.cond = cond, !.flags = f] :
      op \in {"csel", "csinc", "csinv", "csneg"}, size \in Sizes, x \in {90}, y \in {0, 128, 255}, cond \in {"eq", "hi"},
      f \in {FlagsOf(2), FlagsOf(4)}}}

Bits ==
  {{[Form("LogicalShifted", op, size) EXCEPT !.x = x, !.y = y, !.shift = shift, !.k = k, !.not = not] :
      op \in {"and", "ands", "orr", "eor"}, size \in Sizes, x \in {90, 255}, y \in Sparse,
      shift \in {"lsr", "ror"}, k \in {0, 1, WBits - 1}, not \in BOOLEAN},
   {i \in {[Form("LogicalImmediate", "orr", size) EXCEPT !.k = s, !.r = r, !.l = n] :
      size \in Sizes, s \in 0..(XBits - 1), r \in 0..(XBits - 1), n \in {0, 1}} :
        (i.size = XBits \/ i.l = 0) /\ DecodeImmBitMask(i.l, i.k, i.r, i.size) # 0},
   {[Form("Bitfield", op, size) EXCEPT !.x = x, !.k = r, !.l = s] :
      op \in {"ubfm", "sbfm", "bfm"}, size \in Sizes, x \in {90, 165, 240}, r \in 0..(WBits - 1), s \in 0..(WBits - 1)},
   {[Form("Bitfield", op, XBits) EXCEPT !.x = x, !.k = r, !.l = s] :
      op \in {"ubfm", "sbfm", "bfm"}, x \in {90, 165}, r \in 0..(XBits - 1), s \in 0..(XBits - 1)},
   {[Form("Extract", "extr", size) EXCEPT !.x = x, !.y = y, !.k = k] :
      size \in Sizes, x \in Sparse, y \in Sparse, k \in 0..(WBits - 1)},
   {i \in {[Form("MoveWideImmediate", op, size) EXCEPT !.k = k, !.l = l, !.w = w] :
      op \in {"movz", "movn", "movk"}, size \in Sizes, k \in 0..(2^HBits - 1), l \in 0..3, w \in Sparse} :
        i.l * HBits < i.size}}

Multiplications ==
  {{[Form("DataProcessing3Source", op, size) EXCEPT !.x = x, !.y = y, !.z = z] :
      op \in {"madd", "msub"}, size \in Sizes, x \in Sparse, y \in Sparse, z \in {0, 90, 255}},
   {[Form("DataProcessing3Source", op, XBits) EXCEPT !.x = x, !.y = y, !.z = 90] :
      op \in {"smaddl", "smsubl", "umaddl", "umsubl", "umulh", "smulh"}, x \in Boundaries, y \in Boundaries},
   {[Form("sqrdmlash_d", op, XBits) EXCEPT !.x = x, !.y = y, !.z = z, !.s = round] :
      op \in {"add", "sub"}, x \in Boundaries, y \in Boundaries, z \in {90}, round \in BOOLEAN},
   {[Form("PolynomialMult128", "pmull", XBits) EXCEPT !.x = x, !.y = y] : x \in Boundaries, y \in Boundaries}}

OneAndTwoSources ==
  {{[Form("DataProcessing1Source", op, size) EXCEPT !.x = x] :
      op \in {"rbit", "rev16", "rev32", "clz", "cls", "ctz", "cnt", "abs"}, size \in Sizes, x \in 0..(2^XBits - 1)},
   {[Form("DataProcessing1Source", "rev64", XBits) EXCEPT !.x = x] : x \in Boundaries},
   {[Form("DataProcessing2Source", op, size) EXCEPT !.x = x, !.y = y] :
      op \in {"sdiv", "udiv", "lsl", "lsr", "asr", "ror"}, size \in Sizes, x \in Boundaries, y \in Boundaries},
   {[Form("DataProcessing2Source", "crc", WBits) EXCEPT !.x = x, !.y = y, !.k = k, !.poly = poly] :
      x \in {0, 1, 5, 10, 15}, y \in Boundaries, k \in {BBits, HBits, WBits, XBits}, poly \in {3, 9}},
   {[Form(visitor, op, size) EXCEPT !.x = x, !.y = y] :
      visitor \in {"SignedMinMax"}, op \in {"smax", "smin"}, size \in Sizes, x \in Sparse, y \in Sparse},
   {[Form("SignedMinMax", op, size) EXCEPT !.x = x, !.imm = TRUE, !.k = k] :
      op \in {"smax", "smin"}, size \in Sizes, x \in Sparse, k \in {-1, 0, 2}},
   {[Form("UnsignedMinMax", op, size) EXCEPT !.x = x, !.y = y, !.imm = imm, !.k = 3] :
      op \in {"umax", "umin"}, size \in Sizes, x \in Sparse, y \in Sparse, imm \in BOOLEAN}}

-----------------------------------------------------------------------------
Encodings(F) == 0..(2^(SignOffset(F) + 1) - 1)

(* Of the widest format, the values around each that the narrower ones     *)
(* have, and the special ones.                                             *)
WideValues ==
  LET near == UNION {{2^(FP64.m - FP32.m - 1) * k, 2^(FP64.m - FP32.m - 1) * k + 1, 2^(FP64.m - FP32.m) * k - 1} :
                     k \in 1..2^(FP64.e + FP32.m)}
  IN {v \in near \cup {v + 2^SignOffset(FP64) : v \in near} : v \in Encodings(FP64)} \cup {0, 2^SignOffset(FP64)}

ValuesOf(F) == IF F = FP64 THEN WideValues ELSE Encodings(F)

Modes == {"tie_even", "tie_away", "zero", "negative", "positive"}

ConvertPairs ==
  {<<FP64, FP32>>, <<FP64, FP16>>, <<FP32, FP64>>, <<FP32, FP16>>, <<FP32, BF16>>, <<FP16, FP32>>, <<FP16, FP64>>}

Conversions ==
  {{[Form("FPConvert", "fcvt", XBits) EXCEPT !.f = p[1], !.g = p[2], !.fx = x] : x \in ValuesOf(p[1])} : p \in ConvertPairs}
  \cup {{[Form("FPIntegerConvert", op, size) EXCEPT !.f = f, !.fx = x, !.mode = mode] :
     op \in {"fcvts", "fcvtu"}, size \in Sizes, x \in Encodings(f), mode \in Modes} : f \in {FP32, FP16}}
  \cup {{[Form("FPRoundInt", "frint", XBits) EXCEPT !.f = f, !.fx = x, !.mode = mode, !.dn = dn] :
     x \in Encodings(f), mode \in Modes, dn \in BOOLEAN} : f \in {FP32, FP16}}
  \cup
  {{[Form("FPConvert", "fcvt", XBits) EXCEPT !.f = p[1], !.g = p[2], !.fx = FPDefaultNaN(p[1]) + k, !.dn = TRUE] :
      p \in ConvertPairs, k \in {0, 1}},
   {[Form("FPIntegerConvert", "fcvts", size) EXCEPT !.fx = x, !.mode = mode] :
      size \in Sizes, x \in {v \in WideValues : v % 4 = 0}, mode \in {"tie_even", "tie_away"}},
   {[Form("FPIntegerConvert", "fjcvtzs", WBits) EXCEPT !.fx = x] : x \in WideValues},
   {[Form("FPIntegerConvert", op, size) EXCEPT !.x = x, !.f = f] :
      op \in {"scvtf", "ucvtf"}, size \in Sizes, f \in {FP64, FP32, FP16}, x \in 0..(2^XBits - 1)},
   {[Form("FPIntegerConvert", op, size) EXCEPT !.x = 165, !.fx = 90] :
      op \in {"fmov_to", "fmov_from"}, size \in {HBits, WBits, XBits}},
   {[Form("FPImmediate", "fmov", XBits) EXCEPT !.k = FPDefaultNaN(FP32) + 1]},
   {[Form("FPFixedPointConvert", op, size) EXCEPT !.x = x, !.f = f, !.k = k] :
      op \in {"scvtf", "ucvtf"}, size \in Sizes, f \in {FP64, FP32, FP16}, x \in Boundaries, k \in {1, WBits}},
   {[Form("FPFixedPointConvert", op, size) EXCEPT !.fx = x, !.f = FP32, !.k = k] :
      op \in {"fcvts", "fcvtu"}, size \in Sizes, x \in Encodings(FP32), k \in {1, WBits}},
   {[Form("FPRoundIntToSize", "frint", size) EXCEPT !.f = FP32, !.fx = x, !.mode = mode] :
      size \in Sizes, x \in Encodings(FP32), mode \in {"zero", "tie_even"}}}

(* Zero, the least number, 1 and 4 of both signs, infinities and NaNs.     *)
Numbers ==
  {Number(FALSE, v) : v \in {0, 1, 4, 16}} \cup {Number(TRUE, -v) : v \in {0, 1, 4, 16}}
  \cup {Infinity(neg) : neg \in BOOLEAN}

Arguments == Numbers \cup {NamedNaN("x", quiet) : quiet \in BOOLEAN}

One == Number(FALSE, Unit)

FpForm(visitor, op) == [Form(visitor, op, XBits) EXCEPT !.fx = One, !.fy = One, !.fz = One]

Arithmetic ==
  {{[FpForm("FPDataProcessing1Source", op) EXCEPT !.fx = x, !.dn = dn] :
      op \in {"fabs", "fneg", "fsqrt"}, x \in Arguments, dn \in BOOLEAN},
   {[FpForm("FPDataProcessing2Source", op) EXCEPT !.fx = x, !.fy = y, !.dn = dn] :
      op \in {"fadd", "fsub", "fmul", "fnmul", "fdiv", "fmax", "fmin", "fmaxnm", "fminnm"},
      x \in Arguments, y \in Arguments, dn \in BOOLEAN},
   {[FpForm("FPDataProcessing3Source", op) EXCEPT !.fx = x, !.fy = y, !.fz = z] :
      op \in {"fmadd", "fmsub", "fnmadd", "fnmsub"}, x \in Numbers, y \in Numbers, z \in Arguments},
   {[FpForm("NEONScalar3SameFP", op) EXCEPT !.fx = x, !.fy = y] :
      op \in {"fmulx", "frecps", "frsqrts"}, x \in Arguments, y \in Arguments},
   {[FpForm("FPCompare", "fcmp") EXCEPT !.fx = x, !.fy = y, !.imm = imm] :
      x \in Arguments, y \in Arguments, imm \in BOOLEAN},
   {[FpForm(visitor, "fccmp") EXCEPT !.fx = x, !.fy = y, !.cond = cond, !.nzcv = 9] :
      visitor \in {"FPConditionalCompare", "FPConditionalSelect"}, x \in Arguments, y \in Arguments, cond \in {"eq", "ne"}}}

(* The operations on 64-bit lanes of vectors that IntegerLogic has.        *)
VisitLane(S, i) ==
  CASE i.visitor = "sqrdmlash_d" ->
         WriteRegister(S, XBits, i.d, sqrdmlash_d(S.r[i.a], S.r[i.n], S.r[i.m], i.s, i.op = "sub"))
    [] i.visitor = "PolynomialMult128" ->
         LET product == PolynomialMult128(S.r[i.n], S.r[i.m], XBits)
         IN WriteRegister(WriteRegister(S, XBits, i.d, product.lo), XBits, i.a, product.hi)

FPVisitors ==
  {"FPImmediate", "FPIntegerConvert", "FPFixedPointConvert", "FPCompare", "FPConditionalCompare", "FPConditionalSelect",
   "FPRoundIntToSize", "FPRoundInt", "FPConvert", "FPDataProcessing1Source", "FPDataProcessing2Source",
   "FPDataProcessing3Source", "NEONScalar3SameFP"}

VisitScalarForm(S, i) ==
  CASE i.visitor \in FPVisitors -> VisitFP(S, i)
    [] i.visitor = "System" -> VisitSystem(S, i)
    [] i.visitor \in {"sqrdmlash_d", "PolynomialMult128"} -> VisitLane(S, i)
    [] OTHER -> VisitInteger(S, i)
=============================================================================
