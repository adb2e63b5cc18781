--------------------------- MODULE FpVectorLogic ---------------------------
(***************************************************************************)
(* The floating-point, complex, matrix and cryptographic vector functions  *)
(* of logic-aarch64.cc as data flow, in the style of VectorLogic.          *)
(***************************************************************************)
EXTENDS VectorLogic

-----------------------------------------------------------------------------
(* Complex numbers: lanes 2e (real) and 2e + 1 (imaginary).                *)

(* Both parts of the second operand are read before the first lane is      *)
(* written; the first operand's imaginary part after it.                   *)
fcadd(R, f, d, s) ==
  LET Step(S, e) ==
        LET m == <<Arg(S, s[2], f.size, 2 * e), Arg(S, s[2], f.size, 2 * e + 1)>>
            T == ClearForWrite(S, d, f)
            U == SetLane(T, d, f.size, 2 * e,
                         Compute("fcadd", f.size, <<Arg(T, s[1], f.size, 2 * e), m[2]>>))
        IN SetLane(U, d, f.size, 2 * e + 1,
                   Compute("fcadd", f.size, <<Arg(U, s[1], f.size, 2 * e + 1), m[1]>>))
  IN For(R, f.lanes \div 2, Step)

(* k is the index of the multiplying pair, or -1 for pair e of iteration e.*)
fcmla(R, f, d, s, acc, k, rot) ==
  LET Step(S, e) ==
        LET j == IF k < 0 THEN e ELSE k
            n == Arg(S, s[1], f.size, 2 * e + (rot % 2))
            m == <<Arg(S, s[2], f.size, 2 * j), Arg(S, s[2], f.size, 2 * j + 1)>>
            T == ClearForWrite(S, d, f)
            U == SetLane(T, d, f.size, 2 * e,
                   Compute("fcmla", f.size, <<Arg(T, acc, f.size, 2 * e), n, m[1 + (rot % 2)]>>))
        IN SetLane(U, d, f.size, 2 * e + 1,
                   Compute("fcmla", f.size, <<Arg(U, acc, f.size, 2 * e + 1), n, m[2 - (rot % 2)]>>))
  IN For(R, f.lanes \div 2, Step)

(* Real and imaginary parts are unzipped into temporaries and the result   *)
(* zipped into the destination.  (t6 is the zero operand of uzp.)          *)
cadd(R, f, d, s) ==
  LET r1 == Permute(Fresh(R, {"t1", "t2", "t3", "t4", "t6"}), "uzp1", f, "t1", <<s[1], "t6">>)
      i1 == Permute(r1, "uzp2", f, "t2", <<s[1], "t6">>)
      r2 == Permute(i1, "uzp1", f, "t3", <<s[2], "t6">>)
      i2 == Permute(r2, "uzp2", f, "t4", <<s[2], "t6">>)
      re == Lanewise(i2, f, "t1", <<"t1", "t4">>, "sub")
      im == Lanewise(re, f, "t2", <<"t2", "t3">>, "add")
  IN Permute(im, "zip1", f, d, <<"t1", "t2">>)

cmla(R, f, d, acc, s, rot) ==
  LET even == IF rot % 2 = 0 THEN "uzp1" ELSE "uzp2"
      odd == IF rot % 2 = 0 THEN "uzp2" ELSE "uzp1"
      a1 == Permute(Fresh(R, {"t1", "t2", "t3", "t4", "t6", "u1", "u2"}), even, f, "t1", <<s[1], "t6">>)
      a2 == Permute(a1, even, f, "t2", <<s[2], "t6">>)
      b2 == Permute(a2, odd, f, "t3", <<s[2], "t6">>)
      ar == Permute(b2, "uzp1", f, "t4", <<acc, "t6">>)
      ai == Permute(ar, "uzp2", f, "u2", <<acc, "t6">>)
      re == Lanewise(Lanewise(ai, f, "u1", <<"t1", "t2">>, "mul"), f, "t4", <<"t4", "u1">>, "add")
      im == Lanewise(Lanewise(re, f, "u1", <<"t1", "t3">>, "mul"), f, "u2", <<"u2", "u1">>, "add")
  IN Permute(im, "zip1", f, d, <<"t4", "u2">>)

cmlaIndexed(R, f, d, acc, s, k, rot) ==
  LET T == dup_elements_to_segments(Fresh(R, {"t5"}), DoubleWidth(f), "t5", s[2], k)
  IN cmla(T, f, d, acc, <<s[1], "t5">>, rot)

-----------------------------------------------------------------------------
(* Floating point, lane by lane.                                           *)

FP3SameOps == {"fadd", "fsub", "fmul", "fmulx", "fdiv", "fmax", "fmin", "fmaxnm", "fminnm"}

(* fnmul multiplies into the destination's own temporary and negates.      *)
FP3Same(R, op, f, d, s) ==
  IF op = "fnmul"
  THEN Lanewise(Lanewise(Fresh(R, {"t1"}), f, "t1", s, "fmul"), f, d, <<"t1">>, "fneg")
  ELSE Lanewise(R, f, d, s, op)

(* The second source holds the exponents; nothing is cleared.              *)
fscale(R, f, d, s) == InPlace(R, f, d, s, "fscale")

FPStep(R, op, f, d, s) == Lanewise(R, f, d, s, op)

(* fcmp against a register or against zero; fabscmp takes absolute values  *)
(* into temporaries first.                                                 *)
FPCompareVector(R, op, f, d, s) ==
  LET T == Lanewise(Fresh(R, {"t1", "t2"}), f, "t1", <<s[1]>>, "fabs")
      U == Lanewise(T, f, "t2", <<s[2]>>, "fabs")
  IN IF op = "fabscmp" THEN Lanewise(U, f, d, <<"t1", "t2">>, "fcmp") ELSE Lanewise(R, f, d, s, op)

(* fmla, fmls with an accumulator operand.                                 *)
FPMulAcc(R, op, f, d, acc, s) == Lanewise(R, f, d, <<acc>> \o s, op)

(* fmlal, fmlsl (low half) and fmlal2, fmlsl2 (high half): half-precision  *)
(* lanes are read while single-precision lanes are written, ascending.     *)
fmlal(R, op, f, d, s) ==
  LET src(i) == IF op \in {"fmlal2", "fmlsl2"} THEN i + f.lanes ELSE i
  IN For(ClearForWrite(R, d, f), f.lanes,
         LAMBDA S, i : SetLane(S, d, f.size, i,
           Compute(op, f.size, <<Arg(S, d, f.size, i), Arg(S, s[1], f.size \div 2, src(i)),
                                 Arg(S, s[2], f.size \div 2, src(i))>>)))

(* By element: the element is read once, after the destination's upper     *)
(* part was cleared.                                                       *)
fmlalIndexed(R, op, f, d, s, k) ==
  LET T == ClearForWrite(R, d, f)
      op2 == Arg(T, s[2], f.size \div 2, k)
      src(i) == IF op \in {"fmlal2", "fmlsl2"} THEN i + f.lanes ELSE i
  IN For(T, f.lanes,
         LAMBDA S, i : SetLane(S, d, f.size, i,
           Compute(op, f.size, <<Arg(S, d, f.size, i), Arg(S, s[1], f.size \div 2, src(i)), op2>>)))

FPUnaryOps == {"fneg", "fabs", "fsqrt"}

FPUnary(R, op, f, d, a) == Lanewise(R, f, d, <<a>>, op)

fabd(R, f, d, s) ==
  Lanewise(Lanewise(Fresh(R, {"t1"}), f, "t1", s, "fsub"), f, d, <<"t1">>, "fabs")

FPPairOps == {"faddp", "fmaxp", "fminp", "fmaxnmp", "fminnmp"}

FPPair(R, op, f, d, s) ==
  LET T == Permute(Permute(Fresh(R, {"t1", "t2"}), "uzp1", f, "t1", s), "uzp2", f, "t2", s)
      U == Lanewise(T, f, d, <<"t1", "t2">>, op)
  IN IF f.sve THEN interleave_top_bottom(U, f, d, d) ELSE U

(* The scalar form writes lane 0 and clears the rest afterwards.           *)
FPPairScalar(R, op, f, d, a) ==
  ClearForWrite(SetLane(R, d, f.size, 0,
                        Compute(op, f.size, <<Arg(R, a, f.size, 0), Arg(R, a, f.size, 1)>>)),
                d, ScalarFormat(f))

(* faddv, fmaxv, fminv, fmaxnmv, fminnmv reduce an array of the source.    *)
FPPairedAcross(R, op, f, d, a) == Reduce(R, f, d, a, op, f.size)

(* fmul, fmla, fmls, fmulx by element clear the destination BEFORE the     *)
(* element is read out of the whole Q register.                            *)
FPByElement(R, op, f, d, s, k) ==
  LET T == dup_element(Fresh(ClearForWrite(R, d, f), {"t1"}), FillQ(f), "t1", s[2], k)
  IN IF op \in {"fmla", "fmls"} THEN FPMulAcc(T, op, f, d, d, <<s[1], "t1">>)
     ELSE Lanewise(T, f, d, <<s[1], "t1">>, op)

-----------------------------------------------------------------------------
(* Conversions.                                                            *)

(* frint, fcvts, fcvtu, scvtf and ucvtf.                                   *)
FPRoundLanes(R, op, f, d, a) == Lanewise(R, f, d, <<a>>, op)

FPToIntLanes(R, op, f, d, a) == Lanewise(R, f, d, <<a>>, op)

IntToFP(R, op, f, d, a) == Lanewise(R, f, d, <<a>>, op)

(* Estimates of a reciprocal or of a reciprocal square root.               *)
frsqrte(R, f, d, a) == Lanewise(R, f, d, <<a>>, "frsqrte")

frecpe(R, f, d, a) == Lanewise(R, f, d, <<a>>, "frecpe")

frecpx(R, f, d, a) == Lanewise(R, f, d, <<a>>, "frecpx")

ursqrte(R, f, d, a) == Lanewise(R, f, d, <<a>>, "ursqrte")

urecpe(R, f, d, a) == Lanewise(R, f, d, <<a>>, "urecpe")

FPEstimate(R, op, f, d, a) ==
  CASE op = "frsqrte" -> frsqrte(R, f, d, a)
    [] op = "frecpe" -> frecpe(R, f, d, a)
    [] op = "frecpx" -> frecpx(R, f, d, a)
    [] op = "ursqrte" -> ursqrte(R, f, d, a)
    [] op = "urecpe" -> urecpe(R, f, d, a)

(* fcvtl goes down in place, fcvtl2 reads the high half going up.          *)
FPLong(R, f, d, a, is_2) ==
  LET Step(S, i) == SetLane(S, d, f.size, i, Compute("fcvtl", f.size,
                      <<Arg(S, a, f.size \div 2, IF is_2 THEN i + f.lanes ELSE i)>>))
      T == ClearForWrite(R, d, f)
  IN IF is_2 THEN For(T, f.lanes, Step) ELSE ForDown(T, f.lanes, Step)

(* fcvtn, fcvtxn and bfcvtn read a copy of the source (its low 128 bits in *)
(* the Neon forms) and fill the low lanes; the 2 forms write the upper     *)
(* half of the destination going down, and keep the lower.                 *)
FPNarrow(R, op, f, d, a, is_2) ==
  LET half == f.lanes \div 2
      copy == mov(Fresh(R, {"t1"}), IF f.sve THEN f ELSE Neon(8, 2), "t1", a)
      Up(S, i) == SetLane(S, d, f.size, i, Compute(op, f.size, <<Arg(S, "t1", 2 * f.size, i)>>))
      Down(S, i) == SetLane(S, d, f.size, i + half, Compute(op, f.size, <<Arg(S, a, 2 * f.size, i)>>))
  IN IF is_2 THEN ForDown(ClearForWrite(R, d, f), half, Down)
     ELSE For(ClearForWrite(copy, d, f), IF f.sve THEN half ELSE f.lanes, Up)

-----------------------------------------------------------------------------
(* Matrices and cryptography: the operands are read into arrays and the    *)
(* result is written from an array.                                        *)

(* Each 128-bit segment of the result from the same segment of all three   *)
(* operands.                                                               *)
Matmul(R, op, f, d, s) ==
  LET segment == QBytes \div f.size
      All(r, i) == [j \in 1..segment |-> Arg(R, r, f.size, (i \div segment) * segment + j - 1)] \o <<>>
  IN Buffered(R, f, d, LAMBDA i : Compute(op, f.size,
       <<Arg(R, d, f.size, i)>> \o All(s[1], i) \o All(s[2], i)))

(* Through arrays; a lane of the result is taken to depend on every lane   *)
(* of every operand.                                                       *)
Digest(R, op, f, d, srcs) ==
  LET All(r) == [j \in 1..f.lanes |-> Arg(R, r, f.size, j - 1)] \o <<>>
  IN Buffered(R, f, d, LAMBDA i : Compute(op, f.size, FlattenSeq([k \in DOMAIN srcs |-> All(srcs[k])])))

(* sha1c, sha1m, sha1p.                                                    *)
sha1(R, op, d, s) == Digest(R, op, Neon(4, 4), d, <<d>> \o s)

sha256(R, op, d, s) == Digest(R, op, Neon(4, 4), d, <<d>> \o s)

sha512(R, op, d, s) == Digest(R, op, Neon(8, 2), d, <<d>> \o s)

aesmix(R, op, d, a) ==
  Buffered(R, Neon(1, 16), d, LAMBDA c : Compute(op, 1,
    [j \in 1..4 |-> Arg(R, a, 1, c - (c % 4) + j - 1)] \o <<>>))

(* Row i of the shifted state comes from byte 5i (encrypt) or 13i          *)
(* (decrypt); bytes are written while others are read, then substituted in *)
(* place.                                                                  *)
aes(R, op, d, a) ==
  LET from(i) == IF op = "aesd" THEN (13 * i) % 16 ELSE (5 * i) % 16
      T == For(ClearForWrite(R, d, Neon(1, 16)), 16, LAMBDA S, i : SetLane(S, d, 1, i, Lane(S, a, 1, from(i))))
  IN For(T, 16, LAMBDA S, i : SetLane(S, d, 1, i, Compute(op, 1, <<Arg(S, d, 1, i)>>)))

(* sm3partw1 shifts, rotates and mixes in a temporary; lane 3 of the       *)
(* result array also mixes lane 0.                                         *)
sm3partw1(R, d, s) ==
  LET q == Neon(4, 4)
      T == Lanewise(ext(Fresh(R, {"t1"}), Neon(1, 16), "t1", <<s[2], "t1">>, 4), q, "t1", <<"t1">>, "rol")
      U == Lanewise(Lanewise(T, q, "t1", <<"t1", s[1]>>, "eor"), q, "t1", <<"t1", d>>, "eor")
  IN Buffered(U, q, d, LAMBDA i : Compute("sm3", 4,
       <<Arg(U, "t1", 4, i)>> \o (IF i = 3 THEN <<Arg(U, "t1", 4, 0)>> ELSE <<>>)))

sm3partw2(R, d, s) ==
  LET q == Neon(4, 4)
      T == Lanewise(Lanewise(Fresh(R, {"t1"}), q, "t1", <<s[2]>>, "rol"), q, "t1", <<"t1", s[1]>>, "eor")
      U == Lanewise(T, q, d, <<"t1", d>>, "eor")
  IN SetLane(U, d, 4, 3, Compute("sm3", 4, <<Arg(U, d, 4, 3), Arg(U, "t1", 4, 0)>>))

sm3ss1(R, d, s) ==
  LET result == Compute("sm3ss1", 4, [k \in 1..3 |-> Arg(R, s[k], 4, 3)] \o <<>>)
  IN SetLane([R EXCEPT ![d] = Zeros(VL)], d, 4, 3, result)

(* sm3tt1a/b and sm3tt2a/b compute the new lane 3, rotate the register by  *)
(* one lane, then store lanes 1 and 3.                                     *)
sm3tt(R, op, d, s, k) ==
  LET sd == [j \in 1..4 |-> Arg(R, d, 4, j - 1)] \o <<>>
      tt == Compute(op, 4, sd \o <<Arg(R, s[1], 4, 3), Arg(R, s[2], 4, k)>>)
      T == ext(R, Neon(1, 16), d, <<d, d>>, 4)
      U == SetLane(T, d, 4, 1, Compute("rol", 4, <<Arg(T, d, 4, 1)>>))
  IN SetLane(U, d, 4, 3, tt)

(* sm4e works on the destination with round keys in the source; sm4ekey    *)
(* on its first source.                                                    *)
sm4(R, op, d, s) == Digest(R, op, Neon(4, 4), d, IF op = "sm4e" THEN <<d, s[1]>> ELSE s)
=============================================================================
