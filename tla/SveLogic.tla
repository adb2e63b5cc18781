------------------------------ MODULE SveLogic ------------------------------
(***************************************************************************)
(* The vector-length-agnostic half of logic-aarch64.cc as data flow, in    *)
(* the style of VectorLogic.                                               *)
(*                                                                         *)
(* A predicate register is an array of VL bits, one per byte of a vector;  *)
(* a lane of size n is governed by the first of its n bits.  The flags     *)
(* ("nzcv"), the first-fault register ("ffr") and a general register that  *)
(* receives a result ("x") are entries of the register file too, so that   *)
(* what an instruction leaves in them is compared like a vector.           *)
(***************************************************************************)
EXTENDS FpVectorLogic, FiniteSetsExt

-----------------------------------------------------------------------------
(* Predicates.                                                             *)

PTrue == "ptrue"

(* IsActive, as an argument of a lane function; GetPTrue() adds nothing.   *)
Active(R, p, size, i) == IF p = PTrue THEN <<>> ELSE Value(<<R[p][size * i + 1]>>)

(* SetActive clears the other bits of the lane.                            *)
SetActive(R, p, size, i, op, args) ==
  SetLane(R, p, size, i, Compute(op, 1, args) \o Zeros(size - 1))

AllActive(R, p, f) == [i \in 1..f.lanes |-> Active(R, p, f.size, i - 1)] \o <<>>

(* The flags from the predicate under the mask.                            *)
PredTest(R, f, mask, p) ==
  [R EXCEPT !["nzcv"] = Compute("PredTest", 1, AllActive(R, mask, f) \o AllActive(R, p, f))]

(* The predicate functions that go chunk by chunk: bits are independent.   *)
PredicateLogical(R, op, d, s) == InPlace(R, Sve(1), d, s, op)

pfalse(R, d) == [R EXCEPT ![d] = Zeros(VL)]

PMovMerging(R, d, pg, a) == PredicateLogical(R, "sel", d, <<pg, a, d>>)

PMovZeroing(R, d, pg, a) == PredicateLogical(R, "and", d, <<pg, a>>)

(* The first active lane of pg is found before src is copied.              *)
pfirst(R, d, pg, a) ==
  LET T == mov(R, Sve(1), d, a)
  IN For(T, VL, LAMBDA S, i : SetActive(S, d, 1, i, "pfirst",
       <<Active(S, d, 1, i)>> \o AllActive(R, pg, Sve(1))))

ptrue(R, f, d) == For(R, f.lanes, LAMBDA S, i : SetActive(S, d, f.size, i, "ptrue", <<>>))

(* next is found before any lane is written.                               *)
pnext(R, f, d, pg, a) ==
  LET next == AllActive(R, a, f) \o AllActive(R, pg, f)
  IN For(R, f.lanes, LAMBDA S, i : SetActive(S, d, f.size, i, "pnext", next))

(* A loop over the bits of pg and a that carries what it has seen (the     *)
(* flags break_ and last_active) and writes lane i from it.                *)
Threaded(R, op, d, pg, a, start) ==
  LET run[i \in 0..VL] ==
        IF i = 0 THEN [R |-> R, seen |-> start]
        ELSE LET before == run[i - 1]
                 S == before.R
                 seen == before.seen \o <<Active(S, pg, 1, i - 1), Active(S, a, 1, i - 1)>>
             IN [R |-> SetActive(S, d, 1, i - 1, op, seen), seen |-> seen]
  IN run[VL].R

(* brka and brkb stop at the first active true lane.                       *)
Break(R, op, d, pg, a) == Threaded(R, op, d, pg, a, <<>>)

(* brkpa and brkpb start from the last active lane of pn, found first.     *)
BreakPropagate(R, op, d, pg, s) ==
  Threaded(R, op, d, pg, s[2], AllActive(R, pg, Sve(1)) \o AllActive(R, s[1], Sve(1)))

(* brkn keeps or clears the whole register.                                *)
brkn(R, d, pg, a) ==
  LET last == AllActive(R, pg, Sve(1)) \o AllActive(R, a, Sve(1))
  IN For(R, VL, LAMBDA S, i : SetActive(S, d, 1, i, "brkn", <<Active(S, d, 1, i)>> \o last))

-----------------------------------------------------------------------------
(* Selecting.                                                              *)

sel(R, f, d, pg, s) ==
  For(R, f.lanes, LAMBDA S, i : SetLane(S, d, f.size, i,
    Compute("sel", f.size, <<Active(S, pg, f.size, i), Arg(S, s[1], f.size, i), Arg(S, s[2], f.size, i)>>)))

mov_merging(R, f, d, pg, a) == sel(R, f, d, pg, <<a, d>>)

mov_zeroing(R, f, d, pg, a) ==
  For(R, f.lanes, LAMBDA S, i : SetLane(S, d, f.size, i,
    Compute("selz", f.size, <<Active(S, pg, f.size, i), Arg(S, a, f.size, i)>>)))

mov_alternating(R, f, d, a, start_at) ==
  For(R, f.lanes \div 2,
      LAMBDA S, i : SetLane(S, d, f.size, 2 * i + start_at, Lane(S, a, f.size, 2 * i + start_at)))

(* What clast reads: the predicate and every lane.  The visitor writes     *)
(* after it.                                                               *)
clast(R, f, pg, a) == AllActive(R, pg, f) \o [i \in 1..f.lanes |-> Arg(R, a, f.size, i - 1)]

(* compact writes lane j while it reads lane i >= j; active is the set of  *)
(* active lanes.                                                           *)
compact(R, f, d, a, active) ==
  LET index(i) == Cardinality({j \in active : j < i})
      T == For(R, f.lanes, LAMBDA S, i :
             IF i \in active THEN SetLane(S, d, f.size, index(i), Lane(S, a, f.size, i)) ELSE S)
  IN For(T, f.lanes, LAMBDA S, i :
       IF i >= Cardinality(active) THEN SetLane(S, d, f.size, i, Zeros(f.size)) ELSE S)

splice(R, f, d, s, active) ==
  LET first == Min(active)
      length == IF active = {} THEN 0 ELSE Max(active) - first + 1
  IN Buffered(R, f, d, LAMBDA i : IF i < length THEN Lane(R, s[1], f.size, first + i)
                                  ELSE Lane(R, s[2], f.size, i - length))

-----------------------------------------------------------------------------
(* Comparing into predicates.                                              *)

(* A wide element is the D lane over the narrow one.                       *)
WideLane(f, i) == (i * f.size) \div 8

(* The mask of a lane is read before that lane is written; PredTest looks  *)
(* at the mask again when all are.                                         *)
SVEIntCompareVectorsHelper(R, f, pd, mask, s, wide, set_flags) ==
  LET second(S, i) == IF wide THEN Arg(S, s[2], 8, WideLane(f, i)) ELSE Arg(S, s[2], f.size, i)
      T == For(R, f.lanes, LAMBDA S, i : SetActive(S, pd, f.size, i, "cmp",
             <<Active(S, mask, f.size, i), Arg(S, s[1], f.size, i), second(S, i)>>))
  IN IF set_flags THEN PredTest(T, f, mask, pd) ELSE T

(* The vector is passed by value.                                          *)
ExtractFromSimVRegister(R, f, pd, v) ==
  For(R, f.lanes, LAMBDA S, i : SetActive(S, pd, f.size, i, "nonzero", <<Arg(R, v, f.size, i)>>))

(* One byte 0 or 1 per predicate bit.                                      *)
ExpandToSimVRegister(R, t, p) == mov(R, Sve(1), t, p)

(* match starts from pfalse; the mask is applied by the visitor.           *)
match(R, f, pd, s) ==
  LET segment == QBytes \div f.size
      needles(i) == [j \in 1..segment |-> Arg(R, s[2], f.size, (i \div segment) * segment + j - 1)]
  IN For(pfalse(R, pd), f.lanes,
         LAMBDA S, i : SetActive(S, pd, f.size, i, "match", <<Arg(S, s[1], f.size, i)>> \o needles(i)))

-----------------------------------------------------------------------------
(* Arithmetic that only SVE has.                                           *)

(* Shift by the wide element over the lane, in place.                      *)
SVEBitwiseShiftHelper(R, op, f, d, s, wide) ==
  For(R, f.lanes, LAMBDA S, i : SetLane(S, d, f.size, i,
    Compute(op, f.size, <<Arg(S, s[1], f.size, i),
      IF wide THEN Arg(S, s[2], 8, WideLane(f, i)) ELSE Arg(S, s[2], f.size, i)>>)))

asrd(R, f, d, a) == InPlace(R, f, d, <<a>>, "asrd")

SVEBitwiseLogicalUnpredicatedHelper(R, op, f, d, s) == InPlace(R, f, d, s, op)

SVEBitwiseImmHelper(R, op, f, d) == InPlace(R, f, d, <<d>>, op)

(* The accumulator's lane 0 and the active lanes of the source, in order.  *)
fadda(R, f, d, pg, a) ==
  LET v == Compute("fadda", f.size, <<Arg(R, d, f.size, 0)>> \o clast(R, f, pg, a))
  IN SetLane(ClearForWrite(R, d, ScalarFormat(f)), d, f.size, 0, v)

(* andv, orv, eorv, saddv, ... read the source under the predicate.        *)
PredicatedReduce(R, op, f, d, pg, a, size) ==
  LET v == Compute(op, size, clast(R, f, pg, a))
  IN SetLane(ClearForWrite(R, d, Neon(size, 1)), d, size, 0, v)

(* fcvts, fcvtu, scvtf, ucvtf, fcvt between lanes of different widths: a   *)
(* lane holds the wider one; inactive lanes are skipped.                   *)
PredicatedConvert(R, op, f, d, pg, a) ==
  For(R, f.lanes, LAMBDA S, i : SetLane(S, d, f.size, i,
    Compute(op, f.size, <<Active(S, pg, f.size, i), Arg(S, a, f.size, i), Arg(S, d, f.size, i)>>)))

unpk(R, op, f, d, a, high) ==
  LET start == IF high THEN f.lanes ELSE 0
  IN Buffered(R, f, d, LAMBDA i : Compute(op, f.size, <<Arg(R, a, f.size \div 2, i + start)>>))

(* ftsmul: the sign of one factor is prepared in a temporary.              *)
ftsmul(R, f, d, s) ==
  LET T == Lanewise(Fresh(R, {"t1"}), f, "t1", <<s[2]>>, "shl")
      U == Lanewise(T, f, "t1", <<"t1", s[1]>>, "eor")
  IN Lanewise(U, f, d, <<s[1], "t1">>, "fmul")

ftssel(R, f, d, s) == InPlace(R, f, d, s, "ftssel")

fexpa(R, f, d, a) == InPlace(R, f, d, <<a>>, "fexpa")

flogb(R, f, d, a) == InPlace(R, f, d, <<a>>, "flogb")

(* ftmad: the coefficient is chosen and accumulated in cf, then moved.     *)
ftmad(R, f, d, s) ==
  LET neg == SVEIntCompareVectorsHelper(Fresh(R, {"t1", "t2", "t3", "t4", "t6"}), f, "t4", PTrue, <<s[2], "t6">>, FALSE, FALSE)
      cf == sel(neg, f, "t1", "t4", <<"t2", "t1">>)
      T == Lanewise(cf, f, "t3", <<s[2]>>, "fabs")
  IN mov(FPMulAcc(T, "fmla", f, "t1", "t1", <<s[1], "t3">>), f, d, "t1")

bgrp(R, op, f, d, s) == InPlace(R, f, d, s, op)

bdep(R, f, d, s) == InPlace(R, f, d, s, "bdep")

(* histogram counts, for lane i, equal lanes of the second operand up to i *)
(* (or in the same segment) into an array.                                 *)
histogram(R, f, d, pg, s, segmented) ==
  LET n == QBytes \div f.size
      from(i) == IF segmented THEN (i \div n) * n ELSE 0
      count(i) == IF segmented THEN n ELSE i + 1
  IN Buffered(R, f, d, LAMBDA i : Compute("histogram", f.size, <<Arg(R, s[1], f.size, i)>>
       \o [j \in 1..count(i) |-> Active(R, pg, f.size, j - 1)]
       \o [j \in 1..count(i) |-> Arg(R, s[2], f.size, from(i) + j - 1)]))

PackElements(R, op, f, d, a) == Permute(Fresh(R, {"t6"}), op, f, d, <<a, "t6">>)

(* adcl adds to the even lanes of the destination and leaves the carry in  *)
(* the odd ones.                                                           *)
adcl(R, f, d, s, top) ==
  For(R, f.lanes \div 2, LAMBDA S, i :
    LET args == <<Arg(S, s[1], f.size, 2 * i + (IF top THEN 1 ELSE 0)), Arg(S, d, f.size, 2 * i),
                  Arg(S, s[2], f.size, 2 * i + 1)>>
    IN SetLane(SetLane(S, d, f.size, 2 * i, Compute("adcl", f.size, args)),
               d, f.size, 2 * i + 1, Compute("carry", f.size, args)))

(* rotate_elements_right is ext of a register with itself.                 *)
rotate_elements_right(R, f, d, a, k) ==
  ext(R, Sve(1), d, <<a, a>>, f.size * (IF k < 0 THEN k + f.lanes ELSE k))

(* As cmla, with the saturating multiply-accumulate on the halves.         *)
sqrdcmlah(R, f, d, acc, s, rot) ==
  LET even == IF rot % 2 = 0 THEN "uzp1" ELSE "uzp2"
      odd == IF rot % 2 = 0 THEN "uzp2" ELSE "uzp1"
      a1 == Permute(Fresh(R, {"t1", "t2", "t3", "t4", "t6", "u2"}), even, f, "t1", <<s[1], "t6">>)
      a2 == Permute(a1, even, f, "t2", <<s[2], "t6">>)
      b2 == Permute(a2, odd, f, "t3", <<s[2], "t6">>)
      ar == Permute(b2, "uzp1", f, "t4", <<acc, "t6">>)
      ai == Permute(ar, "uzp2", f, "u2", <<acc, "t6">>)
      re == sqrdmlash(ai, "sqrdmlah", f, "t4", <<"t1", "t2">>)
      im == sqrdmlash(re, "sqrdmlah", f, "u2", <<"t1", "t3">>)
  IN Permute(im, "zip1", f, d, <<"t4", "u2">>)

sqrdcmlahIndexed(R, f, d, acc, s, k, rot) ==
  LET T == dup_elements_to_segments(Fresh(R, {"t5"}), DoubleWidth(f), "t5", s[2], k)
  IN sqrdcmlah(T, f, d, acc, <<s[1], "t5">>, rot)

(* fmmla works on segments of four lanes.                                  *)
fmatmul(R, f, d, s) ==
  LET segment == 4
      All(r, i) == [j \in 1..segment |-> Arg(R, r, f.size, (i \div segment) * segment + j - 1)]
  IN Buffered(R, f, d, LAMBDA i : Compute("fmatmul", f.size,
       <<Arg(R, d, f.size, i)>> \o All(s[1], i) \o All(s[2], i)))
=============================================================================
