---------------------------- MODULE VectorLogic ----------------------------
(***************************************************************************)
(* The vector functions of logic-aarch64.cc as data flow: which lanes a    *)
(* function reads, when, and when it writes the destination.  Every        *)
(* operator takes the register file R, the name op of the function, a      *)
(* format f, the destination d and the sources s (registers), and gives    *)
(* the register file after the call.  Temporaries are registers that start *)
(* cleared ("t1".."t6" and, in helpers called with temporaries, "u1").     *)
(*                                                                         *)
(* A function applied lane by lane is Lanewise; one that first collects    *)
(* its results in an array is Buffered; a loop of another shape is written *)
(* out.  Saturating, rounding and halving the result (SignedSaturate,      *)
(* Round, ...) rewrites lane i from lane i and flags computed with it, so  *)
(* it stays part of the lane function; IntegerLogic and FpLogic look at    *)
(* values.                                                                 *)
(***************************************************************************)
EXTENDS VRegister

-----------------------------------------------------------------------------
(* Moving lanes.                                                           *)

mov(R, f, d, a) ==
  For(ClearForWrite(R, d, f), f.lanes,
      LAMBDA S, i : SetLane(S, d, f.size, i, Lane(S, a, f.size, i)))

(* The 128-bit and 256-bit elements of SVE go through an array d[], and    *)
(* Clear() empties the whole register.                                     *)
dup_element(R, f, d, a, k) ==
  LET value == Lane(R, a, f.size, k)
      start == IF f.size > 8 THEN [R EXCEPT ![d] = Zeros(VL)] ELSE ClearForWrite(R, d, f)
  IN For(start, f.lanes, LAMBDA S, i : SetLane(S, d, f.size, i, value))

(* Within each 128-bit segment, lane k of the segment; a Neon register is  *)
(* one segment.                                                            *)
dup_elements_to_segments(R, f, d, a, k) ==
  LET segment == (IF Bytes(f) < QBytes THEN Bytes(f) ELSE QBytes) \div f.size
      Segment(S, j) ==
        LET value == Lane(S, a, f.size, j * segment + k)
        IN For(S, segment, LAMBDA T, i : SetLane(T, d, f.size, j * segment + i, value))
  IN For(ClearForWrite(R, d, f), f.lanes \div segment, Segment)

(* A constant in every lane: dup_immediate, and movi and mvni.             *)
dup_immediate(R, op, f, d) == Lanewise(R, f, d, <<>>, op)

Immediate(R, op, f, d) == Lanewise(R, f, d, <<>>, op)

(* A series; nothing is cleared.                                           *)
index_(R, f, d) == InPlace(R, f, d, <<>>, "index")

(* orr and bic with an immediate work through an array.                    *)
LogicalImmediate(R, op, f, d, a) ==
  Buffered(R, f, d, LAMBDA i : Compute(op, f.size, <<Arg(R, a, f.size, i)>>))

(* insr shifts the register up by one lane, from the top.                  *)
insr(R, f, d) ==
  SetLane(ForDown(R, f.lanes - 1,
                  LAMBDA S, i : SetLane(S, d, f.size, i + 1, Lane(S, d, f.size, i))),
          d, f.size, 0, Compute("imm", f.size, <<>>))

(* ins_element, and ins_immediate when the source is a general register.   *)
ins_element(R, f, d, k, a, j) == SetLane(R, d, f.size, k, Lane(R, a, f.size, j))

ins_immediate(R, f, d, k) == SetLane(R, d, f.size, k, Compute("imm", f.size, <<>>))

(* uxtl, sxtl and the 2 forms: lane i of the wide destination from lane i  *)
(* of the low (or high) half of the source, ascending.                     *)
xtl(R, op, f, d, a, is_2) ==
  LET h == HalfWidth(f)
      offset == IF is_2 THEN f.lanes ELSE 0
  IN For(ClearForWrite(R, d, f), f.lanes,
         LAMBDA S, i : SetLane(S, d, f.size, i,
                               Compute(op, f.size, <<Arg(S, a, h.size, offset + i)>>)))

(* trn1, trn2, zip1, zip2, uzp1, uzp2: which source and lane result lane i *)
(* comes from.                                                             *)
PermutedFrom(op, f, i) ==
  LET pairs == f.lanes \div 2
      cat(j) == IF j < f.lanes THEN <<1, j>> ELSE <<2, j - f.lanes>>
  IN CASE op = "trn1" -> <<1 + (i % 2), 2 * (i \div 2)>>
       [] op = "trn2" -> <<1 + (i % 2), 2 * (i \div 2) + 1>>
       [] op = "zip1" -> <<1 + (i % 2), i \div 2>>
       [] op = "zip2" -> <<1 + (i % 2), pairs + i \div 2>>
       [] op = "uzp1" -> cat(2 * i)
       [] op = "uzp2" -> cat(2 * i + 1)

Permute(R, op, f, d, s) ==
  Buffered(R, f, d,
           LAMBDA i : LET from == PermutedFrom(op, f, i)
                      IN Lane(R, s[from[1]], f.size, from[2]))

(* SetUintArray clears nothing beyond an SVE register.                     *)
interleave_top_bottom(R, f, d, a) ==
  Buffered(R, f, d, LAMBDA i : Lane(R, a, f.size, (i % 2) * (f.lanes \div 2) + i \div 2))

(* rev64, rev32, rev16: lanes reversed within groups of `group` bytes.     *)
rev_byte(R, f, d, a, group) ==
  LET n == group \div f.size
  IN Buffered(R, f, d, LAMBDA i : Lane(R, a, f.size, (i \div n) * n + n - 1 - (i % n)))

(* rev (SVE) swaps lanes from both ends.                                   *)
rev(R, f, d, a) ==
  For(R, f.lanes \div 2,
      LAMBDA S, i : LET t == Lane(S, a, f.size, i)
                        U == SetLane(S, d, f.size, i, Lane(S, a, f.size, f.lanes - i - 1))
                    IN SetLane(U, d, f.size, f.lanes - i - 1, t))

ext(R, f, d, s, k) ==
  Buffered(R, f, d, LAMBDA i : IF i + k < f.lanes THEN Lane(R, s[1], 1, i + k)
                               ELSE Lane(R, s[2], 1, i + k - f.lanes))

(* Table: the tables are copied first (as 16B even for an 8B result); an   *)
(* index out of range gives zero (tbl) or the old lane (tbx), so a lane of *)
(* the result depends on its index, the whole table and, for tbx, itself.  *)
Table(R, op, f, d, tables, ind) ==
  LET n == IF f.sve THEN f.lanes ELSE QBytes \div f.size
      table == [j \in 1..(n * Len(tables)) |->
                  Arg(R, tables[1 + (j - 1) \div n], f.size, (j - 1) % n)] \o <<>>
      old(i) == IF op = "tbx" THEN <<Arg(R, d, f.size, i)>> ELSE <<>>
  IN Buffered(R, f, d,
       LAMBDA i : Compute(op, f.size, <<Arg(R, ind, f.size, i)>> \o old(i) \o table))

-----------------------------------------------------------------------------
(* Integer arithmetic, compare, multiply.                                  *)

IntegerOps == {"cmp", "cmptst", "add", "add_uint", "addp", "sdiv", "udiv", "mla", "mls", "mul"}

Integer(R, op, f, d, s) ==
  LET product == Lanewise(Fresh(R, {"t1"}), f, "t1", Tail(s), "mul")
      even == Permute(Fresh(R, {"t1", "t2"}), "uzp1", f, "t1", s)
      pairs == Permute(even, "uzp2", f, "t2", s)
      sum == Lanewise(pairs, f, d, <<"t1", "t2">>, "add")
  IN CASE op = "addp" -> IF f.sve THEN interleave_top_bottom(sum, f, d, d) ELSE sum
       [] op = "mla" -> Lanewise(product, f, d, <<s[1], "t1">>, "add")
       [] op = "mls" -> Lanewise(product, f, d, <<s[1], "t1">>, "sub")
       [] OTHER -> Lanewise(R, f, d, s, op)

(* No ClearForWrite here.                                                  *)
mulh(R, op, f, d, s) == InPlace(R, f, d, s, op)

(* Mutant: pmull going up.                                                 *)
PolynomialAscending(R, op, f, d, s, is_2) ==
  LET src(i) == IF is_2 THEN f.lanes + i ELSE i
  IN IF op = "pmul" THEN Lanewise(R, f, d, s, op)
     ELSE For(ClearForWrite(R, d, f), f.lanes,
              LAMBDA S, i : SetLane(S, d, f.size, i,
                Compute("pmull", f.size, <<Arg(S, s[1], f.size \div 2, src(i)), Arg(S, s[2], f.size \div 2, src(i))>>)))

(* pmull goes down, so that writing a wide lane cannot overwrite a narrow  *)
(* one that is still to be read; pmull2 reads the high half.               *)
Polynomial(R, op, f, d, s, is_2) ==
  LET src(i) == IF is_2 THEN f.lanes + i ELSE i
      Step(S, i) == SetLane(S, d, f.size, i,
                      Compute("pmull", f.size, <<Arg(S, s[1], f.size \div 2, src(i)),
                                                 Arg(S, s[2], f.size \div 2, src(i))>>))
  IN CASE op = "pmul" -> Lanewise(R, f, d, s, op)
       [] op = "pmull" /\ ~is_2 -> ForDown(ClearForWrite(R, d, f), f.lanes, Step)
       [] op = "pmull" /\ is_2 -> For(ClearForWrite(R, d, f), f.lanes, Step)

LogicalOps == {"sub", "sub_uint", "and", "orr", "orn", "eor", "bic", "bif", "bit", "bsl"}

(* bif and bit read the destination; bsl is handed its mask as a source.   *)
Logical(R, op, f, d, s) ==
  Lanewise(R, f, d, IF op \in {"bif", "bit"} THEN <<d>> \o s ELSE s, op)

MinMaxOps == {"smax", "smin", "umax", "umin", "smaxp", "sminp", "umaxp", "uminp"}

Paired(R, op, f, d, s) ==
  LET half == f.lanes \div 2
      T == Buffered(R, f, d,
             LAMBDA i : LET src == s[1 + i \div half]
                            j == 2 * (i % half)
                        IN Compute(op, f.size, <<Arg(R, src, f.size, j), Arg(R, src, f.size, j + 1)>>))
  IN IF f.sve THEN interleave_top_bottom(T, f, d, d) ELSE T

MinMax(R, op, f, d, s) ==
  IF op \in {"smaxp", "sminp", "umaxp", "uminp"} THEN Paired(R, op, f, d, s)
  ELSE Lanewise(R, f, d, s, op)

AcrossOps == {"addp_scalar", "addv", "saddlv", "uaddlv", "smaxv", "sminv", "umaxv", "uminv"}

(* The long sums are twice as wide as the lanes they add.                  *)
Across(R, op, f, d, s) ==
  CASE op = "addp_scalar" -> Reduce(R, Neon(8, 2), d, s[1], op, 8)
    [] op \in {"saddlv", "uaddlv"} -> Reduce(R, f, d, s[1], op, 2 * f.size)
    [] OTHER -> Reduce(R, f, d, s[1], op, f.size)

-----------------------------------------------------------------------------
(* Shifts.                                                                 *)

(* shl, sqshl, uqshl, sqshlu, sshr, ushr (with Round) fill a temporary     *)
(* with the amount and call sshl or ushl.                                  *)
ShiftOps == {"shl", "sqshl", "uqshl", "sqshlu", "sshr", "ushr", "sshl", "ushl", "srshl",
             "urshl", "sqrshl", "uqrshl", "srshr", "urshr"}

(* sshll, ushll, shll extend the low or the high half first.               *)
ShiftLong(R, op, f, d, a, is_2) ==
  LET T == xtl(Fresh(R, {"t2"}), IF op = "ushll" THEN "uxtl" ELSE "sxtl", f, "t2", a, is_2)
  IN Lanewise(T, f, d, <<"t2">>, IF op = "ushll" THEN "ushl" ELSE "sshl")

(* sli and sri keep the bits of the destination that are not shifted into. *)
ShiftInsert(R, op, f, d, a) == Lanewise(R, f, d, <<a, d>>, op)

(* ssra, usra, srsra, ursra.                                               *)
ShiftAccumulate(R, op, f, d, a) ==
  Lanewise(Lanewise(Fresh(R, {"u1"}), f, "u1", <<a>>, op), f, d, <<d, "u1">>, "add")

(* Counting into an array; cnot in place.                                  *)
Count(R, op, f, d, a) ==
  IF op = "cnot" THEN Lanewise(R, f, d, <<a>>, op)
  ELSE Buffered(R, f, d, LAMBDA i : Compute(op, f.size, <<Arg(R, a, f.size, i)>>))

(* sshr and ushr by a register first negate the distance.                  *)
ShiftRegister(R, op, f, d, s) ==
  LET T == Lanewise(Fresh(R, {"t1"}), f, "t1", <<s[2]>>, "neg")
  IN Lanewise(T, f, d, <<s[1], "t1">>, IF op = "sshr" THEN "sshl" ELSE "ushl")

(* sshr and ushr by a constant: a temporary holds the negated distance.    *)
ShiftRight(R, op, f, d, a) ==
  LET T == dup_immediate(Fresh(R, {"t3"}), "imm", f, "t3")
  IN Lanewise(T, f, d, <<a, "t3">>, IF op = "sshr" THEN "sshl" ELSE "ushl")

(* uxt and sxt extend the low part of each lane.                           *)
ExtendLanes(R, op, f, d, a) == Lanewise(R, f, d, <<a>>, op)

not_(R, f, d, a) == Lanewise(R, f, d, <<a>>, "not")

(* suqadd, usqadd, abs, neg.                                               *)
Unary(R, op, f, d, s) == Lanewise(R, f, d, s, op)

-----------------------------------------------------------------------------
(* Narrowing.                                                              *)

(* src_copy is a second LogicVRegister on the SAME register.  A result     *)
(* format that fills a Q register means the upper half is written.         *)
extractnarrow(R, op, f, d, a) ==
  LET upper == ~f.sve /\ Bytes(f) = QBytes
      n == IF f.sve THEN f.lanes \div 2 ELSE IF upper THEN f.lanes \div 2 ELSE f.lanes
      offset == IF upper THEN n ELSE 0
      src_copy == a
      T == For(R, n, LAMBDA S, i : SetLane(S, d, f.size, offset + i,
                       Compute(op, f.size, <<Arg(S, src_copy, 2 * f.size, i)>>)))
  IN ClearForWrite(T, d, f)

(* The 2 forms have half as many wide lanes as narrow ones.                *)
WideSource(f) == IF f.sve \/ Bytes(f) < QBytes THEN DoubleWidth(f) ELSE DoubleWidth(HalfLanes(f))

(* shrn, rshrn and the 2 forms shift into a temporary first.               *)
shrn(R, f, d, a) == extractnarrow(ShiftRight(Fresh(R, {"t2"}), "ushr", WideSource(f), "t2", a), "xtn", f, d, "t2")

(* The saturating forms, which may shift with the sign.                    *)
ShiftNarrow(R, op, f, d, a) ==
  LET shift == IF op \in {"uqshrn", "uqrshrn"} THEN "ushr" ELSE "sshr"
  IN extractnarrow(ShiftRight(Fresh(R, {"t2"}), shift, WideSource(f), "t2", a), op, f, d, "t2")

(* addhn, raddhn, subhn, rsubhn and the 2 forms.                           *)
HighNarrow(R, op, f, d, s) == shrn(Lanewise(Fresh(R, {"t1"}), WideSource(f), "t1", s, op), f, d, "t1")

-----------------------------------------------------------------------------
(* Differences, pairwise long sums.                                        *)

absdiff(R, f, d, s) == Lanewise(R, f, d, s, "absdiff")

(* Mutant: the difference is added to itself.                              *)
AbsDiffTwice(R, op, f, d, s) ==
  LET T == Lanewise(ClearForWrite(Fresh(R, {"u1"}), d, f), f, "u1", s, "absdiff")
  IN Lanewise(T, f, d, <<"u1", "u1">>, "add")

(* saba and uaba.                                                          *)
AbsDiffAccumulate(R, op, f, d, s) ==
  LET T == absdiff(ClearForWrite(Fresh(R, {"u1"}), d, f), f, "u1", s)
  IN Lanewise(T, f, d, <<d, "u1">>, "add")

(* rbit, byte by byte through an array.                                    *)
rbit(R, f, d, a) == Buffered(R, f, d, LAMBDA i : Compute("rbit", f.size, <<Arg(R, a, f.size, i)>>))

(* saddlp, uaddlp, sadalp, uadalp: the array is filled from the source     *)
(* before the destination, which the accumulating forms add, is read.      *)
addlp(R, op, f, d, a, accumulate) ==
  LET h == HalfWidthDoubleLanes(f)
      result == [i \in 1..f.lanes |-> <<Arg(R, a, h.size, 2 * i - 2), Arg(R, a, h.size, 2 * i - 1)>>] \o <<>>
  IN For(ClearForWrite(R, d, f), f.lanes,
         LAMBDA S, i : SetLane(S, d, f.size, i, Compute(op, f.size,
           result[i + 1] \o (IF accumulate THEN <<Arg(S, d, f.size, i)>> ELSE <<>>))))

ror(R, f, d, a) == Lanewise(R, f, d, <<a>>, "ror")

-----------------------------------------------------------------------------
(* Long and wide arithmetic: both narrow operands are extended into        *)
(* temporaries, then the wide operation runs on those.                     *)

Extended(R, f, s, op, is_2) ==
  xtl(xtl(Fresh(R, {"t2", "t3"}), op, f, "t2", s[1], is_2), op, f, "t3", s[2], is_2)

(* uaddl, usubl, saddl, ssubl.                                             *)
AddLong(R, op, f, d, s, is_2) ==
  Lanewise(Extended(R, f, s, "xtl", is_2), f, d, <<"t2", "t3">>, op)

(* uaddw, usubw, saddw, ssubw: only the second operand is narrow.          *)
AddWide(R, op, f, d, s, is_2) ==
  Lanewise(xtl(Fresh(R, {"t2"}), "xtl", f, "t2", s[2], is_2), f, d, <<s[1], "t2">>, op)

AbsDiffLong(R, op, f, d, s, is_2) ==
  IF op = "abal" THEN AbsDiffAccumulate(Extended(R, f, s, "xtl", is_2), op, f, d, <<"t2", "t3">>)
  ELSE absdiff(Extended(R, f, s, "xtl", is_2), f, d, <<"t2", "t3">>)

(* umull, smull, umlal, smlal, umlsl, smlsl.                               *)
MultiplyLong(R, op, f, d, s, is_2) ==
  LET T == Extended(R, f, s, "xtl", is_2)
  IN CASE op = "mull" -> Lanewise(T, f, d, <<"t2", "t3">>, "mul")
       [] op = "mlal" -> Integer(T, "mla", f, d, <<d, "t2", "t3">>)
       [] op = "mlsl" -> Integer(T, "mls", f, d, <<d, "t2", "t3">>)

sqdmull(R, f, d, s, is_2) ==
  LET T == MultiplyLong(Fresh(R, {"t4"}), "mull", f, "t4", s, is_2)
  IN Lanewise(T, f, d, <<"t4", "t4">>, "add")

(* sqdmlal and sqdmlsl.                                                    *)
sqdmlal(R, op, f, d, s, is_2) ==
  Lanewise(sqdmull(Fresh(R, {"t5"}), f, "t5", s, is_2), f, d, <<d, "t5">>, op)

(* sqdmulh and sqrdmulh: the doubled product is computed in temporaries;   *)
(* the loop over the lanes reads both sources again and stores the largest *)
(* value, and mov_merging overwrites the lanes that did not saturate.      *)
sqrdmulh(R, op, f, d, s) ==
  LET lo == Lanewise(Fresh(R, {"t2", "t3"}), f, "t2", s, "mul")
      hi == mulh(lo, "smulh", f, "t3", s)
      twice == Lanewise(hi, f, "t3", <<"t3">>, "shl")
      carried == ShiftAccumulate(twice, "ushr", f, "t3", "t2")
      low == Lanewise(carried, f, "t2", <<"t2">>, "shl")
      rounded == IF op = "sqrdmulh" THEN ShiftAccumulate(low, "ushr", f, "t3", "t2") ELSE carried
      Saturate(S, i) ==
        SetLane([S EXCEPT !["t6"] = @ \o Compute("sat", 1, <<Arg(S, s[1], f.size, i), Arg(S, s[2], f.size, i)>>)],
                d, f.size, i, Compute("max", f.size, <<>>))
      T == For(ClearForWrite([rounded EXCEPT !["t6"] = <<>>], d, f), f.lanes, Saturate)
  IN For(T, f.lanes, LAMBDA S, i : SetLane(S, d, f.size, i,
           Compute("sel", f.size, <<<<S["t6"][i + 1]>>, Arg(S, "t3", f.size, i), Arg(S, d, f.size, i)>>)))

(* sqrdmlah, sqrdmlsh: the accumulator is the destination lane.            *)
sqrdmlash(R, op, f, d, s) == Lanewise(R, f, d, <<d>> \o s, op)

(* sdot, udot, usdot, cdot: four narrow products into each wide lane.      *)
dot(R, op, f, d, acc, s) ==
  LET q == f.size \div 4
      Quarter(S, r, i) == [j \in 1..4 |-> Arg(S, r, q, 4 * i + j - 1)] \o <<>>
  IN For(ClearForWrite(R, d, f), f.lanes,
         LAMBDA S, i : SetLane(S, d, f.size, i,
           Compute(op, f.size, Quarter(S, s[1], i) \o Quarter(S, s[2], i) \o <<Arg(S, acc, f.size, i)>>)))

-----------------------------------------------------------------------------
(* The forms that multiply by one element.                                 *)

(* mul, mla, mls, sqdmulh, sqrdmulh, sqrdmlah, sqrdmlsh duplicate the      *)
(* element, found in the whole Q register, into a temporary.               *)
ByElement(R, op, f, d, s, k) ==
  LET T == dup_element(Fresh(R, {"t5"}), FillQ(f), "t5", s[2], k)
      U == <<s[1], "t5">>
  IN CASE op = "mul" -> Integer(T, "mul", f, d, U)
       [] op \in {"mla", "mls"} -> Integer(T, op, f, d, <<d>> \o U)
       [] op \in {"sqdmulh", "sqrdmulh"} -> sqrdmulh(T, op, f, d, U)
       [] op \in {"sqrdmlah", "sqrdmlsh"} -> sqrdmlash(T, op, f, d, U)

(* sqdmull, sqdmlal and sqdmlsl take a narrow element.                     *)
ByElementLong(R, op, f, d, s, k) ==
  LET narrow == HalfWidthDoubleLanes(FillQ(f))
      T == dup_element(Fresh(R, {"t6"}), narrow, "t6", s[2], k)
  IN IF op = "sqdmull" THEN sqdmull(T, f, d, <<s[1], "t6">>, FALSE)
     ELSE sqdmlal(T, op, f, d, <<s[1], "t6">>, FALSE)
=============================================================================
