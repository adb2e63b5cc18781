------------------------------ MODULE DataPath ------------------------------
(***************************************************************************)
(* One Neon, crypto, SVE or SVE2 instruction at a time on a file of vector *)
(* and predicate registers, with every way in which its destination and    *)
(* sources can name the same register.                                     *)
(*                                                                         *)
(* The architecture reads every operand before it writes the destination.  *)
(* The functions of logic-aarch64.cc work in place, on references, so the  *)
(* question is whether an instruction whose destination is one of its      *)
(* sources computes what it would compute from copies of its operands.     *)
(***************************************************************************)
EXTENDS SveForms

CONSTANT Groups   \* the instruction groups to execute

VARIABLES inst,   \* the instruction just executed, <<>> before the first
          runs    \* the registers after it, executed in place and on copies

vars == <<inst, runs>>

regs == runs["in place"]

-----------------------------------------------------------------------------
VRegisters == {"a", "b", "c", "d", "e"}
PRegisters == {"pa", "pb", "pc", "pd"}
OtherRegisters == {"nzcv", "ffr", "x"}
Architectural == VRegisters \cup PRegisters \cup OtherRegisters

(* Registers that hold copies of the operands in the reference execution.  *)
Copies == <<"x1", "x2", "x3", "x4", "x5">>
PCopies == <<"y1", "y2", "y3">>

(* The SimVRegisters that visitors and functions declare on the stack.     *)
Temporaries == {"t1", "t2", "t3", "t4", "t5", "t6", "u1", "u2", "u3", "w1", "w2", "w3"}

File == [r \in Architectural |-> Initial(r)]

WithTemporaries(R) == [r \in Temporaries |-> Zeros(VL)] @@ R

(* The registers of a table follow one another and wrap after the last.    *)
Following == [a |-> "b", b |-> "c", c |-> "d", d |-> "e", e |-> "a"]

Consecutive(r, n) ==
  LET t[j \in 1..n] == IF j = 1 THEN r ELSE Following[t[j - 1]] IN t \o <<>>

(* The two-register operands of SVE: the first named, the second after it. *)
TakesPair(g) ==
  \/ g.isa = "sve" /\ g.visitor = "VectorSplice" /\ g.q
  \/ g.isa = "sve2" /\ g.visitor = "ZdB_Zn1B_Zn2B_imm"

TakesTable(g) ==
  \/ g.isa = "neon" /\ g.visitor = "Table"
  \/ g.isa = "sve" /\ g.visitor = "TableLookup"

(* Sources up to renaming of the registers that are not the destination.   *)
UpToRenaming(n, d, names) ==
  {s \in [1..n -> {d, names[1], names[2], names[3]}] :
     \A j \in 1..n : \A m \in 2..3 : s[j] = names[m] => \E h \in 1..(j - 1) : s[h] = names[m - 1]}

Operands(g) ==
  CASE TakesTable(g) -> {Consecutive(r, g.n - 1) \o <<m>> : r \in VRegisters, m \in VRegisters}
    [] TakesPair(g) -> {Consecutive(r, 2) : r \in VRegisters}
    [] OTHER -> UpToRenaming(g.n, "d", <<"a", "b", "c">>)

Predicates(g) == {s \in UpToRenaming(g.np, "pd", <<"pa", "pb", "pc">>) : g.d = "pd" \/ "pd" \notin Range(s)}

Instruction(g, s, p) ==
  [isa |-> g.isa, visitor |-> g.visitor, op |-> g.op, f |-> g.f, d |-> g.d, s |-> s, p |-> p, k |-> g.k, q |-> g.q]

Visit(R, i) ==
  CASE i.isa = "neon" -> VisitNeon(R, i)
    [] i.isa = "sve" -> VisitSve(R, i)
    [] i.isa = "sve2" -> VisitSve2(R, i)

-----------------------------------------------------------------------------
(* The same instruction on registers of its own that hold the operands.    *)
CopiesOf(names, s) ==
  [c \in {names[j] : j \in DOMAIN s} |-> File[s[CHOOSE j \in DOMAIN s : names[j] = c]]]

FileOf(run, i) == IF run = "in place" THEN File ELSE CopiesOf(Copies, i.s) @@ CopiesOf(PCopies, i.p) @@ File

InstructionOf(run, i) ==
  IF run = "in place" THEN i
  ELSE [i EXCEPT !.s = SubSeq(Copies, 1, Len(i.s)), !.p = SubSeq(PCopies, 1, Len(i.p))]

Init == inst = <<>> /\ runs = <<>>

Execute(i) ==
  /\ inst' = i
  /\ runs' = [run \in {"in place", "on copies"} |->
                Restrict(Visit(WithTemporaries(FileOf(run, i)), InstructionOf(run, i)), Architectural)]

(* The next instruction is looked at on its own.                           *)
Retire ==
  /\ inst # <<>>
  /\ inst' = <<>> /\ runs' = <<>>

Next ==
  \/ \E group \in {h \in Groups : inst = <<>>} : \E kind \in InstructionGroup(group) : \E g \in kind :
       \E s \in Operands(g), p \in Predicates(g) : Execute(Instruction(g, s, p))
  \/ Retire

Spec == Init /\ [][Next]_vars

-----------------------------------------------------------------------------
SameAsReference ==
  /\ \A r \in {inst.d, "nzcv"} : regs[r] = runs["on copies"][r]
  /\ \A r \in Architectural \ {inst.d, "nzcv"} : regs[r] = File[r]

(* Instructions that read an operand again after they have overwritten it. *)
ReadAfterWrite(i) ==
  CASE i.isa = "neon" ->
         \/ /\ i.visitor = "2RegMisc" /\ i.op \in NarrowOps
            /\ Bytes(i.f) = QBytes /\ i.s[1] = i.d
         \/ /\ i.op \in {"fmul", "fmla", "fmls", "fmulx"}
            /\ i.visitor \in {"FPMulByElement", "ScalarByIndexedElement"}
            /\ (i.k + 1) * i.f.size > Bytes(i.f) /\ i.s[2] = i.d
         \/ i.visitor = "3SameFP" /\ i.op \in {"fmlal", "fmlsl"} /\ i.d \in Range(i.s)
         \/ /\ i.visitor = "FPMulByElementLong"
            /\ \/ i.op \in {"fmlal", "fmlsl"} /\ i.s[1] = i.d
               \/ i.f = F2S /\ i.k >= 4 /\ i.s[2] = i.d
         \/ /\ i.visitor = "ComplexMulByElement"
            /\ i.k \div 4 < i.f.lanes \div 2 - 1 /\ i.s[2] = i.d
    [] i.isa = "sve" ->
         \/ i.visitor = "BitwiseShiftUnpredicated" /\ i.q /\ i.s[2] = i.d
         \/ /\ i.d = "pd" /\ Len(i.p) > 0 /\ i.p[1] = i.d
            /\ \/ i.visitor \in {"FPCompareVectors", "FPCompareWithZero", "IntCompareSignedImm",
                                 "IntCompareUnsignedImm", "IntCompareVectors"}
               \/ i.q /\ i.visitor \in {"PartitionBreakCondition", "PredicateLogical",
                                        "PredicateReadFromFFR_Predicated", "PropagateBreak"}
    [] i.isa = "sve2" -> i.visitor = "PdT_PgZ_ZnT_ZmT" /\ i.p[1] = i.d

(* pfirst and pnext of a predicate governed by itself: the mask is read    *)
(* again too, but the first active lane of pdn is already in it, and no    *)
(* active lane of it follows its last one, so that the flags agree.        *)
SelfGoverned(i) ==
  i.visitor \in {"PredicateFirstActive", "PredicateNextActive"} /\ i.p[1] = i.d

(* Apart from those, every instruction may be given its destination as a   *)
(* source: no loop of logic-aarch64.cc and no visitor's sequence of calls  *)
(* reads a lane, a mask or an element that it has written before.          *)
AliasSafe == inst # <<>> /\ ~ReadAfterWrite(inst) /\ ~SelfGoverned(inst) => SameAsReference

-----------------------------------------------------------------------------
(* Bytes of the destination that a Neon instruction defines.               *)
DestBytes(i) ==
  CASE i.op \in {"saddlv", "uaddlv"} -> 2 * i.f.size
    [] i.visitor \in {"AcrossLanes", "ScalarPairwise"} /\ i.op \notin {"saddlv", "uaddlv"} -> i.f.size
    [] i.op = "sha1h" -> 4
    [] i.op \in {"ins_element", "ins_general"} -> QBytes
    [] OTHER -> Bytes(i.f)

(* A Neon instruction leaves nothing of the old value, of a source or of a *)
(* temporary beyond the register view it writes: a Z register read later   *)
(* sees zeros there.  (ClearForWrite in every function; a helper that      *)
(* writes lanes without it relies on its caller.)                          *)
TailCleared ==
  inst # <<>> /\ inst.isa = "neon" =>
    \A k \in (DestBytes(inst) + 1)..VL : regs[inst.d][k] = ZeroByte

-----------------------------------------------------------------------------
(* The instructions that add to, or subtract from, their destination.      *)
AccumulateOps ==
  {"mla", "mls", "fmla", "fmls", "fnmla", "fnmls", "fcmla", "cmla", "sqrdcmlah", "cdot",
   "saba", "uaba", "sabal", "uabal", "abal", "sadalp", "uadalp", "sdot", "udot", "usdot", "sudot",
   "smlal", "umlal", "smlsl", "umlsl", "mlal", "mlsl", "sqdmlal", "sqdmlsl", "sqrdmlah", "sqrdmlsh",
   "fmlal", "fmlsl", "fmlal2", "fmlsl2", "smmla", "ummla", "usmmla", "fmmla", "adcl", "sbcl"}
  \cup AccumulateShiftOps

(* The value of register r is one of those a byte was computed from.       *)
RECURSIVE ComputedFrom(_, _)
ComputedFrom(b, r) ==
  \/ b.op = r
  \/ \E j \in DOMAIN b.of : \E m \in DOMAIN b.of[j] : ComputedFrom(b.of[j][m], r)

(* The inactive lanes of a predicated form keep the old value in any case, *)
(* so look at what the function computed, the second argument of sel.      *)
Computed(b) == IF b.op = "sel" THEN b.of[2] ELSE <<b>>

(* Every byte an accumulating instruction computes depends on the old      *)
(* value of the accumulator, whatever temporaries the sum goes through     *)
(* before the visitor stores it.                                           *)
AccumulatorRead ==
  inst # <<>> /\ inst.op \in AccumulateOps /\ inst.d \notin Range(inst.s) =>
    \A k \in 1..(IF inst.isa = "neon" THEN DestBytes(inst) ELSE VL) :
      LET b == Computed(regs[inst.d][k]) IN \E m \in DOMAIN b : ComputedFrom(b[m], inst.d)

(* The same of every accumulating instruction but the SVE2 forms of sadalp *)
(* and uadalp, which accumulate into a cleared temporary.                  *)
AccumulatorKept ==
  \/ inst # <<>> /\ inst.isa = "sve2" /\ inst.op \in {"sadalp", "uadalp"}
  \/ AccumulatorRead
=============================================================================
