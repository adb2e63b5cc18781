----------------------------- MODULE MemoryPath -----------------------------
(***************************************************************************)
(* One load, store, copy or tag instruction at a time on registers and     *)
(* memory.                                                                 *)
(***************************************************************************)
EXTENDS MemoryForms

CONSTANT AccessGroups   \* the sets of instructions to execute

VARIABLES access,    \* the instruction just executed, <<>> before the first
          machines   \* the machine after it, and after what it is compared with

memoryVars == <<access, machines>>

(* Sets of instructions by group; after the first instruction of a         *)
(* behaviour only that one, for what follows it.                           *)
AccessGroup(g) ==
  CASE g = "neon" -> {NeonMulti} \cup NeonSingle
    [] g = "sve" -> SveContiguous \cup Broadcast \cup {WholeRegisters}
    [] g = "fault" -> FaultTolerant
    [] g = "gather" -> ScatterGather
    [] g = "scalar" -> {ScalarSingle, ScalarPac, ScalarPair}
    [] g = "block" -> {CopySets, CacheOps} \cup Tagging
    [] g = "executed" -> {{access}}

Itself == <<"itself", 0>>
machine == machines[Itself]

-----------------------------------------------------------------------------
(* An instruction is compared with others of the same start, and a store   *)
(* also with loads of what it has stored.  An execution is named by what   *)
(* it is for and a lane.                                                   *)

Comparison(what, S, i) == <<what, 0>> :> [from |-> S, inst |-> i]

(* All but the gathers from a vector of 32-bit addresses.                  *)
Implemented(i) == ~(i.visitor = "VectorPlusImm" /\ i.f.size = 4 /\ i.op = "ld")

(* The access of each active lane alone; of first-fault and non-fault      *)
(* loads with nothing to pretend a fault.                                  *)
OfLane(i, k) ==
  IF i.kind # "ff" THEN [from |-> Start(i), inst |-> [i EXCEPT !.pg = {k}]]
  ELSE [from |-> [Start(i) EXCEPT !.ffr = 0..(VL - 1)],
        inst |-> [i EXCEPT !.pg = {k}, !.fault = VL, !.op = "ldff",
                           !.visitor = IF @ = "BasePlusVector" THEN @ ELSE "ScalarPlusScalar"]]

LanesAlone(i) ==
  [l \in {<<"lane", k>> : k \in IF i.kind \in {"sve", "gather", "ff"} /\ Implemented(i) THEN i.pg ELSE {}} |-> OfLane(i, l[2])]

(* A gather into another register than that of its offsets.                *)
ApartFromOffsets(i) ==
  IF i.kind \in {"gather", "ff"} /\ i.regs = <<i.z>>
  THEN Comparison("apart", [Start(i) EXCEPT !.r["a"] = Registers[i.z]], [i EXCEPT !.regs = <<"a">>])
  ELSE <<>>

Beside(i) == Comparison("itself", Start(i), i) @@ LanesAlone(i) @@ ApartFromOffsets(i)

-----------------------------------------------------------------------------
Executed(kinds) == access # <<>> /\ access.kind \in kinds
Completed(kinds) == Executed(kinds) /\ machine.ok

(* The bytes of register r that an instruction moves, lane by lane.        *)
MovedLanes(i) ==
  CASE i.kind = "neon" /\ i.visitor = "MultiStruct" -> 0..(i.f.lanes - 1)
    [] i.kind = "neon" /\ i.visitor = "SingleStruct" -> {i.imm}
    [] i.kind \in {"sve", "gather"} -> i.pg

LoadOf(i) == [i EXCEPT !.op = IF @ = "st1" THEN "ld1" ELSE "ld"]

ElementBytes(i) == IF i.kind = "neon" THEN i.f.size ELSE i.msize

(* A scatter whose elements overlap keeps only the last of them.           *)
Disjoint == Cardinality(machine.touched) = Len(machine.log) * ElementBytes(access)

(* The load of the form of a store, into registers with other contents.    *)
LoadBack ==
  IF \/ Completed({"neon", "sve", "gather"}) /\ access.op \in {"st", "st1"} /\ Disjoint /\ Implemented(LoadOf(access))
     \/ Completed({"register", "scalar"}) /\ access.op = "st"
  THEN Comparison("back", [machine EXCEPT !.xn = access.xn,
                             !.r = [r \in VectorRegisters |-> Initial("c")] @@ [r \in {"x1", "x2"} |-> Zeros(8)] @@ @],
                  LoadOf(access))
  ELSE <<>>

(* A load of whole registers from where structures were stored.            *)
LoadFlat ==
  IF /\ Completed({"neon", "sve"}) /\ access.op = "st" /\ Len(access.regs) > 1
     /\ Cardinality(MovedLanes(access)) = access.f.lanes /\ access.imm = 0
  THEN Comparison("flat", [machine EXCEPT !.xn = access.xn],
         IF access.kind = "neon" THEN [access EXCEPT !.op = "ld1"]
         ELSE [access EXCEPT !.op = "ld", !.regs = <<access.regs[1]>>,
                             !.visitor = IF @ = "MultipleImm" THEN "ScalarPlusImm" ELSE "ScalarPlusScalar"])
  ELSE <<>>

-----------------------------------------------------------------------------
MemoryInit == access = <<>> /\ machines = <<>>

Perform(i) ==
  /\ access' = i
  /\ LET executions == IF access = <<>> THEN Beside(i) ELSE LoadBack @@ LoadFlat
     IN /\ DOMAIN executions \cap DOMAIN machines = {}
        /\ machines' = [e \in DOMAIN executions |-> VisitMemory(executions[e].from, executions[e].inst)] @@ machines

Complete ==
  /\ access # <<>>
  /\ access' = <<>> /\ machines' = <<>>

MemoryNext ==
  \/ \E g \in IF access = <<>> THEN AccessGroups ELSE {"executed"} :
       \E kind \in AccessGroup(g) : \E i \in kind : Perform(i)
  \/ Complete

-----------------------------------------------------------------------------
Ended(what) == access # <<>> /\ <<what, 0>> \in DOMAIN machines
After(what) == machines[<<what, 0>>]
Alone(k) == machines[<<"lane", k>>]

(* Replaying on the old memory what the memory-write sink was told gives   *)
(* the new memory, also when the instruction stopped halfway: no write is  *)
(* missed, and none is reported that did not happen.  (MemWrite; the       *)
(* ShadowRunner compares the tracks by these reports.)                     *)
StoresReported ==
  access # <<>> =>
    LET Replay == FoldLeft(LAMBDA m, w : [k \in DOMAIN m |-> IF k - 1 \in Span(w.at, Len(w.bytes))
                                                            THEN w.bytes[k - w.at] ELSE m[k]],
                           InitialMemory, machine.log)
    IN /\ \A j \in DOMAIN machine.log : Mapped(machine.log[j].at, Len(machine.log[j].bytes))
       /\ Replay = machine.mem

(* What a store wrote, the load of the same form reads back into the lanes *)
(* it came from: predicate, element size, structure, order of registers,   *)
(* offset extension and scaling mean the same in both directions.          *)
RoundTrip ==
  Ended("back") =>
    LET i == access
        S == After("back")
    IN IF i.kind \in {"register", "scalar"}
       THEN \A j \in DOMAIN i.regs : \A k \in 1..(IF i.kind = "scalar" THEN i.msize ELSE Len(S.r[i.regs[j]])) :
              i.signed \/ S.r[i.regs[j]][k] = Registers[i.regs[j]][k]
       ELSE /\ S.ok
            /\ \A j \in DOMAIN i.regs : \A k \in MovedLanes(i) :
                 SubSeq(Lane(S.r, i.regs[j], i.f.size, k), 1, ElementBytes(i)) =
                 SubSeq(Lane(Registers, i.regs[j], i.f.size, k), 1, ElementBytes(i))

(* Structures of n members, as st2 .. st4 write them, read by n loads of   *)
(* whole registers: member j of structure k is element n * k + j.          *)
StructuresInterleave ==
  Ended("flat") =>
    LET i == access
        n == Len(i.regs)
    IN \A e \in 0..((IF i.kind = "neon" THEN n ELSE 1) * i.f.lanes - 1) :
         Lane(After("flat").r, i.regs[e \div i.f.lanes + 1], i.f.size, e % i.f.lanes) =
         Lane(Registers, i.regs[(e % n) + 1], i.f.size, e \div n)

(* A predicated access is the sum of accesses of one lane each: it touches *)
(* the bytes they touch and no others, it succeeds exactly if all of them  *)
(* do, and a load leaves in each active lane what the one of that lane     *)
(* alone leaves there.                                                     *)
LanesIndependent ==
  Executed({"sve", "gather"}) /\ Implemented(access) =>
    LET i == access
    IN /\ machine.ok <=> \A k \in i.pg : Alone(k).ok
       /\ machine.ok => machine.touched = UNION {Alone(k).touched : k \in i.pg}
       /\ machine.ok /\ i.op = "ld" => \A k \in i.pg : \A j \in DOMAIN i.regs :
            Lane(machine.r, i.regs[j], i.f.size, k) = Lane(Alone(k).r, i.regs[j], i.f.size, k)

(* A gather whose destination holds its offsets loads what it would load   *)
(* into another register.                                                  *)
OffsetsReadFirst ==
  Ended("apart") =>
    LET S == After("apart")
    IN S.r["a"] = machine.r[access.z] /\ S.ok = machine.ok /\ S.ffr = machine.ffr

(* First-fault and non-fault loads.  The first-fault register only loses   *)
(* lanes, from some lane to the end; a lane still in it is loaded, or      *)
(* zero when inactive; a lane outside keeps its value; no byte outside     *)
(* memory is touched and only the first active element of ldff can stop    *)
(* the instruction.                                                        *)
FirstFaultContract ==
  Executed({"ff"}) =>
    LET i == access
        lanes == 0..(i.f.lanes - 1)
        old == {k \in lanes : k * i.f.size \in i.ffr}
        new == {k \in lanes : k * i.f.size \in machine.ffr}
    IN /\ machine.ffr \subseteq i.ffr
       /\ \A k \in old \ new : \A l \in lanes : l >= k => l \notin new
       /\ ~machine.ok => i.op = "ldff" /\ ~Alone(Min(i.pg)).ok
       /\ machine.ok => \A k \in lanes : Lane(machine.r, i.regs[1], i.f.size, k) =
            CASE k \notin new -> Lane(Registers, i.regs[1], i.f.size, k)
              [] k \in new /\ k \notin i.pg -> Zeros(i.f.size)
              [] OTHER -> Lane(Alone(k).r, i.regs[1], i.f.size, k)

(* Neon post-indexed accesses move the base by the bytes they transferred, *)
(* each once, or by the register, and only when all of them succeeded.     *)
WritebackMatchesTransfer ==
  Executed({"neon"}) /\ access.mode # "offset" =>
    machine.xn = access.xn + (CASE ~machine.ok -> 0
                                [] machine.ok /\ access.mode = "post_imm" -> Cardinality(machine.touched)
                                [] OTHER -> access.xm)

(* A Neon load leaves zeros above the part of each register it loads.      *)
LoadTailCleared ==
  Completed({"neon"}) /\ access.op \in {"ld", "ld1", "ldr"} =>
    \A j \in DOMAIN access.regs : \A k \in (Bytes(access.f) + 1)..VL : machine.r[access.regs[j]][k] = ZeroByte

(* A load that fails changes no register it loads, not even the first of a *)
(* pair.                                                                   *)
FailedLoadKeepsRegisters ==
  Executed({"scalar"}) /\ access.op = "ld" /\ ~machine.ok =>
    \A j \in DOMAIN access.regs : machine.r[access.regs[j]] = Registers[access.regs[j]]

(* A copy that completes moves the bytes the source had before it, however *)
(* the ranges overlap; the counts reach zero and a main instruction that   *)
(* runs again does nothing.                                                *)
CopyIsMemmove ==
  Completed({"copy"}) /\ access.visitor = "Cpy" =>
    /\ \A k \in 1..MemBytes : machine.mem[k] =
         IF k - 1 \in Span(access.xd, access.xc) THEN InitialMemory[k - access.xd + access.xs] ELSE InitialMemory[k]
    /\ machine.xc = 0
    /\ machine.xd - machine.xs = access.xd - access.xs
    /\ SimulateCpyM(machine).mem = machine.mem

(* Memory that was tagged through a pointer with that pointer's tag can be *)
(* read through it at once, with checking on.                              *)
TaggedIsUsable ==
  Completed({"tag"}) /\ access.visitor \in {"SetG", "StoreTagPair"} =>
    LET S == [machine EXCEPT !.mte = TRUE]
    IN \A b \in machine.touched : IsMTETagsMatched(S, b)

(* dc zva zeroes the block around its address and nothing else; the other  *)
(* cache operations succeed on any readable address whatever its tag, and  *)
(* all of them leave tag checking as it was.                               *)
CacheOpsExact ==
  Executed({"cache"}) =>
    /\ machine.mte = access.mte /\ machine.tags = Start(access).tags
    /\ access.visitor = "ZVA" /\ machine.ok => \A k \in 1..MemBytes : machine.mem[k] =
         IF (k - 1) \div 64 = access.xn \div 64 THEN ZeroByte ELSE InitialMemory[k]
    /\ access.visitor = "CVAC" => machine.mem = InitialMemory /\ (machine.ok <=> access.xn \in 0..(MemBytes - 1))

-----------------------------------------------------------------------------
(* Loads, stores and their structured, predicated and gathering forms      *)
(* agree with one another about which lane meets which bytes, also when    *)
(* the destination holds the addresses (the ld* and st* functions,         *)
(* LogicSVEAddressVector and the SVE helpers of logic-aarch64.cc).         *)
TransfersAgree == RoundTrip /\ StructuresInterleave /\ LanesIndependent /\ OffsetsReadFirst

(* An access that stops half-way leaves the state its instruction          *)
(* promises: lanes and first-fault register of ldff and ldnf, the base of  *)
(* a post-indexed access, the registers of a pair.                         *)
FaultContract == FirstFaultContract /\ WritebackMatchesTransfer /\ FailedLoadKeepsRegisters

(* The instructions that work through a block in several steps leave the   *)
(* block as a whole as they should: copies of overlapping ranges, tags,    *)
(* cache operations.                                                       *)
BlockTransfers == CopyIsMemmove /\ TaggedIsUsable /\ CacheOpsExact
=============================================================================
