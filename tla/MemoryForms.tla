---------------------------- MODULE MemoryForms ----------------------------
(***************************************************************************)
(* The load and store instructions that reach the visitors, the states     *)
(* they start from, and what each does: VisitMemory(S, i).                 *)
(***************************************************************************)
EXTENDS MemoryVisitors, ScalarMemory

VectorRegisters == {"a", "b", "c", "d", "e"}

(* Offset vectors by lane size: unscaled, scaled, and one with a lane that *)
(* points nowhere.                                                         *)
OffsetLanes ==
  [zd |-> <<"o0", "minus8", "o16", "o8">>, zdx |-> <<"o0", "minus1", "upper", "o3">>,
   zdf |-> <<"o8", "o24", "far", "o0">>,
   zs |-> <<"o8", "o0", "o32", "minus8", "o16", "o24", "minus8", "o40">>,
   zsx |-> <<"o0", "o1", "o2", "o3", "minus1", "o8", "o16", "o1">>,
   zsf |-> <<"o0", "o8", "o16", "far", "o24", "far", "o32", "o40">>]

OffsetVector(z) ==
  LET size == VL \div Len(OffsetLanes[z])
      b == [k \in 1..VL |-> Compute(OffsetLanes[z][(k - 1) \div size + 1], size, <<>>)[((k - 1) % size) + 1]]
  IN b \o <<>>

ZRegisters(f) == IF f.size = 4 THEN {"zs", "zsx", "zsf"} ELSE {"zd", "zdx", "zdf"}

(* A general register has 8 bytes, a predicate register a bit per byte of  *)
(* a vector.                                                               *)
General(name) == SubSeq(Initial(name), 1, 8)

Registers ==
  [r \in VectorRegisters |-> Initial(r)] @@ [z \in DOMAIN OffsetLanes |-> OffsetVector(z)]
  @@ [p1 |-> SubSeq(Initial("p1"), 1, VL \div 8), x1 |-> General("x1"), x2 |-> General("x2"), w1 |-> Zeros(VL)]

InitialMemory == [k \in 1..MemBytes |-> Byte("mem", <<>>, MemBytes, k)] \o <<>>

Granules == 0..(MemBytes \div 16 + 2)

(* The machine before instruction i: all granules have tag 1 but the last  *)
(* two, of which one has another tag and one none.                         *)
Start(i) ==
  [r |-> Registers, mem |-> InitialMemory, xn |-> i.xn, xm |-> i.xm, pc |-> 8, ffr |-> i.ffr,
   log |-> <<>>, touched |-> {}, ok |-> TRUE, mte |-> i.mte, tag |-> 1, loaded |-> NoTag,
   tags |-> [g \in Granules |-> CASE g >= MemBytes \div 16 -> NoTag [] g = MemBytes \div 16 - 1 -> 2 [] OTHER -> 1],
   xd |-> i.xd, xs |-> i.xs, xc |-> i.xc, n |-> FALSE]

-----------------------------------------------------------------------------
(* Instructions: the fields that a kind does not use keep these values.    *)

Plain ==
  [kind |-> "none", visitor |-> "none", op |-> "none", f |-> Sve(1), msize |-> 1, regs |-> <<"a">>, pg |-> {},
   mode |-> "offset", imm |-> 0, signed |-> FALSE, z |-> "zd", mod |-> "full", scaled |-> FALSE, sp |-> FALSE,
   rsize |-> 8, genuine |-> TRUE, zero |-> FALSE, newtag |-> 1, bytes |-> 16, fault |-> VL,
   xn |-> 8, xm |-> 0, ffr |-> 0..(VL - 1), mte |-> FALSE, xd |-> 0, xs |-> 0, xc |-> 0]

(* The instructions, in sets of one kind each.                             *)

(* Structures of n registers from d on; registers wrap after the last.     *)
RegisterList(n) == SubSeq(<<"d", "e", "a", "b">>, 1, n)

(* Bases from which everything fits, something does not, or nothing does.  *)
Bases == {8, 24, MemBytes - 12, MemBytes}

NeonFormats == {Neon(1, 8), Neon(1, 16), Neon(2, 4), Neon(2, 8), Neon(4, 2), Neon(4, 4), Neon(8, 2)}
NeonModes == {"offset", "post_imm", "post_reg"}

NeonMulti ==
  {[Plain EXCEPT !.kind = "neon", !.visitor = "MultiStruct", !.op = o, !.f = f, !.regs = RegisterList(n),
                 !.mode = mode, !.xn = b, !.xm = 5] :
     o \in {"ld1", "st1", "ld", "st"}, f \in NeonFormats, n \in 1..4, mode \in NeonModes, b \in Bases}

NeonSingle ==
  {{[Plain EXCEPT !.kind = "neon", !.visitor = "SingleStruct", !.op = o, !.f = f, !.regs = RegisterList(n),
                  !.mode = mode, !.xn = b, !.xm = 5, !.imm = lane] :
      o \in {"ld", "st"}, f \in {g \in NeonFormats : Bytes(g) = QBytes}, n \in 1..4, mode \in NeonModes,
      b \in Bases, lane \in 0..1},
   {[Plain EXCEPT !.kind = "neon", !.visitor = "SingleStruct", !.op = "ldr", !.f = f, !.regs = RegisterList(n),
                  !.mode = mode, !.xn = b, !.xm = 5] :
      f \in NeonFormats, n \in 1..4, mode \in NeonModes, b \in Bases}}

(* Predicates: every one for few lanes, and representative ones for many.  *)
Masks(f) ==
  LET lanes == 0..(f.lanes - 1)
  IN IF f.lanes <= 4 THEN SUBSET lanes
     ELSE {lanes, {}, {i \in lanes : i % 2 = 1}, lanes \ {0}, {f.lanes - 1}}

(* Lane formats and the element sizes they can hold in memory.             *)
Packings == {p \in {Sve(1), Sve(2), Sve(4), Sve(8)} \X {1, 2, 4, 8} : p[2] <= p[1].size}

Sve1(o, visitors, imms, xms) ==
  UNION {{[Plain EXCEPT !.kind = "sve", !.visitor = v, !.op = o, !.f = p[1], !.msize = p[2], !.pg = pg,
                        !.imm = imm, !.xm = xm, !.signed = s, !.xn = b] :
            v \in visitors, pg \in Masks(p[1]), imm \in imms, xm \in xms, b \in {8, 40, MemBytes - 12},
            s \in IF o = "ld" /\ p[2] < p[1].size THEN BOOLEAN ELSE {FALSE}} : p \in Packings}

(* Non-temporal forms and structures have whole elements.                  *)
Whole(instructions) == {i \in instructions : i.msize = i.f.size}

Structures(instructions) ==
  {[i EXCEPT !.regs = RegisterList(n), !.visitor = IF @ = "ScalarPlusImm" THEN "MultipleImm" ELSE "Multiple"] :
     i \in {j \in Whole(instructions) : j.xn # 40}, n \in 2..4}

ByImm(o) == Sve1(o, {"ScalarPlusImm"}, {-1, 0, 1}, {0})
ByScalar(o) == Sve1(o, {"ScalarPlusScalar"}, {0}, {0, 3})

SveContiguous ==
  UNION {{ByImm(o), ByScalar(o), Structures({i \in ByImm(o) : i.imm = 0}), Structures(ByScalar(o)),
          {[i EXCEPT !.visitor = "NonTemporal"] : i \in Whole({j \in ByScalar(o) : j.xm = 3})},
          {[i EXCEPT !.visitor = "NonTemporalImm"] : i \in Whole({j \in ByImm(o) : j.imm = 1})}} : o \in {"ld", "st"}}

(* Where a non-faulting load pretends to fault: nowhere, or at a lane.     *)
FaultTolerant ==
  {{[i EXCEPT !.kind = "ff", !.op = o, !.fault = fault, !.ffr = {k \in 0..(VL - 1) : k < ffr}] :
      o \in {"ldff", "ldnf"}, fault \in {0, 1, i.f.lanes}, ffr \in {0, 8, VL}} :
   i \in {j \in ByScalar("ld") : j.xm = 0 /\ j.xn # 40}}

Broadcast ==
  {{[Plain EXCEPT !.kind = "broadcast", !.visitor = v, !.op = "ld", !.f = p[1], !.msize = p[2],
                  !.pg = pg, !.imm = 1, !.xm = 3, !.xn = b, !.bytes = n] :
      v \in IF p[2] = p[1].size THEN {"Element", "QOWordImm", "QOWordScalar"} ELSE {"Element"},
      pg \in Masks(p[1]), b \in {8, MemBytes - 12}, n \in {16, 32}} : p \in Packings}

(* LDR and STR of vector and predicate registers.                          *)
WholeRegisters ==
  {[Plain EXCEPT !.kind = "register", !.visitor = "Register", !.op = o, !.regs = <<r>>, !.imm = imm, !.xn = b] :
     o \in {"ld", "st"}, r \in {"d", "p1"}, imm \in {0, 1}, b \in {8, MemBytes - 12}}

(* Scatter-gather: 32-bit offsets are extended; the destination of a       *)
(* gather may be the offset vector.                                        *)
Gathers(o, p) ==
  {[Plain EXCEPT !.kind = "gather", !.visitor = "BasePlusVector", !.op = o, !.f = p[1], !.msize = p[2],
                 !.pg = pg, !.z = z, !.mod = mod, !.scaled = z \in {"zsx", "zdx"}, !.xn = 24] :
     pg \in Masks(p[1]), z \in ZRegisters(p[1]),
     mod \in IF p[1].size = 4 THEN {"uxtw", "sxtw"} ELSE {"full", "uxtw", "sxtw"}}
  \cup
  {[Plain EXCEPT !.kind = "gather", !.visitor = v, !.op = o, !.f = p[1], !.msize = p[2],
                 !.pg = pg, !.z = z, !.imm = 3, !.xm = 24] :
     v \in {"VectorPlusImm", "VectorPlusScalar"}, pg \in Masks(p[1]), z \in ZRegisters(p[1]) \ {"zsx", "zdx"}}

GatherPackings == {p \in Packings : p[1].size >= 4}

ScatterGather ==
  UNION {{Gathers("st", p), Gathers("ld", p),
          {[i EXCEPT !.regs = <<i.z>>, !.signed = TRUE] : i \in Gathers("ld", p)}} : p \in GatherPackings}
  \cup
  {{[i EXCEPT !.kind = "ff", !.op = "ldff", !.fault = fault, !.regs = <<r>>] :
      i \in {j \in Gathers("ld", p) : j.visitor = "BasePlusVector"}, fault \in {1, VL}, r \in {"a", "zdf"}} :
   p \in {q \in GatherPackings : q[1].size = 8}}

-----------------------------------------------------------------------------
(* General and SIMD registers.                                             *)

(* Register, bytes in memory, bytes of the register view, sign-extension.  *)
Views ==
  [r : {"x1"}, m : {1, 2}, w : {4, 8}, s : BOOLEAN] \cup [r : {"x1"}, m : {4}, w : {8}, s : {TRUE}]
  \cup [r : {"x1"}, m : {4}, w : {4}, s : {FALSE}] \cup [r : {"x1"}, m : {8}, w : {8}, s : {FALSE}]
  \cup {[r |-> "a", m |-> m, w |-> m, s |-> FALSE] : m \in {1, 2, 4, 8, 16}}

ScalarBases == {8, 13, 16, MemBytes - 8, MemBytes - 16, MemBytes - 2}

ScalarSingle ==
  {[Plain EXCEPT !.kind = "scalar", !.visitor = v, !.op = o, !.msize = t.m, !.rsize = t.w, !.signed = t.s,
                 !.regs = <<t.r>>, !.imm = imm, !.sp = sp, !.xn = b, !.xm = 3, !.scaled = imm = 1] :
     v \in {"UnsignedOffset", "UnscaledOffset", "PreIndex", "PostIndex", "RegisterOffset", "Literal", "RCpc"},
     o \in {"ld", "st"}, t \in Views, imm \in {1, 8}, sp \in BOOLEAN, b \in ScalarBases}

ScalarPac ==
  {[Plain EXCEPT !.kind = "scalar", !.visitor = "PAC", !.op = "ld", !.msize = 8, !.regs = <<"x1">>, !.imm = 8,
                 !.mode = mode, !.genuine = g, !.sp = sp, !.xn = b] :
     mode \in {"offset", "pre"}, g \in BOOLEAN, sp \in BOOLEAN, b \in ScalarBases}

ScalarPair ==
  {[Plain EXCEPT !.kind = "scalar", !.visitor = v, !.op = o, !.msize = t.m, !.rsize = t.w, !.signed = t.s,
                 !.regs = rs, !.imm = imm, !.xn = b] :
     v \in {"PairOffset", "PairPreIndex", "PairPostIndex", "PairNonTemporal"}, o \in {"ld", "st"},
     t \in {u \in Views : u.m \in {4, 8}}, rs \in {<<"x1", "x2">>, <<"a", "b">>}, imm \in {-8, 16}, b \in ScalarBases}

(* Every copy and set of up to six bytes near the ends of memory.          *)
CopySets ==
  {[Plain EXCEPT !.kind = "copy", !.visitor = v, !.op = "st", !.regs = <<"x1">>, !.xd = d, !.xs = s, !.xc = c] :
     v \in {"Cpy", "CpyF", "Set"}, d \in 0..7 \cup {MemBytes - 4}, s \in 0..7 \cup {MemBytes - 4}, c \in 0..6}

Tagging ==
  {{[Plain EXCEPT !.kind = "tag", !.visitor = v, !.op = "st", !.regs = SubSeq(<<"x1", "x2">>, 1, n), !.mode = mode,
                 !.imm = 16, !.xn = b, !.zero = zero, !.newtag = t, !.mte = mte, !.xd = b, !.xc = c] :
     v \in {"StoreTagPair", "StoreTag", "SetG"}, n \in 1..2, mode \in {"offset", "pre", "post"},
     b \in {16, 40, MemBytes - 48, MemBytes - 32, MemBytes - 16}, zero \in BOOLEAN, t \in {1, 3}, mte \in BOOLEAN, c \in {0, 16, 32}},
   {[Plain EXCEPT !.kind = "tag", !.visitor = "LoadTag", !.op = "ld", !.imm = imm, !.xn = b, !.sp = sp] :
      imm \in {0, 16}, b \in {16, 40, MemBytes - 16}, sp \in BOOLEAN}}

CacheOps ==
  {[Plain EXCEPT !.kind = "cache", !.visitor = v, !.op = "st", !.xn = b, !.mte = mte] :
     v \in {"ZVA", "CVAC"}, b \in {0, 8, 63, 64, 100, MemBytes - 1, MemBytes}, mte \in BOOLEAN}

-----------------------------------------------------------------------------
(* What instruction i does.                                                *)

VisitContiguous(S, i) ==
  CASE i.visitor = "ScalarPlusImm" /\ i.op = "ld" -> VisitSVEContiguousLoad_ScalarPlusImm(S, i)
    [] i.visitor = "ScalarPlusImm" /\ i.op = "st" -> VisitSVEContiguousStore_ScalarPlusImm(S, i)
    [] i.visitor = "ScalarPlusScalar" /\ i.op = "ld" -> VisitSVEContiguousLoad_ScalarPlusScalar(S, i)
    [] i.visitor = "ScalarPlusScalar" /\ i.op = "st" -> VisitSVEContiguousStore_ScalarPlusScalar(S, i)
    [] i.visitor = "NonTemporal" /\ i.op = "ld" -> VisitSVEContiguousNonTemporalLoad_ScalarPlusScalar(S, i)
    [] i.visitor = "NonTemporal" /\ i.op = "st" -> VisitSVEContiguousNonTemporalStore_ScalarPlusScalar(S, i)
    [] i.visitor = "NonTemporalImm" /\ i.op = "ld" -> VisitSVEContiguousNonTemporalLoad_ScalarPlusImm(S, i)
    [] i.visitor = "NonTemporalImm" /\ i.op = "st" -> VisitSVEContiguousNonTemporalStore_ScalarPlusImm(S, i)
    [] i.visitor = "Multiple" /\ i.op = "ld" -> VisitSVELoadMultipleStructures_ScalarPlusScalar(S, i)
    [] i.visitor = "Multiple" /\ i.op = "st" -> VisitSVEStoreMultipleStructures_ScalarPlusScalar(S, i)
    [] i.visitor = "MultipleImm" /\ i.op = "ld" -> VisitSVELoadMultipleStructures_ScalarPlusImm(S, i)
    [] i.visitor = "MultipleImm" /\ i.op = "st" -> VisitSVEStoreMultipleStructures_ScalarPlusImm(S, i)

VisitGather(S, i) ==
  LET wide == i.f.size = 8
  IN CASE i.visitor = "BasePlusVector" /\ ~wide /\ i.scaled /\ i.msize = 2 ->
            VisitSVE32BitGatherLoadHalfwords_ScalarPlus32BitScaledOffsets(S, i, i.fault)
       [] i.visitor = "BasePlusVector" /\ ~wide /\ i.scaled /\ i.msize # 2 ->
            VisitSVE32BitGatherLoadWords_ScalarPlus32BitScaledOffsets(S, i, i.fault)
       [] i.visitor = "BasePlusVector" /\ ~wide /\ ~i.scaled ->
            VisitSVE32BitGatherLoad_ScalarPlus32BitUnscaledOffsets(S, i, i.fault)
       [] i.visitor = "BasePlusVector" /\ wide /\ i.mod # "full" /\ i.scaled ->
            VisitSVE64BitGatherLoad_ScalarPlus32BitUnpackedScaledOffsets(S, i, i.fault)
       [] i.visitor = "BasePlusVector" /\ wide /\ i.mod # "full" /\ ~i.scaled ->
            VisitSVE64BitGatherLoad_ScalarPlusUnpacked32BitUnscaledOffsets(S, i, i.fault)
       [] i.visitor = "BasePlusVector" /\ wide /\ i.mod = "full" /\ i.scaled ->
            VisitSVE64BitGatherLoad_ScalarPlus64BitScaledOffsets(S, i, i.fault)
       [] i.visitor = "BasePlusVector" /\ wide /\ i.mod = "full" /\ ~i.scaled ->
            VisitSVE64BitGatherLoad_ScalarPlus64BitUnscaledOffsets(S, i, i.fault)
       [] i.visitor = "VectorPlusImm" /\ wide -> VisitSVE64BitGatherLoad_VectorPlusImm(S, i)
       [] i.visitor = "VectorPlusImm" /\ ~wide -> VisitSVE32BitGatherLoad_VectorPlusImm(S, i)
       [] i.visitor = "VectorPlusScalar" /\ wide -> Simulate_ZtD_PgZ_ZnD_Xm(S, i)
       [] i.visitor = "VectorPlusScalar" /\ ~wide -> Simulate_ZtS_PgZ_ZnS_Xm(S, i)

VisitScatter(S, i) ==
  LET wide == i.f.size = 8
  IN CASE i.visitor = "BasePlusVector" /\ ~wide /\ i.scaled -> VisitSVE32BitScatterStore_ScalarPlus32BitScaledOffsets(S, i)
       [] i.visitor = "BasePlusVector" /\ ~wide /\ ~i.scaled -> VisitSVE32BitScatterStore_ScalarPlus32BitUnscaledOffsets(S, i)
       [] i.visitor = "BasePlusVector" /\ wide /\ i.mod # "full" /\ i.scaled ->
            VisitSVE64BitScatterStore_ScalarPlusUnpacked32BitScaledOffsets(S, i)
       [] i.visitor = "BasePlusVector" /\ wide /\ i.mod # "full" /\ ~i.scaled ->
            VisitSVE64BitScatterStore_ScalarPlusUnpacked32BitUnscaledOffsets(S, i)
       [] i.visitor = "BasePlusVector" /\ wide /\ i.mod = "full" /\ i.scaled ->
            VisitSVE64BitScatterStore_ScalarPlus64BitScaledOffsets(S, i)
       [] i.visitor = "BasePlusVector" /\ wide /\ i.mod = "full" /\ ~i.scaled ->
            VisitSVE64BitScatterStore_ScalarPlus64BitUnscaledOffsets(S, i)
       [] i.visitor = "VectorPlusImm" /\ wide -> VisitSVE64BitScatterStore_VectorPlusImm(S, i)
       [] i.visitor = "VectorPlusImm" /\ ~wide -> VisitSVE32BitScatterStore_VectorPlusImm(S, i)
       [] i.visitor = "VectorPlusScalar" /\ wide -> Simulate_ZtD_Pg_ZnD_Xm(S, i)
       [] i.visitor = "VectorPlusScalar" /\ ~wide -> Simulate_ZtS_Pg_ZnS_Xm(S, i)

VisitWhole(S, i) ==
  CASE i.visitor = "Register" /\ i.op = "ld" /\ i.regs[1] = "p1" -> VisitSVELoadPredicateRegister(S, i)
    [] i.visitor = "Register" /\ i.op = "ld" /\ i.regs[1] # "p1" -> VisitSVELoadVectorRegister(S, i)
    [] i.visitor = "Register" /\ i.op = "st" /\ i.regs[1] = "p1" -> VisitSVEStorePredicateRegister(S, i)
    [] i.visitor = "Register" /\ i.op = "st" /\ i.regs[1] # "p1" -> VisitSVEStoreVectorRegister(S, i)
    [] i.visitor = "Element" -> VisitSVELoadAndBroadcastElement(S, i)
    [] i.visitor = "QOWordImm" -> VisitSVELoadAndBroadcastQOWord_ScalarPlusImm(S, i)
    [] i.visitor = "QOWordScalar" -> VisitSVELoadAndBroadcastQOWord_ScalarPlusScalar(S, i)

VisitScalar(S, i) ==
  CASE i.visitor = "UnsignedOffset" -> VisitLoadStoreUnsignedOffset(S, i)
    [] i.visitor = "UnscaledOffset" -> VisitLoadStoreUnscaledOffset(S, i)
    [] i.visitor = "PreIndex" -> VisitLoadStorePreIndex(S, i)
    [] i.visitor = "PostIndex" -> VisitLoadStorePostIndex(S, i)
    [] i.visitor = "RegisterOffset" -> VisitLoadStoreRegisterOffset(S, i)
    [] i.visitor = "Literal" -> VisitLoadLiteral(S, i)
    [] i.visitor = "RCpc" -> VisitLoadStoreRCpcUnscaledOffset(S, i)
    [] i.visitor = "PAC" -> VisitLoadStorePAC(S, i)
    [] i.visitor = "PairOffset" -> VisitLoadStorePairOffset(S, i)
    [] i.visitor = "PairPreIndex" -> VisitLoadStorePairPreIndex(S, i)
    [] i.visitor = "PairPostIndex" -> VisitLoadStorePairPostIndex(S, i)
    [] i.visitor = "PairNonTemporal" -> VisitLoadStorePairNonTemporal(S, i)

(* The three instructions of a copy or set follow one another.             *)
VisitSequence(S, i) ==
  CASE i.visitor = "Cpy" -> SimulateCpyE(SimulateCpyM(SimulateCpyP(S)))
    [] i.visitor = "CpyF" -> SimulateCpyE(SimulateCpyM(SimulateCpyFP(S)))
    [] i.visitor = "Set" -> SimulateSetE(SimulateSetM(SimulateSetP(S), i.regs[1]))
    [] i.visitor = "SetG" ->
         LET T == SimulateSetGP(S) IN IF T.ok THEN SimulateSetE(SimulateSetGM(T, i.regs[1])) ELSE T
    [] i.visitor = "StoreTagPair" -> SimulateMTEStoreTagPair(S, [i EXCEPT !.regs = <<"x1", "x2">>])
    [] i.visitor = "StoreTag" -> SimulateMTEStoreTag(S, i)
    [] i.visitor = "LoadTag" -> SimulateMTELoadTag(S, i)

VisitMemory(S, i) ==
  CASE i.kind = "neon" /\ i.visitor = "MultiStruct" -> NEONLoadStoreMultiStructHelper(S, i)
    [] i.kind = "neon" /\ i.visitor = "SingleStruct" -> NEONLoadStoreSingleStructHelper(S, i)
    [] i.kind = "sve" -> VisitContiguous(S, i)
    [] i.kind = "ff" /\ i.visitor # "BasePlusVector" /\ i.op = "ldff" ->
         VisitSVEContiguousFirstFaultLoad_ScalarPlusScalar(S, i, i.fault)
    [] i.kind = "ff" /\ i.visitor # "BasePlusVector" /\ i.op = "ldnf" ->
         VisitSVEContiguousNonFaultLoad_ScalarPlusImm(S, i, i.fault)
    [] i.kind = "ff" /\ i.visitor = "BasePlusVector" -> VisitGather(S, i)
    [] i.kind = "gather" /\ i.op = "ld" -> VisitGather(S, i)
    [] i.kind = "gather" /\ i.op = "st" -> VisitScatter(S, i)
    [] i.kind \in {"register", "broadcast"} -> VisitWhole(S, i)
    [] i.kind = "scalar" -> VisitScalar(S, i)
    [] i.kind \in {"copy", "tag"} -> VisitSequence(S, i)
    [] i.kind = "cache" -> SysOp_W(S, i)
=============================================================================
