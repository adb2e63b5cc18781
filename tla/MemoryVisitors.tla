--------------------------- MODULE MemoryVisitors ---------------------------
(***************************************************************************)
(* The load and store visitors of simulator-aarch64.cc: how each computes  *)
(* its addresses, in which order it accesses them, and what it does to the *)
(* base register.                                                          *)
(*                                                                         *)
(* An instruction i names its visitor, its operation (op), the format of   *)
(* its lanes (f), the size of an element in memory (msize), the registers  *)
(* it moves (regs), the active lanes of its predicate (pg), an immediate   *)
(* (imm), the extension of the elements (signed), and for scatter-gather   *)
(* the offset register (z), its lane format and its modifier.  Prefetches  *)
(* do nothing at all and are left out.                                     *)
(***************************************************************************)
EXTENDS VectorMemory

-----------------------------------------------------------------------------
(* Neon.                                                                   *)

WriteBase(S, a) == IF S.ok THEN [S EXCEPT !.xn = a] ELSE S

(* Rm = 31 means the number of bytes transferred.                          *)
PostIndex(S, i, transferred) ==
  IF i.mode = "offset" THEN S
  ELSE WriteBase(S, S.xn + (IF i.mode = "post_imm" THEN transferred ELSE S.xm))

(* ld1 and st1 of several registers fall through the cases from the last   *)
(* register to the first; the others are structures.                       *)
NEONLoadStoreMultiStructHelper(S, i) ==
  LET n == Len(i.regs)
      T == CASE i.op = "ld1" -> ForDown(S, n, LAMBDA U, j : ld(U, i.f, <<i.regs[j + 1]>>, S.xn + j * Bytes(i.f)))
             [] i.op = "st1" -> ForDown(S, n, LAMBDA U, j : st(U, i.f, <<i.regs[j + 1]>>, S.xn + j * Bytes(i.f)))
             [] i.op = "ld" -> ld(S, i.f, i.regs, S.xn)
             [] i.op = "st" -> st(S, i.f, i.regs, S.xn)
  IN PostIndex(T, i, Bytes(i.f) * n)

(* One lane of 128-bit registers, or one structure to all lanes.           *)
NEONLoadStoreSingleStructHelper(S, i) ==
  LET T == CASE i.op = "ldr" -> ldr(S, i.f, i.regs, S.xn)
             [] i.op = "ld" -> ldLane(S, i.f, i.regs, i.imm, S.xn)
             [] i.op = "st" -> stLane(S, i.f, i.regs, i.imm, S.xn)
  IN PostIndex(T, i, Len(i.regs) * i.f.size)

-----------------------------------------------------------------------------
(* SVE, contiguous.  msize < f.size unpacks or packs the elements.         *)

Load(S, i, addr) == SVEStructuredLoadHelper(S, i.f, i.pg, i.regs, addr, i.signed)
Store(S, i, addr) == SVEStructuredStoreHelper(S, i.f, i.pg, i.regs, addr)

(* The base plus a scaled register.                                        *)
ScalarPlusScalar(S, i) == Contiguous(S.xn + S.xm * i.msize, i.msize, Len(i.regs))

(* The immediate counts vectors of memory: VL bytes for whole elements, as *)
(* much less as the elements are narrower; times the registers.            *)
ScalarPlusImm(S, i) ==
  Contiguous(S.xn + ((i.imm * VL) \div (i.f.size \div i.msize)) * Len(i.regs), i.msize, Len(i.regs))

VisitSVEContiguousLoad_ScalarPlusImm(S, i) == Load(S, i, ScalarPlusImm(S, i))
VisitSVEContiguousLoad_ScalarPlusScalar(S, i) == Load(S, i, ScalarPlusScalar(S, i))
VisitSVEContiguousStore_ScalarPlusImm(S, i) == Store(S, i, ScalarPlusImm(S, i))
VisitSVEContiguousStore_ScalarPlusScalar(S, i) == Store(S, i, ScalarPlusScalar(S, i))
VisitSVEContiguousNonTemporalLoad_ScalarPlusImm(S, i) == Load(S, i, ScalarPlusImm(S, i))
VisitSVEContiguousNonTemporalLoad_ScalarPlusScalar(S, i) == Load(S, i, ScalarPlusScalar(S, i))
VisitSVEContiguousNonTemporalStore_ScalarPlusImm(S, i) == Store(S, i, ScalarPlusImm(S, i))
VisitSVEContiguousNonTemporalStore_ScalarPlusScalar(S, i) == Store(S, i, ScalarPlusScalar(S, i))
VisitSVELoadMultipleStructures_ScalarPlusImm(S, i) == Load(S, i, ScalarPlusImm(S, i))
VisitSVELoadMultipleStructures_ScalarPlusScalar(S, i) == Load(S, i, ScalarPlusScalar(S, i))
VisitSVEStoreMultipleStructures_ScalarPlusImm(S, i) == Store(S, i, ScalarPlusImm(S, i))
VisitSVEStoreMultipleStructures_ScalarPlusScalar(S, i) == Store(S, i, ScalarPlusScalar(S, i))

VisitSVEContiguousFirstFaultLoad_ScalarPlusScalar(S, i, fake_fault) ==
  SVEFaultTolerantLoadHelper(S, i.f, i.pg, i.regs[1], ScalarPlusScalar(S, i), "first", i.signed, fake_fault)

VisitSVEContiguousNonFaultLoad_ScalarPlusImm(S, i, fake_fault) ==
  SVEFaultTolerantLoadHelper(S, i.f, i.pg, i.regs[1], ScalarPlusImm(S, i), "non", i.signed, fake_fault)

(* The element is loaded to every lane of a temporary, whatever the        *)
(* predicate; then the inactive lanes are zeroed.                          *)
VisitSVELoadAndBroadcastElement(S, i) ==
  LET T == ld1r([S EXCEPT !.r = Fresh(@, {"w1"})], i.f, "w1", i.msize, S.xn + i.imm * i.msize, i.signed)
  IN IF T.ok THEN MovZeroing(T, i.f, i.regs[1], i.pg, "w1") ELSE T

(* 16 or 32 bytes are loaded into the low lanes, whatever the predicate;   *)
(* the result is zeroed under the predicate and its first part repeated.   *)
BroadcastSegment(S, i, size, bytes, a) ==
  LET lanes == bytes \div size
      zt == i.regs[1]
      T == For(S, lanes, LAMBDA U, j : LoadLane(U, zt, Sve(size), j, a + j * size))
      U == MovZeroing(T, i.f, zt, i.pg, zt)
  IN IF T.ok THEN [U EXCEPT !.r = dup_element(@, Sve(bytes), zt, zt, 0)] ELSE T

VisitSVELoadAndBroadcastQOWord_ScalarPlusImm(S, i) ==
  BroadcastSegment(S, i, 8, i.bytes, S.xn + i.imm * i.bytes)

VisitSVELoadAndBroadcastQOWord_ScalarPlusScalar(S, i) ==
  BroadcastSegment(S, i, 1, i.bytes, S.xn + S.xm * i.msize)

(* Whole registers, byte by byte: VL bytes of a vector, VL / 8 of a        *)
(* predicate.                                                              *)
RegisterAddress(S, i, k) == S.xn + i.imm * Len(S.r[i.regs[1]]) + k

LoadRegister(S, i) ==
  For(S, Len(S.r[i.regs[1]]), LAMBDA T, k : Attempt(T, RegisterAddress(S, i, k), 1,
    LAMBDA U : [U EXCEPT !.r[i.regs[1]][k + 1] = MemRead(U, RegisterAddress(S, i, k), 1)[1]]))

StoreRegister(S, i) ==
  For(S, Len(S.r[i.regs[1]]), LAMBDA T, k : MemWrite(T, RegisterAddress(S, i, k), <<T.r[i.regs[1]][k + 1]>>))

VisitSVELoadPredicateRegister(S, i) == LoadRegister(S, i)
VisitSVELoadVectorRegister(S, i) == LoadRegister(S, i)
VisitSVEStorePredicateRegister(S, i) == StoreRegister(S, i)
VisitSVEStoreVectorRegister(S, i) == StoreRegister(S, i)

-----------------------------------------------------------------------------
(* SVE, scatter-gather.  The vector holds offsets from a scalar base, or   *)
(* addresses to which an immediate is added.                               *)

Log2(n) == CHOOSE k \in 0..3 : 2^k = n

(* xn plus the lanes of zm, extended from a word or not.                   *)
BasePlusVector(S, i, mod, scaled) ==
  Scattered(S.xn, i.z, i.f.size, mod, IF scaled THEN Log2(i.msize) ELSE 0, i.msize)

(* The lanes of zn plus an immediate or plus xm.                           *)
VectorPlusImm(i) == Scattered(i.imm * i.msize, i.z, i.f.size, "full", 0, i.msize)
VectorPlusScalar(S, i) == Scattered(S.xm, i.z, i.f.size, "full", 0, i.msize)

SVEGatherLoadScalarPlusVectorHelper(S, i, mod, fake_fault) ==
  LET addr == BasePlusVector(S, i, mod, i.scaled)
  IN IF i.op = "ldff" THEN SVEFaultTolerantLoadHelper(S, i.f, i.pg, i.regs[1], addr, "first", i.signed, fake_fault)
     ELSE Load(S, i, addr)

VisitSVE32BitGatherLoadHalfwords_ScalarPlus32BitScaledOffsets(S, i, fault) ==
  SVEGatherLoadScalarPlusVectorHelper(S, i, i.mod, fault)
VisitSVE32BitGatherLoad_ScalarPlus32BitUnscaledOffsets(S, i, fault) ==
  SVEGatherLoadScalarPlusVectorHelper(S, i, i.mod, fault)
VisitSVE32BitGatherLoadWords_ScalarPlus32BitScaledOffsets(S, i, fault) ==
  SVEGatherLoadScalarPlusVectorHelper(S, i, i.mod, fault)
VisitSVE64BitGatherLoad_ScalarPlus32BitUnpackedScaledOffsets(S, i, fault) ==
  SVEGatherLoadScalarPlusVectorHelper(S, i, i.mod, fault)
VisitSVE64BitGatherLoad_ScalarPlus64BitScaledOffsets(S, i, fault) ==
  SVEGatherLoadScalarPlusVectorHelper(S, i, "full", fault)
VisitSVE64BitGatherLoad_ScalarPlus64BitUnscaledOffsets(S, i, fault) ==
  SVEGatherLoadScalarPlusVectorHelper(S, i, "full", fault)
VisitSVE64BitGatherLoad_ScalarPlusUnpacked32BitUnscaledOffsets(S, i, fault) ==
  SVEGatherLoadScalarPlusVectorHelper(S, i, i.mod, fault)

(* VIXL_UNIMPLEMENTED for each of its forms: nothing is loaded.            *)
VisitSVE32BitGatherLoad_VectorPlusImm(S, i) == [S EXCEPT !.ok = FALSE]
VisitSVE64BitGatherLoad_VectorPlusImm(S, i) == Load(S, i, VectorPlusImm(i))
Simulate_ZtD_PgZ_ZnD_Xm(S, i) == Load(S, i, VectorPlusScalar(S, i))
Simulate_ZtS_PgZ_ZnS_Xm(S, i) == Load(S, i, VectorPlusScalar(S, i))

VisitSVE32BitScatterStore_ScalarPlus32BitScaledOffsets(S, i) == Store(S, i, BasePlusVector(S, i, i.mod, TRUE))
VisitSVE32BitScatterStore_ScalarPlus32BitUnscaledOffsets(S, i) == Store(S, i, BasePlusVector(S, i, i.mod, FALSE))
VisitSVE32BitScatterStore_VectorPlusImm(S, i) == Store(S, i, VectorPlusImm(i))
VisitSVE64BitScatterStore_ScalarPlus64BitScaledOffsets(S, i) == Store(S, i, BasePlusVector(S, i, "full", TRUE))
VisitSVE64BitScatterStore_ScalarPlus64BitUnscaledOffsets(S, i) == Store(S, i, BasePlusVector(S, i, "full", FALSE))
VisitSVE64BitScatterStore_ScalarPlusUnpacked32BitScaledOffsets(S, i) ==
  Store(S, i, BasePlusVector(S, i, i.mod, TRUE))
VisitSVE64BitScatterStore_ScalarPlusUnpacked32BitUnscaledOffsets(S, i) ==
  Store(S, i, BasePlusVector(S, i, i.mod, FALSE))
VisitSVE64BitScatterStore_VectorPlusImm(S, i) == Store(S, i, VectorPlusImm(i))
Simulate_ZtD_Pg_ZnD_Xm(S, i) == Store(S, i, VectorPlusScalar(S, i))
Simulate_ZtS_Pg_ZnS_Xm(S, i) == Store(S, i, VectorPlusScalar(S, i))
=============================================================================
