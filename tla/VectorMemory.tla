---------------------------- MODULE VectorMemory ----------------------------
(***************************************************************************)
(* Memory as the load and store instructions see it: an array of bytes at  *)
(* addresses 0 .. MemBytes - 1, read and written element by element, with  *)
(* the vector and general registers they move the elements to and from.    *)
(*                                                                         *)
(* A machine state S holds the registers (r), the memory (mem), the base   *)
(* and offset registers (xn, xm), the first-fault register as the set of   *)
(* its active bytes (ffr), the writes reported to the memory-write sink    *)
(* (log), the bytes accessed (touched), the MTE tags of the granules and   *)
(* of the pointers, and whether every access succeeded (ok).  An access    *)
(* outside the array fails: the function returns false and its callers     *)
(* return without doing the rest.  (That path is compiled in with          *)
(* VIXL_ENABLE_IMPLICIT_CHECKS; without it the host's signal ends the      *)
(* process at the same point, as a wrong tag does.)                        *)
(***************************************************************************)
EXTENDS SveLogic

CONSTANT MemBytes   \* bytes of mapped memory

ASSUME MemBytesAssumption == MemBytes \in Nat

(* An address that no sum of a base and a small offset brings back into    *)
(* memory, standing for offsets of 2^32 and more.                          *)
Wild == 1000 * (MemBytes + VL)

Mapped(a, n) == a >= 0 /\ a + n <= MemBytes

Span(a, n) == a..(a + n - 1)

(* A granule is 16 bytes; NoTag marks one that has none.  The tag of the   *)
(* granule an access starts in is compared with the pointer's.             *)
Granule(a) == a \div 16

NoTag == -1

IsMTETagsMatched(S, a) == S.mte => S.tags[Granule(a)] = S.tag

(* The early returns: nothing more is done after a failed access.          *)
Attempt(S, a, n, Done(_)) ==
  CASE ~S.ok -> S
    [] S.ok /\ ~(Mapped(a, n) /\ IsMTETagsMatched(S, a)) -> [S EXCEPT !.ok = FALSE]
    [] OTHER -> Done([S EXCEPT !.touched = @ \cup Span(a, n)])

(* Mutant: the sink hears of a write before it has succeeded.              *)
PhantomWrite(S, a, b) ==
  Attempt([S EXCEPT !.log = Append(@, [at |-> a, bytes |-> b])], a, Len(b),
          LAMBDA T : [T EXCEPT !.mem = SubSeq(@, 1, a) \o b \o SubSeq(@, a + Len(b) + 1, MemBytes)])

(* The write, then the report to the sink, only if it succeeded.           *)
MemWrite(S, a, b) ==
  Attempt(S, a, Len(b), LAMBDA T :
    [T EXCEPT !.mem = SubSeq(@, 1, a) \o b \o SubSeq(@, a + Len(b) + 1, MemBytes),
              !.log = Append(@, [at |-> a, bytes |-> b])])

MemRead(S, a, n) == SubSeq(S.mem, a + 1, a + n)

(* A value widened to size bytes.                                          *)
Widened(b, size, signed) ==
  IF Len(b) >= size THEN SubSeq(b, 1, size)
  ELSE IF signed THEN Compute("sxt", size, <<Value(b)>>)
  ELSE b \o Zeros(size - Len(b))

LoadToLane(S, r, f, msize, i, a, signed) ==
  Attempt(S, a, msize, LAMBDA T :
    [T EXCEPT !.r = SetLane(@, r, f.size, i, Widened(MemRead(T, a, msize), f.size, signed))])

LoadLane(S, r, f, i, a) == LoadToLane(S, r, f, f.size, i, a, FALSE)

StoreLane(S, r, f, i, a) == MemWrite(S, a, Lane(S.r, r, f.size, i))

-----------------------------------------------------------------------------
(* Neon: n registers hold the n members of each structure.                 *)

ClearAll(S, f, regs) ==
  [S EXCEPT !.r = [r \in DOMAIN @ |-> IF r \in Range(regs) THEN ClearForWrite(@, r, f)[r] ELSE @[r]]]

(* One structure: a member to or from lane i of each register in turn.     *)
LoadStruct(S, f, regs, i, a) ==
  For(S, Len(regs), LAMBDA T, j : LoadLane(T, regs[j + 1], f, i, a + j * f.size))

StoreStruct(S, f, regs, i, a) ==
  For(S, Len(regs), LAMBDA T, j : StoreLane(T, regs[j + 1], f, i, a + j * f.size))

(* ld1 .. ld4, st1 .. st4 of whole registers.                              *)
ld(S, f, regs, a) ==
  For(ClearAll(S, f, regs), f.lanes, LAMBDA T, i : LoadStruct(T, f, regs, i, a + i * Len(regs) * f.size))

st(S, f, regs, a) ==
  For(S, f.lanes, LAMBDA T, i : StoreStruct(T, f, regs, i, a + i * Len(regs) * f.size))

(* The same of one lane.                                                   *)
ldLane(S, f, regs, i, a) == LoadStruct(ClearAll(S, f, regs), f, regs, i, a)

stLane(S, f, regs, i, a) == StoreStruct(S, f, regs, i, a)

(* ld1r .. ld4r: one structure to every lane.                              *)
ldr(S, f, regs, a) ==
  For(ClearAll(S, f, regs), f.lanes, LAMBDA T, i : LoadStruct(T, f, regs, i, a))

(* ld1r with elements that are widened.                                    *)
ld1r(S, f, r, msize, a, signed) ==
  For(ClearAll(S, f, <<r>>), f.lanes, LAMBDA T, i : LoadToLane(T, r, f, msize, i, a, signed))

-----------------------------------------------------------------------------
(* SVE addresses (LogicSVEAddressVector).  Contiguous structures follow    *)
(* one another; otherwise lane i of a vector gives the offset.             *)

(* The offsets a lane can hold, as an unsigned value of the lane's width   *)
(* and as its low word with either extension.                              *)
OffsetValue ==
  LET plain == [o0 |-> 0, o1 |-> 1, o2 |-> 2, o3 |-> 3, o8 |-> 8, o16 |-> 16, o24 |-> 24, o32 |-> 32, o40 |-> 40]
      same == [o \in DOMAIN plain |-> [full |-> plain[o], uxtw |-> plain[o], sxtw |-> plain[o]]]
  IN same @@ [minus1 |-> [full |-> Wild, uxtw |-> Wild, sxtw |-> -1],
              minus8 |-> [full |-> Wild, uxtw |-> Wild, sxtw |-> -8],
              upper |-> [full |-> Wild, uxtw |-> 2, sxtw |-> 2],
              far |-> [full |-> Wild, uxtw |-> Wild, sxtw |-> Wild]]

Contiguous(base, msize, count) == [kind |-> "contiguous", base |-> base, msize |-> msize, count |-> count]

Scattered(base, z, size, mod, shift, msize) ==
  [kind |-> "scattered", base |-> base, z |-> z, size |-> size, mod |-> mod, shift |-> shift,
   msize |-> msize, count |-> 1]

(* A lane that no longer holds an offset is somewhere else in memory.      *)
VectorOffset(S, addr, i) ==
  LET b == Value(Lane(S.r, addr.z, addr.size, i))
  IN IF Len(b) = 1 /\ b[1].op \in DOMAIN OffsetValue THEN OffsetValue[b[1].op][addr.mod] ELSE Wild

GetStructAddress(S, addr, i) ==
  IF addr.kind = "contiguous" THEN addr.base + i * addr.count * addr.msize
  ELSE addr.base + VectorOffset(S, addr, i) * 2^addr.shift

GetElementAddress(S, addr, i, r) == GetStructAddress(S, addr, i) + r * addr.msize

-----------------------------------------------------------------------------
(* The loops over the active lanes; pg is the set of active lanes.         *)

(* The low part of each active element, structure by structure.            *)
SVEStructuredStoreHelper(S, f, pg, regs, addr) ==
  For(S, f.lanes, LAMBDA T, i :
    IF i \notin pg THEN T
    ELSE For(T, Len(regs), LAMBDA U, r :
      StoreLane(U, regs[r + 1], Sve(addr.msize), i * (f.size \div addr.msize), GetElementAddress(U, addr, i, r))))

(* Mutant: the destination is cleared before the offsets are read.         *)
LoadIntoCleared(S, f, pg, regs, addr, signed) ==
  For([S EXCEPT !.r = [r \in DOMAIN @ |-> IF r \in Range(regs) THEN Zeros(VL) ELSE @[r]]], f.lanes,
      LAMBDA T, i : For(T, Len(regs), LAMBDA U, r :
        IF i \notin pg THEN U
        ELSE LoadToLane(U, regs[r + 1], f, addr.msize, i, GetElementAddress(U, addr, i, r), signed)))

(* Inactive lanes become zero; nothing is read for them.                   *)
SVEStructuredLoadHelper(S, f, pg, regs, addr, signed) ==
  For(S, f.lanes, LAMBDA T, i : For(T, Len(regs), LAMBDA U, r :
    CASE ~U.ok -> U
      [] U.ok /\ i \notin pg -> [U EXCEPT !.r = SetLane(@, regs[r + 1], f.size, i, Zeros(f.size))]
      [] OTHER -> LoadToLane(U, regs[r + 1], f, addr.msize, i, GetElementAddress(U, addr, i, r), signed)))

(* A lane of the first-fault register is its first byte; clearing a lane   *)
(* clears all its bytes.                                                   *)
FfrLane(S, f, i) == i * f.size \in S.ffr

ClearFfrFrom(S, f, i) == [S EXCEPT !.ffr = {b \in @ : b < i * f.size}]

(* first: no element has been read yet by a first-fault load.              *)
(* fake_fault: the lane from which a non-faulting load pretends to fault.  *)
FaultTolerantLane(S, f, pg, zt, addr, signed, first, fake_fault, i) ==
  LET a == GetElementAddress(S, addr, i, 0)
      readable == i < fake_fault /\ Mapped(a, addr.msize)
      Write(T, value) ==
        IF T.ok /\ FfrLane(T, f, i) THEN [T EXCEPT !.r = SetLane(@, zt, f.size, i, value)] ELSE T
      Loaded(T) == Write(T, Widened(MemRead(T, a, addr.msize), f.size, signed))
  IN CASE ~S.ok -> S
       [] S.ok /\ i \notin pg -> Write(S, Zeros(f.size))
       [] S.ok /\ i \in pg /\ (first \/ (FfrLane(S, f, i) /\ readable)) -> Attempt(S, a, addr.msize, Loaded)
       [] S.ok /\ i \in pg /\ ~first /\ FfrLane(S, f, i) /\ ~readable -> ClearFfrFrom(S, f, i)
       [] OTHER -> S

SVEFaultTolerantLoadHelper(S, f, pg, zt, addr, type, signed, fake_fault) ==
  For(S, f.lanes, LAMBDA T, i :
    FaultTolerantLane(T, f, pg, zt, addr, signed,
                      type = "first" /\ i \in pg /\ \A j \in pg : i <= j, fake_fault, i))

(* mov_zeroing under a known predicate.                                    *)
MovZeroing(S, f, d, pg, a) ==
  For(S, f.lanes, LAMBDA T, i :
    [T EXCEPT !.r = SetLane(@, d, f.size, i, IF i \in pg THEN Lane(@, a, f.size, i) ELSE Zeros(f.size))])
=============================================================================
