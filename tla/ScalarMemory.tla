---------------------------- MODULE ScalarMemory ----------------------------
(***************************************************************************)
(* Loads and stores of single registers and pairs, the memory copy and set *)
(* instructions, and the instructions that store MTE tags.                 *)
(*                                                                         *)
(* An instruction i has an addressing mode (mode: offset, pre, post), an   *)
(* offset (imm), says whether its base is SP (sp), and moves msize bytes   *)
(* of each register of regs; a load widens them to rsize (signed or not)   *)
(* and zeroes the rest of the register.                                    *)
(***************************************************************************)
EXTENDS VectorMemory

(* VIXL_ALIGNMENT_EXCEPTION, a failed authentication: the end.             *)
Stop(S) == [S EXCEPT !.ok = FALSE]

(* A misaligned SP stops; the base is written back before the access.      *)
AddressModeHelper(S, i) ==
  IF i.sp /\ S.xn % 16 # 0 THEN Stop(S)
  ELSE IF i.mode \in {"pre", "post"} THEN [S EXCEPT !.xn = @ + i.imm]
  ELSE S

Address(S, i) == IF i.mode \in {"offset", "pre"} THEN S.xn + i.imm ELSE S.xn

WriteLoaded(S, r, b, i) ==
  [S EXCEPT !.r[r] = Widened(Widened(b, i.rsize, i.signed), Len(@), FALSE)]

Access(S, i, a, r) ==
  IF i.op = "ld" THEN Attempt(S, a, i.msize, LAMBDA T : WriteLoaded(T, r, MemRead(T, a, i.msize), i))
  ELSE MemWrite(S, a, SubSeq(S.r[r], 1, i.msize))

LoadStoreHelper(S, i) == Access(AddressModeHelper(S, i), i, Address(S, i), i.regs[1])

VisitLoadStoreUnsignedOffset(S, i) == LoadStoreHelper(S, [i EXCEPT !.mode = "offset", !.imm = i.imm * i.msize])
VisitLoadStoreUnscaledOffset(S, i) == LoadStoreHelper(S, [i EXCEPT !.mode = "offset"])
VisitLoadStorePreIndex(S, i) == LoadStoreHelper(S, [i EXCEPT !.mode = "pre"])
VisitLoadStorePostIndex(S, i) == LoadStoreHelper(S, [i EXCEPT !.mode = "post"])

(* The offset register is extended and scaled, or not, by the access size. *)
VisitLoadStoreRegisterOffset(S, i) ==
  LoadStoreHelper(S, [i EXCEPT !.mode = "offset", !.imm = S.xm * (IF i.scaled THEN i.msize ELSE 1)])

(* A literal is addressed from the PC.                                     *)
VisitLoadLiteral(S, i) == Access(S, i, S.pc + i.imm, i.regs[1])

(* Load-acquire RCpc and store-release may not cross 16 bytes.             *)
RCpcHelper(S, i) ==
  LET a == S.xn + i.imm
  IN IF Granule(a) # Granule(a + i.msize - 1) THEN Stop(S) ELSE Access(S, i, a, i.regs[1])

VisitLoadStoreRCpcUnscaledOffset(S, i) == RCpcHelper(S, i)

(* The pointer is authenticated first; pre-index writes the authenticated  *)
(* address back.  i.genuine: the code in the pointer is right.             *)
VisitLoadStorePAC(S, i) ==
  IF ~i.genuine THEN Stop(S) ELSE Access(AddressModeHelper(S, i), i, S.xn + i.imm, i.regs[1])

(* Mutant: each register of a pair is written as soon as it is read.       *)
PairInTurn(S, i) ==
  LET a == Address(S, i)
  IN Access(Access(AddressModeHelper(S, i), i, a, i.regs[1]), i, a + i.msize, i.regs[2])

(* Both halves are read before either register is written.                 *)
LoadStorePairHelper(S, i) ==
  LET a == Address(S, i)
      T == AddressModeHelper(S, i)
      Both(U) == WriteLoaded(WriteLoaded(U, i.regs[1], MemRead(U, a, i.msize), i),
                               i.regs[2], MemRead(U, a + i.msize, i.msize), i)
  IN IF i.op = "ld"
     THEN Attempt(T, a, i.msize, LAMBDA U : Attempt(U, a + i.msize, i.msize, Both))
     ELSE Access(Access(T, i, a, i.regs[1]), i, a + i.msize, i.regs[2])

VisitLoadStorePairOffset(S, i) == LoadStorePairHelper(S, [i EXCEPT !.mode = "offset"])
VisitLoadStorePairPreIndex(S, i) == LoadStorePairHelper(S, [i EXCEPT !.mode = "pre"])
VisitLoadStorePairPostIndex(S, i) == LoadStorePairHelper(S, [i EXCEPT !.mode = "post"])
VisitLoadStorePairNonTemporal(S, i) == LoadStorePairHelper(S, [i EXCEPT !.mode = "offset"])

-----------------------------------------------------------------------------
(* Copy and set.  xd, xs and xc are the destination, source and count      *)
(* registers, n the flag that carries the direction from the prologue.     *)

(* Counts of 2^55 and more are cut to the largest below (2^63 for set).    *)
CountLimit == Wild

MOPSPHelper(S, granules) ==
  [S EXCEPT !.n = FALSE,
            !.xc = IF @ <= CountLimit THEN @ ELSE IF granules THEN 16 * (CountLimit \div 16) ELSE CountLimit]

SimulateCpyFP(S) == MOPSPHelper(S, FALSE)

(* Mutant: only a source below the destination by less than the count      *)
(* minus one counts as overlapping.                                        *)
OverlapMissed(S) ==
  LET T == MOPSPHelper(S, FALSE)
  IN IF T.xs < T.xd /\ T.xs + T.xc - 1 > T.xd
     THEN [T EXCEPT !.n = TRUE, !.xs = @ + T.xc, !.xd = @ + T.xc] ELSE T

(* Backwards, from the end, exactly when a forward copy would overwrite    *)
(* source bytes that are still to be read.                                 *)
SimulateCpyP(S) ==
  LET T == MOPSPHelper(S, FALSE)
  IN IF T.xs < T.xd /\ T.xs + T.xc > T.xd
     THEN [T EXCEPT !.n = TRUE, !.xs = @ + T.xc, !.xd = @ + T.xc] ELSE T

(* One byte at a time; the registers are written at the end, after all     *)
(* accesses have succeeded.  The pointers are corrected by one before and  *)
(* after a backward copy.                                                  *)
SimulateCpyM(S) ==
  LET at(x, k) == IF S.n THEN x - 1 - k ELSE x + k
      T == For(S, S.xc, LAMBDA U, k : Attempt(U, at(S.xs, k), 1,
             LAMBDA V : MemWrite(V, at(S.xd, k), MemRead(V, at(S.xs, k), 1))))
      end(x) == IF S.n THEN x - S.xc ELSE x + S.xc
  IN IF T.ok THEN [T EXCEPT !.xd = end(@), !.xs = end(@), !.xc = 0] ELSE T

SimulateCpyE(S) == S

SimulateSetP(S) == MOPSPHelper(S, FALSE)

SimulateSetM(S, r) ==
  LET T == For(S, S.xc, LAMBDA U, k : MemWrite(U, S.xd + k, <<S.r[r][1]>>))
  IN IF T.ok THEN [T EXCEPT !.xd = @ + S.xc, !.xc = 0] ELSE T

SimulateSetE(S) == S

-----------------------------------------------------------------------------
(* MTE.                                                                    *)

(* Tags are recorded per granule, whether or not checking is on.           *)
SetMTETag(S, a, tag) == [S EXCEPT !.tags[Granule(a)] = tag]

SimulateSetGP(S) ==
  LET T == MOPSPHelper(S, TRUE)
  IN IF (T.xc > 0 /\ T.xd % 16 # 0) \/ T.xc % 16 # 0 THEN Stop(T) ELSE T

(* All granules are tagged, then the bytes are set.                        *)
SimulateSetGM(S, r) ==
  SimulateSetM(For(S, S.xc \div 16, LAMBDA T, k : SetMTETag(T, S.xd + 16 * k, S.tag)), r)

(* The tag of the base register, then the pair.                            *)
SimulateMTEStoreTagPair(S, i) ==
  LET a == Address(S, i)
      T == AddressModeHelper(S, i)
      U == SetMTETag(T, a, S.tag)
  IN CASE ~T.ok -> T
       [] T.ok /\ a % 16 # 0 -> Stop(T)
       [] OTHER -> MemWrite(MemWrite(U, a, SubSeq(U.r[i.regs[1]], 1, 8)), a + 8, SubSeq(U.r[i.regs[2]], 1, 8))

(* stg, st2g, stzg, stz2g: the granules are zeroed first, under the tags   *)
(* they have, and only then tagged.                                        *)
SimulateMTEStoreTag(S, i) ==
  LET a == Address(S, i)
      T == AddressModeHelper(S, i)
      granules == Len(i.regs)
      Z == IF ~i.zero THEN T
           ELSE IF T.ok /\ a % 16 # 0 THEN Stop(T)
           ELSE For(T, 2 * granules, LAMBDA U, k : MemWrite(U, a + 8 * k, Zeros(8)))
  IN IF Z.ok THEN For(Z, granules, LAMBDA U, k : SetMTETag(U, a + 16 * k, i.newtag)) ELSE Z

(* The tag of the granule, which must have one.                            *)
SimulateMTELoadTag(S, i) ==
  LET a == S.xn + i.imm
      T == AddressModeHelper(S, [i EXCEPT !.mode = "offset"])
  IN CASE ~T.ok -> T
       [] T.ok /\ T.tags[Granule(a)] = NoTag -> Stop(T)
       [] OTHER -> [T EXCEPT !.loaded = T.tags[Granule(a)]]

-----------------------------------------------------------------------------
(* dc zva zeroes the aligned block of 2^4 words around an address; the     *)
(* other cache operations read a byte, and tags are not checked meanwhile. *)
ZvaBlockSize == 4 * 2^4

SysOp_W(S, i) ==
  LET block == S.xn - (S.xn % ZvaBlockSize)
      read == Attempt([S EXCEPT !.mte = FALSE], S.xn, 1, LAMBDA T : T)
  IN CASE i.visitor = "ZVA" -> For(S, ZvaBlockSize \div 8, LAMBDA T, k : MemWrite(T, block + 8 * k, Zeros(8)))
       [] i.visitor = "CVAC" -> [read EXCEPT !.mte = S.mte]
=============================================================================
