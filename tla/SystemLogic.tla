---------------------------- MODULE SystemLogic ----------------------------
(***************************************************************************)
(* Pointer authentication and the system instructions on general registers *)
(* and flags.                                                              *)
(*                                                                         *)
(* Scaled as in IntegerLogic: the code of a pointer lies below the bit     *)
(* that selects the half of the address space (bit 55 in the code) and     *)
(* above the address (48 bits in the code).                                *)
(***************************************************************************)
EXTENDS IntegerLogic

GetTopPACBit == XBits - TagBits - 1
GetBottomPACBit == XBits \div 4
kTTBRMask == 2^GetTopPACBit

(* The keys, as far as they fit.                                           *)
Keys ==
  [ia |-> [high |-> 113, low |-> 81, number |-> 0], ib |-> [high |-> 200, low |-> 124, number |-> 1],
   da |-> [high |-> 226, low |-> 119, number |-> 0], db |-> [high |-> 199, low |-> 50, number |-> 1],
   ga |-> [high |-> 213, low |-> 220, number |-> -1]]

-----------------------------------------------------------------------------
(* The hash: the nibbles of a value are moved, substituted and mixed.      *)
NibbleCount == XBits \div 4
GetNibble(x, k) == (x \div 16^k) % 16
FromNibbles(f) == FoldLeft(LAMBDA acc, k : acc + f[k - 1] * 16^(k - 1), 0, [k \in 1..NibbleCount |-> k])

ShuffleNibbles(x) == FromNibbles([k \in 0..(NibbleCount - 1) |-> GetNibble(x, NibbleCount - 1 - k)])

Substitutes == <<4, 7, 3, 9, 10, 14, 0, 1, 15, 2, 8, 6, 12, 5, 11, 13>>
SubstituteNibbles(x) == FromNibbles([k \in 0..(NibbleCount - 1) |-> Substitutes[GetNibble(x, k) + 1]])

RotNibble(cell, amount) == ((cell * 16 + cell) \div 2^(4 - amount)) % 16

(* A nibble becomes the sum of all the others, rotated.                    *)
BigShuffle(x) ==
  FromNibbles([k \in 0..(NibbleCount - 1) |->
    FoldLeft(LAMBDA acc, j : acc ^^ (IF j - 1 = k THEN 0 ELSE RotNibble(GetNibble(x, j - 1), 1)), 0,
             [j \in 1..NibbleCount |-> j])])

ComputePAC(data, context, key) ==
  LET keyed == ShuffleNibbles(BigShuffle(data ^^ key.high)) ^^ key.low
      mixed == BigShuffle(ShuffleNibbles(keyed)) ^^ context
  IN SubstituteNibbles(BigShuffle(SubstituteNibbles(mixed)))

-----------------------------------------------------------------------------
(* The bits of a pointer that hold its code.                               *)
CalculatePACMask == 2^GetTopPACBit - 2^GetBottomPACBit

Cleared(x, mask) == x & (Mask(XBits) - mask)
InUpperHalf(x) == Bit(x, GetTopPACBit) = 1

StripPAC(x) == IF InUpperHalf(x) THEN x | CalculatePACMask ELSE Cleared(x, CalculatePACMask)

(* A pointer whose code is wrong gets an error code of its key instead.    *)
AuthPAC(x, context, key) ==
  LET lsb == GetTopPACBit - 2
  IN IF (ComputePAC(StripPAC(x), context, key) & CalculatePACMask) = (x & CalculatePACMask) THEN StripPAC(x)
     ELSE Cleared(StripPAC(x), 3 * 2^lsb) | (2^key.number * 2^lsb)

(* The code of a pointer that is not canonical is made wrong.              *)
AddPAC(x, context, key) ==
  LET field == x & (CalculatePACMask + kTTBRMask)
      code == ComputePAC(StripPAC(x), context, key)
      corrupted == IF field \in {0, CalculatePACMask + kTTBRMask} THEN code ELSE code ^^ (2^(GetTopPACBit - 1))
  IN (corrupted & CalculatePACMask) | Cleared(x, CalculatePACMask)

(* pac and aut with the key i.mode, in all their encodings; the z forms    *)
(* have context zero.                                                      *)
PACHelper(S, i) ==
  LET context == IF i.imm THEN 0 ELSE S.r[i.m]
      x == S.r[i.d]
  IN WriteRegister(S, XBits, i.d, IF i.op = "pac" THEN AddPAC(x, context, Keys[i.mode]) ELSE AuthPAC(x, context, Keys[i.mode]))

(* pacga: the high half of a code.                                         *)
GenericPAC(S, i) ==
  WriteRegister(S, XBits, i.d, (ComputePAC(S.r[i.n], S.r[i.m], Keys.ga) \div 2^WBits) * 2^WBits)

-----------------------------------------------------------------------------
(* Carry inversion, and the flags of a floating-point comparison to and    *)
(* from the format of other architectures.                                 *)
ConvertFlags(f, op) ==
  CASE op = "cfinv" -> [f EXCEPT !.C = 1 - @]
    [] op = "axflag" -> NZCV(0, f.Z | f.V, f.C & (1 - f.V), 0)
    [] op = "xaflag" -> NZCV((1 - f.C) & (1 - f.Z), f.Z & f.C, f.C | f.Z, (1 - f.C) & f.Z)

(* The flags are the top bits of the W register they are moved to.         *)
MoveFlags(S, i) ==
  CASE i.op = "msr" -> SetFlags(S, FlagsOf(ReadRegister(S, WBits, i.n) \div 2^(WBits - 4)))
    [] i.op = "mrs" -> WriteRegister(S, XBits, i.d, FlagBits(S.nzcv) * 2^(WBits - 4))
    [] i.op = "rndr" -> SetFlags(WriteRegister(S, XBits, i.d, i.k), FlagsOf(0))

VisitSystem(S, i) ==
  CASE i.op \in {"pac", "aut"} -> PACHelper(S, i)
    [] i.op = "xpac" -> WriteRegister(S, XBits, i.d, StripPAC(S.r[i.d]))
    [] i.op = "pacga" -> GenericPAC(S, i)
    [] i.op \in {"cfinv", "axflag", "xaflag"} -> SetFlags(S, ConvertFlags(S.nzcv, i.op))
    [] i.op \in {"msr", "mrs", "rndr"} -> MoveFlags(S, i)
=============================================================================
