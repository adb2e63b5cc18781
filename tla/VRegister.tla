----------------------------- MODULE VRegister -----------------------------
(***************************************************************************)
(* The vector registers as the leaf semantics of logic-aarch64.cc see      *)
(* them: arrays of bytes, read and written lane by lane through            *)
(* LogicVRegister, which holds a REFERENCE to the register.  Two operands  *)
(* naming one register are therefore one array, and a loop that writes a   *)
(* lane before it has read everything it needs computes something else.    *)
(*                                                                         *)
(* What a lane function computes is left out: it is an opaque term over    *)
(* the lane values it read.  A byte of a register is one byte of such a    *)
(* term, so the result of an instruction says exactly which input bytes    *)
(* each output byte was computed from, and by which sequence of functions. *)
(***************************************************************************)
EXTENDS Integers, Sequences, SequencesExt

CONSTANT VL   \* bytes of a Z register (GetVectorLengthInBytes)

ASSUME VLAssumption == VL \in {16 * k : k \in 1..16}

QBytes == 16

-----------------------------------------------------------------------------
(* Formats: lane size in bytes and number of lanes.                        *)

Neon(size, lanes) == [size |-> size, lanes |-> lanes, sve |-> FALSE]

Sve(size) == [size |-> size, lanes |-> VL \div size, sve |-> TRUE]

Bytes(f) == f.size * f.lanes

HalfWidth(f) == IF f.sve THEN Sve(f.size \div 2) ELSE Neon(f.size \div 2, f.lanes)

DoubleWidth(f) == IF f.sve THEN Sve(f.size * 2) ELSE Neon(f.size * 2, f.lanes)

HalfWidthDoubleLanes(f) ==
  IF f.sve THEN Sve(f.size \div 2) ELSE Neon(f.size \div 2, f.lanes * 2)

HalfLanes(f) == Neon(f.size, f.lanes \div 2)

FillQ(f) == Neon(f.size, QBytes \div f.size)

ScalarFormat(f) == Neon(f.size, 1)

-----------------------------------------------------------------------------
(* Byte k of the size-byte value that function op computed from the values *)
(* in of.  The initial bytes of a register are functions of nothing.       *)

Byte(op, of, size, k) == [op |-> op, of |-> of, size |-> size, byte |-> k]

ZeroByte == Byte("zero", <<>>, 1, 0)

Zeros(n) == [k \in 1..n |-> ZeroByte] \o <<>>

Initial(name) == [k \in 1..VL |-> Byte(name, <<>>, VL, k)] \o <<>>

(* The value of a function op over args, as the bytes of a lane.           *)
Compute(op, size, args) == [k \in 1..size |-> Byte(op, args, size, k)] \o <<>>

(* GetLane: the bytes of lane i.                                           *)
Lane(R, r, size, i) == SubSeq(R[r], size * i + 1, size * (i + 1))

(* A lane as an argument: a computed value read whole is that value.       *)
Value(b) ==
  IF b[1].size = Len(b) /\ \A k \in 1..Len(b) : b[k] = [b[1] EXCEPT !.byte = k]
  THEN <<[b[1] EXCEPT !.byte = 0]>>
  ELSE b

Arg(R, r, size, i) == Value(Lane(R, r, size, i))

(* Insert: overwrite lane i.                                               *)
SetLane(R, r, size, i, b) ==
  [R EXCEPT ![r] = SubSeq(@, 1, size * i) \o b \o SubSeq(@, size * (i + 1) + 1, VL)]

(* A SimVRegister on the stack starts cleared.                             *)
Fresh(R, temps) == [r \in DOMAIN R |-> IF r \in temps THEN Zeros(VL) ELSE R[r]]

ClearForWrite(R, d, f) ==
  IF f.sve THEN R
  ELSE [R EXCEPT ![d] = SubSeq(@, 1, Bytes(f)) \o Zeros(VL - Bytes(f))]

-----------------------------------------------------------------------------
(* Loops over the lanes, and the shapes most functions have.               *)

(* for (i = 0; i < n; i++).  Looking at DOMAIN R makes TLC evaluate the    *)
(* register file before the loop and not in its innermost step.            *)
For(R, n, Step(_, _)) ==
  LET f[i \in 0..n] == IF i = 0 THEN R ELSE Step(f[i - 1], i - 1)
  IN IF DOMAIN R = {} THEN R ELSE f[n]

(* for (i = n - 1; i >= 0; i--)                                            *)
ForDown(R, n, Step(_, _)) ==
  LET f[i \in 0..n] == IF i = 0 THEN R ELSE Step(f[i - 1], n - i)
  IN IF DOMAIN R = {} THEN R ELSE f[n]

(* Lane i of dst from lane i of the sources, in place, ascending.          *)
InPlace(R, f, d, srcs, op) ==
  For(R, f.lanes,
      LAMBDA S, i : SetLane(S, d, f.size, i,
        Compute(op, f.size, [k \in DOMAIN srcs |-> Arg(S, srcs[k], f.size, i)] \o <<>>)))

Lanewise(R, f, d, srcs, op) == InPlace(ClearForWrite(R, d, f), f, d, srcs, op)

(* Results gathered in an array before the destination is touched          *)
(* (SetIntArray, SetUintArray and the functions with a result[] of their   *)
(* own): Val(i) is lane i of the result.                                   *)
Buffered(R, f, d, Val(_)) ==
  LET result == [i \in 1..f.lanes |-> Val(i - 1)] \o <<>>
  IN For(ClearForWrite(R, d, f), f.lanes,
         LAMBDA S, i : SetLane(S, d, f.size, i, result[i + 1]))

(* Mutant: the rest of the register is not cleared.                        *)
ReduceInPlace(R, f, d, a, op, size) ==
  SetLane(R, d, size, 0, Compute(op, size, [i \in 1..f.lanes |-> Arg(R, a, f.size, i - 1)] \o <<>>))

(* One value computed from all the lanes, then written to lane 0.          *)
Reduce(R, f, d, a, op, size) ==
  LET v == Compute(op, size, [i \in 1..f.lanes |-> Arg(R, a, f.size, i - 1)] \o <<>>)
  IN SetLane(ClearForWrite(R, d, Neon(size, 1)), d, size, 0, v)
=============================================================================
