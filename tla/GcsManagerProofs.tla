-------------------------- MODULE GcsManagerProofs --------------------------
(***************************************************************************)
(* The Guarded Control Stacks of any number of Simulators: if every value  *)
(* is passed once and no switch token is made up, no two Simulators ever   *)
(* use the same storage, although they use it without the lock, and what   *)
(* is remembered of a stack (the pointer cached beside a token, the slot   *)
(* and depth in a value) is true of it however slots are freed and reused. *)
(***************************************************************************)
EXTENDS GcsManager, TLAPS, FiniteSetTheorems, SequenceTheorems,
        WellFoundedInduction

StepRecord == [at : Places, rt : ValueRecord, seal : Entry, other : GcsRecord]

StacksTyped == stacks \in Seq(Storages \cup {0})
UsedTyped == used \in Nat /\ used \in {0} \cup Storages
HeapTyped == DOMAIN heap \subseteq 1 .. used /\ \A i \in DOMAIN heap : heap[i] \in Seq(Entry)
GcsTyped == gcs \in [Sims -> GcsRecord]
StepTyped == step \in [Sims -> StepRecord]
HeldTyped == held \subseteq ValueRecord

Typed ==
    StacksTyped /\ UsedTyped /\ HeapTyped /\ GcsTyped /\ StepTyped /\ HeldTyped

\* The manager's table: a storage is in one slot, and allocated.
Table ==
    \A k \in DOMAIN stacks : stacks[k] # 0 =>
        /\ stacks[k] \in DOMAIN heap
        /\ \A l \in DOMAIN stacks : stacks[l] = stacks[k] => l = k

\* A Simulator without a stack is in no operation.  One in ResetGCSState holds
\* a pointer to a deleted storage.
Quiet ==
    \A s \in Sims :
        /\ ~Alive(s) => step[s].at = "guest"
        /\ step[s].at = "reset" => gcs[s].ptr <= used /\ gcs[s].ptr \notin DOMAIN heap

(***************************************************************************)
(* Every stack in the table has at most one claim on it.  h says for each  *)
(* slot which: a Simulator has it in gcs_, or in a local of GCSSS1 or      *)
(* GCSSS2; a switch token on some stack names it; or a value does.         *)
(***************************************************************************)
Claim(by, who, pos) == [by |-> by, who |-> who, pos |-> pos]
RunBy(s) == Claim("run", s, 0)
OtherOf(s) == Claim("other", s, 0)
TokenAt(i, n) == Claim("token", i, n)
ValueOf(size) == Claim("value", 0, size)

Switching(s) == step[s].at \notin {"guest", "reset", "unseal"}

RunsTracked(h) ==
    \A s \in Sims : On(s) =>
        /\ HasStack(gcs[s].token) /\ stacks[gcs[s].token] = gcs[s].ptr
        /\ h[gcs[s].token] = RunBy(s)

OthersTracked(h) ==
    \A s \in Sims : Switching(s) =>
        LET other == step[s].other
        IN  /\ HasStack(other.token) /\ h[other.token] = OtherOf(s)
            /\ step[s].at # "ss2 activate" => stacks[other.token] = other.ptr

TokensTracked(h) ==
    \A i \in DOMAIN heap : \A k \in DOMAIN heap[i] : heap[i][k].kind = "switch" =>
        /\ heap[i][k].at \in Nat /\ HasStack(heap[i][k].at)
        /\ h[heap[i][k].at] = TokenAt(i, k)

\* What GCSSS1 checks of the stack of v.
Sealed(q, v) == Len(q) = v.size + 1 /\ q[Len(q)] = Seal(v.slot, v.size)

ValuesTracked(h) ==
    \A v \in held :
        /\ HasStack(v.slot) /\ h[v.slot] = ValueOf(v.size)
        /\ Sealed(heap[stacks[v.slot]], v)

Tracked(h) == RunsTracked(h) /\ OthersTracked(h) /\ TokensTracked(h) /\ ValuesTracked(h)

\* What a Simulator in the middle of an operation knows of the stack it is on.
Local(l, g, q) ==
    /\ l.at = "unseal" => Sealed(q, Value(g.token, 0))
    /\ l.at \in {"ss1 read", "ss1 pop", "ss2 return"} => Sealed(q, l.rt)
    /\ l.at \in {"ss1 pop", "ss1 check"} => l.seal = Seal(l.rt.slot, l.rt.size)
    /\ l.at = "ss1 check" => Len(q) = l.rt.size
    /\ l.at = "ss2 return" => l.rt.slot = g.token

Locals == \A s \in Sims : On(s) => Local(step[s], gcs[s], heap[gcs[s].ptr])

GcsInv ==
    /\ Typed /\ Table /\ Quiet /\ Locals /\ ValuesHonoured
    /\ \E h : Tracked(h)

-----------------------------------------------------------------------------
(***************************************************************************)
(* Numbers, sequences and the manager's table.                             *)
(***************************************************************************)

\* A nonempty set of natural numbers has a least member.
LEMMA LeastNumber ==
    ASSUME NEW S, S \subseteq Nat, S # {}
    PROVE  \E x \in S : \A y \in S : x <= y
  <1> DEFINE R == OpToRel(<, Nat)
  <1>1. IsWellFoundedOn(R, Nat)
    BY NatLessThanWellFounded
  <1>2. PICK x \in S : \A y \in S : ~(<<y, x>> \in R)
    <2> HIDE DEF R
    <2> QED BY <1>1, WFMin
  <1>3. \A y \in S : <<y, x>> \in R <=> y < x
    BY DEF OpToRel
  <1>4. \A y \in S : ~(y < x)
    BY <1>2, <1>3
  <1> HIDE DEF R
  <1>5. QED
    BY <1>4

\* The storages are numbered from 1, so those below one of them are storages.
LEMMA StoragesInitial ==
    ASSUME NEW n \in Nat, n \in Storages, NEW m \in 1 .. n
    PROVE  m \in Storages
  <1> DEFINE c == Cardinality(Storages)
  <1>1. Storages = 1 .. c
    BY GcsAssumption
  <1>2. c \in Nat
    BY GcsAssumption, FS_CardinalityType
  <1> HIDE DEF c
  <1>3. QED
    BY <1>1, <1>2

LEMMA StoragesNat == Storages \subseteq Nat /\ 0 \notin Storages
  <1> DEFINE c == Cardinality(Storages)
  <1>1. Storages = 1 .. c /\ c \in Nat
    BY GcsAssumption, FS_CardinalityType
  <1> HIDE DEF c
  <1>2. QED
    BY <1>1

LEMMA EntryTypes ==
    /\ \A a \in Addrs : Ret(a) \in Entry
    /\ \A slot, size \in Nat : Seal(slot, size) \in Entry
    /\ \A slot \in Nat : Switch(slot) \in Entry
  BY DEF Entry, Ret, Seal, Switch

\* GCSPush on a storage.
LEMMA Pushed ==
    ASSUME NEW q \in Seq(Entry), NEW e \in Entry
    PROVE  /\ Append(q, e) \in Seq(Entry) /\ Len(Append(q, e)) = Len(q) + 1
           /\ DOMAIN Append(q, e) = 1 .. Len(q) + 1
           /\ DOMAIN q = 1 .. Len(q) /\ Len(q) \in Nat
           /\ Append(q, e)[Len(q) + 1] = e
           /\ \A k \in DOMAIN q : Append(q, e)[k] = q[k]
  BY AppendProperties

\* GCSPop drops the last entry and keeps the others.
LEMMA Popped ==
    ASSUME NEW q \in Seq(Entry)
    PROVE  /\ GCSPop(q) \in Seq(Entry)
           /\ DOMAIN q = 1 .. Len(q) /\ Len(q) \in Nat
           /\ q # <<>> => Len(q) > 0 /\ Len(GCSPop(q)) = Len(q) - 1
           /\ q = <<>> => GCSPop(q) = q
           /\ DOMAIN GCSPop(q) = 1 .. Len(GCSPop(q))
           /\ Len(GCSPop(q)) <= Len(q)
           /\ \A k \in DOMAIN GCSPop(q) : k \in DOMAIN q /\ GCSPop(q)[k] = q[k]
  <1>1. CASE q = <<>>
    BY <1>1 DEF GCSPop
  <1>2. CASE q # <<>>
    <2> DEFINE n == Len(q) - 1
    <2>1. n \in Nat /\ Len(q) = n + 1 /\ DOMAIN q = 1 .. Len(q)
      BY <1>2
    <2>2. GCSPop(q) = SubSeq(q, 1, n)
      BY <1>2 DEF GCSPop, Front
    <2> HIDE DEF n
    <2>3. \A i \in 1 .. n : q[i] \in Entry
      BY <2>1
    <2>4. /\ SubSeq(q, 1, n) \in Seq(Entry)
          /\ Len(SubSeq(q, 1, n)) = IF 1 <= n THEN n - 1 + 1 ELSE 0
          /\ \A i \in 1 .. n - 1 + 1 : SubSeq(q, 1, n)[i] = q[1 + i - 1]
      BY <2>1, <2>3, SubSeqProperties
    <2>5. Len(SubSeq(q, 1, n)) = n /\ \A i \in 1 .. n : SubSeq(q, 1, n)[i] = q[i]
      BY <2>1, <2>4
    <2>6. DOMAIN SubSeq(q, 1, n) = 1 .. n
      BY <2>4, <2>5
    <2>7. QED
      BY <1>2, <2>1, <2>2, <2>4, <2>5, <2>6
  <1>3. QED
    BY <1>1, <1>2

\* The slot that AllocateStack takes is free or new.
LEMMA FirstSlotFree ==
    ASSUME NEW st \in Seq(Storages \cup {0})
    PROVE  /\ FirstFreeSlot(st) \in 1 .. Len(st) + 1
           /\ FirstFreeSlot(st) <= Len(st) => st[FirstFreeSlot(st)] = 0
  <1> DEFINE free == {k \in 1 .. Len(st) : st[k] = 0}
  <1>1. CASE free = {}
    BY <1>1 DEF FirstFreeSlot
  <1>2. CASE free # {}
    <2>1. \E k \in free : \A j \in free : k <= j
      <3>1. free \subseteq Nat
        OBVIOUS
      <3> HIDE DEF free
      <3>2. QED
        BY <1>2, <3>1, LeastNumber
    <2>2. FirstFreeSlot(st) = CHOOSE k \in free : \A j \in free : k <= j
      BY <1>2 DEF FirstFreeSlot
    <2>3. FirstFreeSlot(st) \in free
      <3> HIDE DEF free
      <3> QED BY <2>1, <2>2
    <2>4. QED
      BY <2>3
  <1>3. QED
    BY <1>1, <1>2

\* A new storage i in a free slot, with contents q.
NewStorage(slot, i, q) ==
    /\ slot = FirstFreeSlot(stacks) /\ i = used + 1 /\ i \in Storages
    /\ stacks' = PutAt(stacks, slot, i)
    /\ heap' = With(heap, i, q)
    /\ used' = i

\* What it does, entry by entry.
Bounds(slot, i) ==
    /\ slot \in Nat \ {0} /\ slot <= Len(stacks')
    /\ Len(stacks) \in Nat /\ Len(stacks') \in Nat /\ Len(stacks) <= Len(stacks')
    /\ i \in Nat \ {0} /\ i = used + 1 /\ used' = i /\ i \notin DOMAIN heap

Placed(slot, i) ==
    /\ DOMAIN stacks' = DOMAIN stacks \cup {slot}
    /\ stacks'[slot] = i
    /\ \A k \in DOMAIN stacks : k # slot => stacks'[k] = stacks[k]
    /\ slot \in DOMAIN stacks => stacks[slot] = 0

Filled(i, q) ==
    /\ DOMAIN heap' = DOMAIN heap \cup {i}
    /\ heap'[i] = q
    /\ \A j \in DOMAIN heap : heap'[j] = heap[j]

LEMMA NewTable ==
    ASSUME StacksTyped, UsedTyped, HeapTyped,
           NEW slot, NEW i, NEW q \in Seq(Entry), NewStorage(slot, i, q)
    PROVE  /\ Bounds(slot, i) /\ Placed(slot, i) /\ Filled(i, q)
           /\ StacksTyped' /\ UsedTyped' /\ HeapTyped'
  <1>1. /\ slot \in 1 .. Len(stacks) + 1 /\ Len(stacks) \in Nat
        /\ slot <= Len(stacks) => stacks[slot] = 0
    BY FirstSlotFree DEF StacksTyped, NewStorage
  <1>2. /\ i = used + 1 /\ used' = i /\ i \in Nat \ {0} /\ i \in Storages
        /\ i \notin DOMAIN heap
    BY DEF NewStorage, UsedTyped, HeapTyped
  <1>3. Filled(i, q)
    BY <1>2 DEF NewStorage, With, Filled
  <1>4. UsedTyped' /\ HeapTyped'
    BY <1>2, <1>3 DEF UsedTyped, HeapTyped, Filled
  <1>5. CASE slot <= Len(stacks)
    <2>1. stacks' = [stacks EXCEPT ![slot] = i] /\ slot \in 1 .. Len(stacks)
      BY <1>1, <1>5 DEF NewStorage, PutAt
    <2>2. /\ stacks' \in Seq(Storages \cup {0}) /\ Len(stacks') = Len(stacks)
          /\ DOMAIN stacks' = DOMAIN stacks /\ slot \in DOMAIN stacks
          /\ stacks'[slot] = i
          /\ \A k \in DOMAIN stacks : k # slot => stacks'[k] = stacks[k]
      BY <1>2, <2>1 DEF StacksTyped
    <2>3. QED
      BY <1>1, <1>2, <1>3, <1>4, <2>1, <2>2 DEF StacksTyped, Bounds, Placed
  <1>6. CASE ~(slot <= Len(stacks))
    <2>1. stacks' = Append(stacks, i) /\ slot = Len(stacks) + 1
      BY <1>1, <1>6 DEF NewStorage, PutAt
    <2>2. /\ stacks' \in Seq(Storages \cup {0})
          /\ Len(stacks') = Len(stacks) + 1
          /\ DOMAIN stacks' = 1 .. Len(stacks) + 1 /\ DOMAIN stacks = 1 .. Len(stacks)
          /\ stacks'[Len(stacks) + 1] = i
          /\ \A k \in DOMAIN stacks : stacks'[k] = stacks[k]
      BY <1>1, <1>2, <2>1, AppendProperties DEF StacksTyped
    <2>3. QED
      BY <1>1, <1>2, <1>3, <1>4, <2>1, <2>2 DEF StacksTyped, Bounds, Placed
  <1>7. QED
    BY <1>5, <1>6

\* Deleting the storage p of a slot.
DropStorage(slot, p) ==
    /\ slot \in DOMAIN stacks /\ stacks[slot] = p /\ p # 0
    /\ stacks' = Freed(stacks, slot)
    /\ heap' = Without(heap, p)
    /\ used' = used

Cleared(slot, p) ==
    /\ Len(stacks') = Len(stacks)
    /\ DOMAIN stacks' = DOMAIN stacks
    /\ slot \in DOMAIN stacks /\ stacks[slot] = p /\ p # 0
    /\ stacks'[slot] = 0
    /\ \A k \in DOMAIN stacks : k # slot => stacks'[k] = stacks[k]

Deleted(p) ==
    /\ DOMAIN heap' = DOMAIN heap \ {p}
    /\ \A j \in DOMAIN heap' : heap'[j] = heap[j]

LEMMA DropTable ==
    ASSUME StacksTyped, UsedTyped, HeapTyped, NEW slot, NEW p, DropStorage(slot, p)
    PROVE  /\ Cleared(slot, p) /\ Deleted(p)
           /\ StacksTyped' /\ UsedTyped' /\ HeapTyped' /\ used' = used
  <1>1. Deleted(p)
    BY DEF DropStorage, Without, Deleted
  <1>2. HeapTyped' /\ UsedTyped' /\ used' = used
    BY <1>1 DEF HeapTyped, UsedTyped, DropStorage, Deleted
  <1>3. /\ slot \in DOMAIN stacks /\ stacks[slot] = p /\ p # 0
        /\ stacks' = [stacks EXCEPT ![slot] = 0]
    BY DEF DropStorage, Freed
  <1>4. /\ stacks' \in Seq(Storages \cup {0}) /\ Len(stacks') = Len(stacks)
        /\ DOMAIN stacks' = DOMAIN stacks /\ stacks'[slot] = 0
        /\ \A k \in DOMAIN stacks : k # slot => stacks'[k] = stacks[k]
    BY <1>3 DEF StacksTyped
  <1>5. QED
    BY <1>1, <1>2, <1>3, <1>4 DEF StacksTyped, Cleared

-----------------------------------------------------------------------------
(***************************************************************************)
(* Who has what.                                                           *)
(***************************************************************************)
LEMMA RecordTypes ==
    /\ NoValue \in ValueRecord /\ NoGcs \in GcsRecord /\ Zero \in Entry
    /\ \A where \in Places, rt \in ValueRecord, seal \in Entry, other \in GcsRecord :
          At(where, rt, seal, other) \in StepRecord
    /\ AtGuest \in StepRecord /\ AtReset \in StepRecord /\ AtUnseal \in StepRecord
  BY DEF NoValue, Value, ValueRecord, NoGcs, GcsRecord, Zero, Entry, At, StepRecord,
         AtGuest, AtReset, AtUnseal, Places

LEMMA ClaimsDiffer ==
    /\ \A s, t : RunBy(s) = RunBy(t) => s = t
    /\ \A s, t : OtherOf(s) = OtherOf(t) => s = t
    /\ \A i, n, j, k : TokenAt(i, n) = TokenAt(j, k) => i = j /\ n = k
    /\ \A m, n : ValueOf(m) = ValueOf(n) => m = n
    /\ \A s : RunBy(s).by = "run" /\ OtherOf(s).by = "other" /\ ValueOf(s).by = "value"
    /\ \A i, n : TokenAt(i, n).by = "token"
  BY DEF RunBy, OtherOf, TokenAt, ValueOf, Claim

LEMMA PtrTypes ==
    ASSUME Typed
    PROVE  used \in Nat /\ \A t \in Sims : gcs[t].ptr \in Nat /\ gcs[t].token \in Nat
  <1>1. \A t \in Sims : gcs[t] \in GcsRecord
    BY DEF Typed, GcsTyped
  <1>a. \A r \in GcsRecord : r.ptr \in {0} \cup Storages /\ r.token \in Nat
    BY DEF GcsRecord
  <1>b. {0} \cup Storages \subseteq Nat
    BY StoragesNat
  <1>2. \A t \in Sims : gcs[t].ptr \in Nat /\ gcs[t].token \in Nat
    BY <1>1, <1>a, <1>b
  <1>3. QED
    BY <1>2 DEF Typed, UsedTyped

\* A Simulator that is on a stack has it in the table, alone.
LEMMA OnItsOwn ==
    ASSUME Table, Typed, NEW h, RunsTracked(h), NEW s \in Sims, On(s)
    PROVE  /\ gcs[s].token \in DOMAIN stacks /\ gcs[s].ptr # 0
           /\ stacks[gcs[s].token] = gcs[s].ptr /\ HasStack(gcs[s].token)
           /\ h[gcs[s].token] = RunBy(s) /\ gcs[s].token \in Nat
           /\ gcs[s].ptr \in DOMAIN heap /\ heap[gcs[s].ptr] \in Seq(Entry)
           /\ ~Dangles(s)
           /\ \A t \in Sims : On(t) /\ gcs[t].ptr = gcs[s].ptr => t = s
  <1>1. /\ gcs[s].token \in DOMAIN stacks /\ gcs[s].ptr # 0
        /\ stacks[gcs[s].token] = gcs[s].ptr /\ HasStack(gcs[s].token)
        /\ h[gcs[s].token] = RunBy(s)
    BY DEF RunsTracked, HasStack
  <1>2. gcs[s].token \in Nat
    BY DEF Typed, GcsTyped, GcsRecord
  <1>3. gcs[s].ptr \in DOMAIN heap
    BY <1>1 DEF Table
  <1>4. heap[gcs[s].ptr] \in Seq(Entry)
    BY <1>3 DEF Typed, HeapTyped
  <1>5. ASSUME NEW t \in Sims, On(t), gcs[t].ptr = gcs[s].ptr
        PROVE  t = s
    <2>1. /\ gcs[t].token \in DOMAIN stacks /\ stacks[gcs[t].token] = gcs[s].ptr
          /\ h[gcs[t].token] = RunBy(t)
      BY <1>5 DEF RunsTracked, HasStack
    <2>2. gcs[t].token = gcs[s].token
      BY <1>1, <2>1 DEF Table
    <2>3. QED
      BY <1>1, <2>1, <2>2 DEF RunBy, Claim
  <1>6. QED
    BY <1>1, <1>2, <1>3, <1>4, <1>5 DEF Dangles

\* The stack of a value is one that no Simulator is on.
LEMMA ValueApart ==
    ASSUME Table, NEW h, RunsTracked(h), ValuesTracked(h), NEW s \in Sims, On(s),
           NEW v \in held
    PROVE  stacks[v.slot] # gcs[s].ptr /\ v.slot # gcs[s].token
  <1>1. /\ gcs[s].token \in DOMAIN stacks /\ stacks[gcs[s].token] = gcs[s].ptr
        /\ gcs[s].ptr # 0 /\ h[gcs[s].token] = RunBy(s)
    BY DEF RunsTracked, HasStack
  <1>2. v.slot \in DOMAIN stacks /\ h[v.slot] = ValueOf(v.size)
    BY DEF ValuesTracked, HasStack
  <1>3. v.slot # gcs[s].token
    BY <1>1, <1>2 DEF RunBy, ValueOf, Claim
  <1>4. QED
    BY <1>1, <1>2, <1>3 DEF Table

\* Taking a slot for another claim leaves the claims on the other slots.
Reclaimed(h, k, c) == [j \in Nat |-> IF j = k THEN c ELSE h[j]]

LEMMA ReclaimedAt ==
    ASSUME NEW h, NEW k \in Nat, NEW c
    PROVE  /\ Reclaimed(h, k, c)[k] = c
           /\ \A j \in Nat : j # k => Reclaimed(h, k, c)[j] = h[j]
  BY DEF Reclaimed

-----------------------------------------------------------------------------
(***************************************************************************)
(* A step that writes the storage a Simulator is on.                       *)
(***************************************************************************)
WroteTo(h, s, q, where) ==
    /\ Typed' /\ Table' /\ Quiet' /\ ValuesHonoured'
    /\ RunsTracked(h)' /\ ValuesTracked(h)'
    /\ step'[s] = where /\ gcs' = gcs /\ stacks' = stacks /\ held' = held
    /\ DOMAIN heap' = DOMAIN heap /\ heap'[gcs[s].ptr] = q
    /\ \A j \in DOMAIN heap : j # gcs[s].ptr => heap'[j] = heap[j]
    /\ \A t \in Sims : t # s => step'[t] = step[t]
    /\ \A t \in Sims : On(t)' = On(t)
    /\ (Local(where, gcs[s], q) => Locals')

LEMMA Wrote ==
    ASSUME GcsInv, NEW h, Tracked(h), NEW s \in Sims, On(s), NEW q \in Seq(Entry),
           NEW where \in StepRecord, where.at # "reset", Write(s, q, where)
    PROVE  WroteTo(h, s, q, where)
  <1>0. /\ Typed /\ Table /\ Quiet /\ Locals /\ ValuesHonoured /\ RunsTracked(h)
        /\ ValuesTracked(h)
    BY DEF GcsInv, Tracked
  <1>1. /\ gcs[s].ptr \in DOMAIN heap
        /\ \A t \in Sims : On(t) /\ gcs[t].ptr = gcs[s].ptr => t = s
    BY <1>0, OnItsOwn
  <1>2. /\ heap' = [heap EXCEPT ![gcs[s].ptr] = q] /\ step' = [step EXCEPT ![s] = where]
        /\ gcs' = gcs /\ stacks' = stacks /\ held' = held /\ used' = used
        /\ aborted' = aborted
    BY DEF Write
  <1>3. /\ DOMAIN heap' = DOMAIN heap /\ heap'[gcs[s].ptr] = q
        /\ \A j \in DOMAIN heap : j # gcs[s].ptr => heap'[j] = heap[j]
    BY <1>1, <1>2
  <1>4. step'[s] = where /\ \A t \in Sims : t # s => step'[t] = step[t]
    BY <1>0, <1>2 DEF Typed, StepTyped
  <1>5. Typed'
    <2>1. HeapTyped'
      BY <1>0, <1>2, <1>3 DEF Typed, HeapTyped
    <2>2. StepTyped'
      BY <1>0, <1>2 DEF Typed, StepTyped
    <2>3. QED
      BY <1>0, <1>2, <2>1, <2>2
      DEF Typed, StacksTyped, UsedTyped, GcsTyped, HeldTyped
  <1>6. \A t \in Sims : Alive(t)' = Alive(t) /\ On(t)' = On(t)
    BY <1>2, <1>4 DEF On, Alive
  <1>7. Table' /\ ValuesHonoured'
    BY <1>0, <1>2, <1>3 DEF Table, ValuesHonoured
  <1>8. Quiet'
    BY <1>0, <1>2, <1>3, <1>4, <1>6 DEF Quiet, On
  <1>9. RunsTracked(h)'
    BY <1>0, <1>2, <1>6 DEF RunsTracked, HasStack
  <1>10. ValuesTracked(h)'
    <2>1. ASSUME NEW v \in held
          PROVE  heap'[stacks[v.slot]] = heap[stacks[v.slot]]
      <3>1. stacks[v.slot] # gcs[s].ptr
        BY <1>0, ValueApart
      <3>2. stacks[v.slot] \in DOMAIN heap
        BY <1>0 DEF ValuesTracked, HasStack, Table
      <3>3. QED
        BY <1>3, <3>1, <3>2
    <2>2. QED
      BY <1>0, <1>2, <2>1 DEF ValuesTracked, HasStack
  <1>11. ASSUME Local(where, gcs[s], q)
         PROVE  Locals'
    <2>1. SUFFICES ASSUME NEW t \in Sims, On(t)
                   PROVE  Local(step'[t], gcs[t], heap'[gcs[t].ptr])
      BY <1>2, <1>6 DEF Locals
    <2>2. CASE t = s
      BY <1>3, <1>4, <1>11, <2>2
    <2>3. CASE t # s
      <3>1. gcs[t].ptr \in DOMAIN heap /\ gcs[t].ptr # gcs[s].ptr
        BY <1>0, <1>1, <2>1, <2>3, OnItsOwn
      <3>2. heap'[gcs[t].ptr] = heap[gcs[t].ptr] /\ step'[t] = step[t]
        BY <1>3, <1>4, <2>3, <3>1
      <3>3. QED
        BY <1>0, <2>1, <3>2 DEF Locals
    <2>4. QED
      BY <2>2, <2>3
  <1>12. QED
    BY <1>2, <1>3, <1>4, <1>5, <1>6, <1>7, <1>8, <1>9, <1>10, <1>11 DEF WroteTo

\* The claims stay as they are: what was pushed is no token, and the Simulator
\* has the same other stack as before, or none.
LEMMA WroteSame ==
    ASSUME GcsInv, NEW h, Tracked(h), NEW s \in Sims, On(s), NEW q \in Seq(Entry),
           NEW where \in StepRecord, where.at # "reset", Write(s, q, where),
           Local(where, gcs[s], q),
           \A k \in DOMAIN q : q[k].kind = "switch" =>
              k \in DOMAIN heap[gcs[s].ptr] /\ heap[gcs[s].ptr][k] = q[k],
           \/ where.at = "guest"
           \/ /\ Switching(s) /\ where.other = step[s].other
              /\ step[s].at # "ss2 activate" /\ where.at # "ss2 activate"
    PROVE  GcsInv'
  <1>a. WroteTo(h, s, q, where)
    BY Wrote
  <1>1. /\ Typed' /\ Table' /\ Quiet' /\ ValuesHonoured' /\ Locals'
        /\ RunsTracked(h)' /\ ValuesTracked(h)'
    BY <1>a DEF WroteTo
  <1>2. /\ step'[s] = where /\ gcs' = gcs /\ stacks' = stacks
        /\ DOMAIN heap' = DOMAIN heap /\ heap'[gcs[s].ptr] = q
        /\ \A j \in DOMAIN heap : j # gcs[s].ptr => heap'[j] = heap[j]
        /\ \A t \in Sims : t # s => step'[t] = step[t]
    BY <1>a DEF WroteTo
  <1>3. OthersTracked(h)'
    <2>1. SUFFICES ASSUME NEW t \in Sims, Switching(t)'
                   PROVE  /\ HasStack(step'[t].other.token)
                          /\ h[step'[t].other.token] = OtherOf(t)
                          /\ step'[t].at # "ss2 activate" =>
                               stacks[step'[t].other.token] = step'[t].other.ptr
      BY <1>2 DEF OthersTracked, HasStack
    <2>2. CASE t = s
      <3>1. Switching(s) /\ step'[s].other = step[s].other /\ step[s].at # "ss2 activate"
        BY <1>2, <2>1, <2>2 DEF Switching
      <3>2. QED
        BY <2>2, <3>1 DEF Tracked, OthersTracked
    <2>3. CASE t # s
      <3>1. Switching(t) /\ step'[t] = step[t]
        BY <1>2, <2>1, <2>3 DEF Switching
      <3>2. QED
        BY <3>1 DEF Tracked, OthersTracked
    <2>4. QED
      BY <2>2, <2>3
  <1>4. TokensTracked(h)'
    <2>1. SUFFICES ASSUME NEW i \in DOMAIN heap, NEW k \in DOMAIN heap'[i],
                          heap'[i][k].kind = "switch"
                   PROVE  /\ heap'[i][k].at \in Nat /\ HasStack(heap'[i][k].at)
                          /\ h[heap'[i][k].at] = TokenAt(i, k)
      BY <1>2 DEF TokensTracked, HasStack
    <2>2. k \in DOMAIN heap[i] /\ heap[i][k] = heap'[i][k]
      BY <1>2, <2>1
    <2>3. QED
      BY <2>1, <2>2 DEF Tracked, TokensTracked
  <1>5. QED
    BY <1>1, <1>3, <1>4 DEF GcsInv, Tracked

-----------------------------------------------------------------------------
(***************************************************************************)
(* The guest's operations on the stack it is on.                           *)
(***************************************************************************)
LEMMA AbortKeeps ==
    ASSUME GcsInv, Abort("gcs")
    PROVE  GcsInv'
  <1>1. /\ UNCHANGED <<stacks, heap, used, gcs, step, held>> /\ ValuesHonoured'
    BY DEF Abort, ValuesHonoured
  <1>2. Typed' /\ Table'
    BY <1>1 DEF GcsInv, Typed, StacksTyped, UsedTyped, HeapTyped, GcsTyped, StepTyped,
                HeldTyped, Table
  <1>3. Quiet' /\ Locals'
    BY <1>1 DEF GcsInv, Quiet, Locals, Alive, On
  <1>4. \A h : Tracked(h) => Tracked(h)'
    BY <1>1 DEF Tracked, RunsTracked, OthersTracked, TokensTracked, ValuesTracked, On, Alive,
                HasStack, Switching
  <1>5. QED
    BY <1>1, <1>2, <1>3, <1>4 DEF GcsInv

LEMMA GuestIsOn ==
    ASSUME NEW s \in Sims, NEW where, Reaches(s, where), where # "reset"
    PROVE  On(s) /\ step[s].at = where /\ aborted = "no"
  BY DEF Reaches, On

LEMMA AtGuestIs == AtGuest.at = "guest" /\ AtGuest \in StepRecord
  BY RecordTypes DEF AtGuest, At

LEMMA LocalGuest ==
    ASSUME NEW g, NEW q
    PROVE  Local(AtGuest, g, q)
  BY AtGuestIs DEF Local

LEMMA GCSPushKeeps ==
    ASSUME GcsInv, NEW s \in Sims, NEW e \in Pushable, GCSPush(s, e)
    PROVE  GcsInv'
  <1>1. On(s)
    BY GuestIsOn DEF GCSPush, Running
  <1>2. PICK h : Tracked(h)
    BY DEF GcsInv
  <1>3. Mine(s) \in Seq(Entry) /\ ~Dangles(s)
    BY <1>1, <1>2, OnItsOwn DEF GcsInv, Tracked, Mine
  <1>4. e \in Entry /\ e.kind # "switch"
    BY EntryTypes, GuestAssumption DEF Pushable, Ret
  <1>5. Write(s, Append(Mine(s), e), AtGuest)
    BY <1>3 DEF GCSPush
  <1>6. /\ Append(Mine(s), e) \in Seq(Entry)
        /\ \A k \in DOMAIN Append(Mine(s), e) :
             Append(Mine(s), e)[k].kind = "switch" =>
                k \in DOMAIN Mine(s) /\ Mine(s)[k] = Append(Mine(s), e)[k]
    BY <1>3, <1>4, Pushed
  <1>7. QED
    BY <1>1, <1>2, <1>5, <1>6, AtGuestIs, LocalGuest, WroteSame DEF Mine

\* GCSPop, on the way to where.
LEMMA PopKeeps ==
    ASSUME GcsInv, NEW s \in Sims, On(s), NEW where \in StepRecord, where.at # "reset",
           Write(s, GCSPop(Mine(s)), where), Local(where, gcs[s], GCSPop(Mine(s))),
           \/ where.at = "guest"
           \/ /\ Switching(s) /\ where.other = step[s].other
              /\ step[s].at # "ss2 activate" /\ where.at # "ss2 activate"
    PROVE  GcsInv'
  <1>1. PICK h : Tracked(h)
    BY DEF GcsInv
  <1>2. Mine(s) \in Seq(Entry)
    BY <1>1, OnItsOwn DEF GcsInv, Tracked, Mine
  <1>3. /\ GCSPop(Mine(s)) \in Seq(Entry)
        /\ \A k \in DOMAIN GCSPop(Mine(s)) :
             k \in DOMAIN Mine(s) /\ Mine(s)[k] = GCSPop(Mine(s))[k]
    BY <1>2, Popped
  <1>4. QED
    BY <1>1, <1>3, WroteSame DEF Mine

LEMMA ReturnKeeps ==
    ASSUME GcsInv, NEW s \in Sims, NEW addr, Return(s, addr)
    PROVE  GcsInv'
  <1>1. On(s)
    BY GuestIsOn DEF Return, Running
  <1>2. CASE Abort("gcs")
    BY <1>2, AbortKeeps
  <1>3. CASE Write(s, GCSPop(Mine(s)), AtGuest)
    BY <1>1, <1>3, AtGuestIs, LocalGuest, PopKeeps
  <1>4. QED
    BY <1>2, <1>3 DEF Return

LEMMA GCSPopMKeeps ==
    ASSUME GcsInv, NEW s \in Sims, GCSPopM(s)
    PROVE  GcsInv'
  <1>1. On(s)
    BY GuestIsOn DEF GCSPopM, Running
  <1>2. QED
    BY <1>1, AtGuestIs, LocalGuest, PopKeeps DEF GCSPopM

LEMMA NeverDangles ==
    ASSUME GcsInv, NEW s \in Sims, On(s)
    PROVE  ~Dangles(s) /\ Mine(s) \in Seq(Entry)
  BY OnItsOwn DEF GcsInv, Tracked, Mine

LEMMA RemoveSealKeeps ==
    ASSUME GcsInv, NEW s \in Sims, RemoveSeal(s)
    PROVE  GcsInv'
  <1>1. On(s)
    BY GuestIsOn DEF RemoveSeal
  <1>2. Write(s, GCSPop(Mine(s)), AtGuest)
    BY <1>1, NeverDangles DEF RemoveSeal
  <1>3. QED
    BY <1>1, <1>2, AtGuestIs, LocalGuest, PopKeeps

-----------------------------------------------------------------------------
(***************************************************************************)
(* GCSSS1.                                                                 *)
(***************************************************************************)

\* A step that changes neither the table nor the storages.
Moves(s, g, l) ==
    /\ UNCHANGED <<stacks, heap, used, aborted>>
    /\ g \in GcsRecord /\ g # NoGcs /\ gcs' = [gcs EXCEPT ![s] = g]
    /\ l \in StepRecord /\ l.at # "reset" /\ step' = [step EXCEPT ![s] = l]
    /\ held' \subseteq ValueRecord
    /\ Local(l, g, heap[g.ptr])

LEMMA StackFrame ==
    ASSUME GcsInv, NEW s \in Sims, NEW g, NEW l, Moves(s, g, l)
    PROVE  /\ Typed' /\ Table' /\ Quiet' /\ Locals' /\ ValuesHonoured'
           /\ gcs'[s] = g /\ step'[s] = l /\ Alive(s)' /\ On(s)'
           /\ \A t \in Sims : t # s =>
                /\ gcs'[t] = gcs[t] /\ step'[t] = step[t] /\ On(t)' = On(t)
                /\ Alive(t)' = Alive(t) /\ Switching(t)' = Switching(t)
  <1>0. Typed /\ Table /\ Quiet /\ Locals /\ ValuesHonoured
    BY DEF GcsInv
  <1>1. gcs'[s] = g /\ step'[s] = l /\ \A t \in Sims : t # s => gcs'[t] = gcs[t] /\ step'[t] = step[t]
    BY <1>0 DEF Typed, GcsTyped, StepTyped, Moves
  <1>2. Typed'
    BY <1>0 DEF Typed, StacksTyped, UsedTyped, HeapTyped, GcsTyped, StepTyped, HeldTyped,
              Moves
  <1>3. Table' /\ ValuesHonoured'
    BY <1>0 DEF Table, ValuesHonoured, Moves
  <1>4. /\ Alive(s)' /\ On(s)'
        /\ \A t \in Sims : t # s =>
             /\ On(t)' = On(t) /\ Alive(t)' = Alive(t) /\ Switching(t)' = Switching(t)
    BY <1>1 DEF Alive, On, Switching, Moves
  <1>5. Quiet'
    BY <1>0, <1>1, <1>4 DEF Quiet, Moves
  <1>6. Locals'
    BY <1>0, <1>1, <1>4 DEF Locals, Moves
  <1>7. QED
    BY <1>1, <1>2, <1>3, <1>4, <1>5, <1>6

\* Two slots on which only the Simulator s, or a value, had a claim change hands.
Yields(h, k, s) == h[k] = RunBy(s) \/ h[k] = OtherOf(s) \/ h[k].by = "value"

SameBut(h, h2, k, o) == \A j \in Nat : j # k /\ j # o => h2[j] = h[j]

OthersKeep(h2, s, k, o) ==
    /\ \A t \in Sims : t # s /\ On(t) => h2[gcs[t].token] = RunBy(t)
    /\ \A t \in Sims : t # s /\ Switching(t) => h2[step[t].other.token] = OtherOf(t)
    /\ TokensTracked(h2)
    /\ \A w \in held : w.slot # k /\ w.slot # o => h2[w.slot] = ValueOf(w.size)

LEMMA Handover ==
    ASSUME Typed, NEW h, Tracked(h), NEW s \in Sims, NEW k \in Nat, NEW o \in Nat,
           Yields(h, k, s), Yields(h, o, s), NEW h2, SameBut(h, h2, k, o)
    PROVE  OthersKeep(h2, s, k, o)
  <1>1. ASSUME NEW t \in Sims, t # s, On(t)
        PROVE  h2[gcs[t].token] = RunBy(t)
    <2>1. h[gcs[t].token] = RunBy(t) /\ gcs[t].token \in Nat
      BY <1>1 DEF Tracked, RunsTracked, Typed, GcsTyped, GcsRecord
    <2>2. gcs[t].token # k /\ gcs[t].token # o
      BY <1>1, <2>1 DEF RunBy, OtherOf, Claim, Yields
    <2>3. QED
      BY <2>1, <2>2 DEF SameBut
  <1>2. ASSUME NEW t \in Sims, t # s, Switching(t)
        PROVE  h2[step[t].other.token] = OtherOf(t)
    <2>1. h[step[t].other.token] = OtherOf(t) /\ step[t].other.token \in Nat
      BY <1>2 DEF Tracked, OthersTracked, Typed, StepTyped, StepRecord, GcsRecord
    <2>2. step[t].other.token # k /\ step[t].other.token # o
      BY <1>2, <2>1 DEF RunBy, OtherOf, Claim, Yields
    <2>3. QED
      BY <2>1, <2>2 DEF SameBut
  <1>3. TokensTracked(h2)
    <2>1. SUFFICES ASSUME NEW i \in DOMAIN heap, NEW n \in DOMAIN heap[i],
                          heap[i][n].kind = "switch"
                   PROVE  /\ heap[i][n].at \in Nat /\ HasStack(heap[i][n].at)
                          /\ h2[heap[i][n].at] = TokenAt(i, n)
      BY DEF TokensTracked
    <2>2. /\ heap[i][n].at \in Nat /\ HasStack(heap[i][n].at)
          /\ h[heap[i][n].at] = TokenAt(i, n)
      BY <2>1 DEF Tracked, TokensTracked
    <2>3. heap[i][n].at # k /\ heap[i][n].at # o
      BY <2>2 DEF RunBy, OtherOf, TokenAt, Claim, Yields
    <2>4. QED
      BY <2>2, <2>3 DEF SameBut
  <1>4. ASSUME NEW w \in held, w.slot # k, w.slot # o
        PROVE  h2[w.slot] = ValueOf(w.size)
    BY <1>4 DEF Tracked, ValuesTracked, Typed, HeldTyped, ValueRecord, SameBut
  <1>5. QED
    BY <1>1, <1>2, <1>3, <1>4 DEF OthersKeep

\* The step of StackFrame, with the claims that follow from h2.
Settles(h2, s, g, l, k, o) ==
    /\ HasStack(g.token) /\ stacks[g.token] = g.ptr /\ h2[g.token] = RunBy(s)
    /\ l.at # "guest" =>
         /\ HasStack(l.other.token) /\ stacks[l.other.token] = l.other.ptr
         /\ h2[l.other.token] = OtherOf(s)
    /\ \A w \in held' :
         \/ w \in held /\ w.slot # k /\ w.slot # o
         \/ /\ HasStack(w.slot) /\ h2[w.slot] = ValueOf(w.size)
            /\ Sealed(heap[stacks[w.slot]], w)

LEMMA HandoverKeeps ==
    ASSUME GcsInv, NEW h, Tracked(h), NEW s \in Sims, NEW g, NEW l, Moves(s, g, l),
           l.at \notin {"unseal", "ss2 activate"},
           NEW k \in Nat, NEW o \in Nat,
           Yields(h, k, s), Yields(h, o, s), NEW h2, SameBut(h, h2, k, o),
           Settles(h2, s, g, l, k, o)
    PROVE  GcsInv'
  <1>0. /\ Typed /\ RunsTracked(h) /\ OthersTracked(h) /\ ValuesTracked(h)
    BY DEF GcsInv, Tracked
  <1>a. UNCHANGED <<stacks, heap>> /\ l.at # "reset"
    BY DEF Moves
  <1>1. /\ Typed' /\ Table' /\ Quiet' /\ Locals' /\ ValuesHonoured'
        /\ gcs'[s] = g /\ step'[s] = l
        /\ \A t \in Sims : t # s =>
             /\ gcs'[t] = gcs[t] /\ step'[t] = step[t] /\ On(t)' = On(t)
             /\ Switching(t)' = Switching(t)
    BY StackFrame
  <1>b. OthersKeep(h2, s, k, o)
    BY <1>0, Handover
  <1>2. /\ \A t \in Sims : t # s /\ On(t) => h2[gcs[t].token] = RunBy(t)
        /\ \A t \in Sims : t # s /\ Switching(t) => h2[step[t].other.token] = OtherOf(t)
        /\ TokensTracked(h2)
        /\ \A w \in held : w.slot # k /\ w.slot # o => h2[w.slot] = ValueOf(w.size)
    BY <1>b DEF OthersKeep
  <1>3. RunsTracked(h2)'
    <2>1. SUFFICES ASSUME NEW t \in Sims, On(t)'
                   PROVE  /\ HasStack(gcs'[t].token) /\ stacks[gcs'[t].token] = gcs'[t].ptr
                          /\ h2[gcs'[t].token] = RunBy(t)
      BY <1>a DEF RunsTracked, HasStack
    <2>2. CASE t = s
      BY <1>1, <2>2 DEF Settles
    <2>3. CASE t # s
      BY <1>0, <1>1, <1>2, <2>1, <2>3 DEF RunsTracked
    <2>4. QED
      BY <2>2, <2>3
  <1>4. OthersTracked(h2)'
    <2>1. SUFFICES ASSUME NEW t \in Sims, Switching(t)'
                   PROVE  /\ HasStack(step'[t].other.token)
                          /\ h2[step'[t].other.token] = OtherOf(t)
                          /\ step'[t].at # "ss2 activate" =>
                               stacks[step'[t].other.token] = step'[t].other.ptr
      BY <1>a DEF OthersTracked, HasStack
    <2>2. CASE t = s
      <3>1. l.at # "guest"
        BY <1>1, <1>a, <2>1, <2>2 DEF Switching
      <3>2. QED
        BY <1>1, <2>2, <3>1 DEF Settles
    <2>3. CASE t # s
      BY <1>0, <1>1, <1>2, <2>1, <2>3 DEF OthersTracked
    <2>4. QED
      BY <2>2, <2>3
  <1>5. TokensTracked(h2)'
    BY <1>2, <1>a DEF TokensTracked, HasStack
  <1>6. ValuesTracked(h2)'
    <2>1. SUFFICES ASSUME NEW w \in held'
                   PROVE  /\ HasStack(w.slot) /\ h2[w.slot] = ValueOf(w.size)
                          /\ Sealed(heap[stacks[w.slot]], w)
      BY <1>a DEF ValuesTracked, HasStack
    <2>2. CASE w \in held /\ w.slot # k /\ w.slot # o
      BY <1>0, <1>2, <2>2 DEF ValuesTracked
    <2>3. QED
      BY <2>2 DEF Settles
  <1>7. QED
    BY <1>1, <1>3, <1>4, <1>5, <1>6 DEF GcsInv, Tracked

LEMMA GCSSS1ActivateKeeps ==
    ASSUME GcsInv, NEW s \in Sims, NEW v \in held, GCSSS1Activate(s, v)
    PROVE  GcsInv'
  <1>1. On(s) /\ step[s].at = "guest"
    BY GuestIsOn DEF GCSSS1Activate, Running
  <1>2. PICK h : Tracked(h)
    BY DEF GcsInv
  <1>0. Typed /\ Table /\ RunsTracked(h) /\ ValuesTracked(h)
    BY <1>2 DEF GcsInv, Tracked
  <1>3. /\ HasStack(v.slot) /\ h[v.slot] = ValueOf(v.size)
        /\ Sealed(heap[stacks[v.slot]], v) /\ v \in ValueRecord
    BY <1>0 DEF ValuesTracked, Typed, HeldTyped
  <1>4. PICK out : out = gcs[s]
    OBVIOUS
  <1>5. PICK g : g = [ptr |-> stacks[v.slot], token |-> v.slot]
    OBVIOUS
  <1> DEFINE l == At("ss1 read", v, Zero, out)
             h2 == Reclaimed(Reclaimed(h, v.slot, RunBy(s)), out.token, OtherOf(s))
  <1>6. /\ gcs' = [gcs EXCEPT ![s] = g] /\ step' = [step EXCEPT ![s] = l]
        /\ held' = held \ {v} /\ UNCHANGED <<stacks, heap, used, aborted>>
    BY <1>3, <1>4, <1>5 DEF GCSSS1Activate
  <1>7. g \in GcsRecord /\ g # NoGcs /\ v.slot \in Nat /\ v.size \in Nat
    BY <1>0, <1>3, <1>5 DEF HasStack, Typed, StacksTyped, GcsRecord, NoGcs, ValueRecord
  <1>8. /\ out \in GcsRecord /\ l \in StepRecord /\ l.at = "ss1 read" /\ l.rt = v
        /\ l.other = out
    BY <1>0, <1>3, <1>4, RecordTypes DEF Typed, GcsTyped, At, Places
  <1>9. Local(l, g, heap[g.ptr])
    BY <1>3, <1>5, <1>8 DEF Local
  <1>10. /\ out.token \in Nat /\ HasStack(out.token) /\ stacks[out.token] = out.ptr
         /\ h[out.token] = RunBy(s) /\ out.token # v.slot
    BY <1>0, <1>1, <1>4, OnItsOwn, ValueApart
  <1>11. /\ h2[out.token] = OtherOf(s) /\ h2[v.slot] = RunBy(s)
         /\ SameBut(h, h2, v.slot, out.token)
    BY <1>7, <1>10 DEF Reclaimed, SameBut
  <1>12. Yields(h, v.slot, s) /\ Yields(h, out.token, s)
    BY <1>3, <1>10 DEF ValueOf, Claim, Yields
  <1>13. ASSUME NEW w \in held, w # v
         PROVE  w.slot # v.slot /\ w.slot # out.token
    <2>1. h[w.slot] = ValueOf(w.size) /\ w \in ValueRecord
      BY <1>0 DEF ValuesTracked, Typed, HeldTyped
    <2>2. w.slot # out.token
      BY <1>10, <2>1 DEF RunBy, ValueOf, Claim
    <2>3. w.slot # v.slot
      BY <1>3, <1>13, <2>1 DEF ValueOf, Claim, ValueRecord
    <2>4. QED
      BY <2>2, <2>3
  <1>14. held' \subseteq ValueRecord
    BY <1>0, <1>6 DEF Typed, HeldTyped
  <1>15. Moves(s, g, l)
    BY <1>6, <1>7, <1>8, <1>9, <1>14 DEF Moves
  <1>16. \A w \in held' : w \in held /\ w.slot # v.slot /\ w.slot # out.token
    BY <1>6, <1>13
  <1>17. HasStack(g.token) /\ stacks[g.token] = g.ptr /\ h2[g.token] = RunBy(s)
    BY <1>3, <1>5, <1>11
  <1>18. /\ l.at \notin {"unseal", "ss2 activate"} /\ HasStack(l.other.token)
         /\ stacks[l.other.token] = l.other.ptr /\ h2[l.other.token] = OtherOf(s)
    BY <1>8, <1>10, <1>11
  <1>19. Settles(h2, s, g, l, v.slot, out.token)
    BY <1>16, <1>17, <1>18 DEF Settles
  <1> HIDE DEF l, h2
  <1>20. QED
    BY <1>2, <1>7, <1>10, <1>11, <1>12, <1>15, <1>18, <1>19, HandoverKeeps

\* A step that changes only where the Simulator is, in the same instruction.
LEMMA StepKeeps ==
    ASSUME GcsInv, NEW s \in Sims, On(s), Switching(s), step[s].at # "ss2 activate",
           UNCHANGED <<stacks, heap, used, gcs, held, aborted>>,
           NEW l \in StepRecord, step' = [step EXCEPT ![s] = l],
           l.at \notin {"reset", "ss2 activate"}, l.other = step[s].other,
           Local(l, gcs[s], heap[gcs[s].ptr])
    PROVE  GcsInv'
  <1>1. PICK h : Tracked(h)
    BY DEF GcsInv
  <1>0. /\ Typed /\ Table /\ RunsTracked(h) /\ OthersTracked(h) /\ TokensTracked(h)
        /\ ValuesTracked(h)
    BY <1>1 DEF GcsInv, Tracked
  <1>2. /\ gcs[s] \in GcsRecord /\ gcs' = [gcs EXCEPT ![s] = gcs[s]] /\ gcs[s] # NoGcs
        /\ held' \subseteq ValueRecord
    BY <1>0 DEF Typed, GcsTyped, HeldTyped, On, Alive
  <1>3. /\ Typed' /\ Table' /\ Quiet' /\ Locals' /\ ValuesHonoured'
        /\ step'[s] = l /\ On(s)'
        /\ \A t \in Sims : t # s =>
             step'[t] = step[t] /\ On(t)' = On(t) /\ Switching(t)' = Switching(t)
    <2>1. PICK g : g = gcs[s]
      OBVIOUS
    <2>3. Moves(s, g, l)
      BY <1>2, <2>1 DEF Moves
    <2>4. /\ Typed' /\ Table' /\ Quiet' /\ Locals' /\ ValuesHonoured'
          /\ gcs'[s] = g /\ step'[s] = l /\ Alive(s)' /\ On(s)'
          /\ \A t \in Sims : t # s =>
               /\ gcs'[t] = gcs[t] /\ step'[t] = step[t] /\ On(t)' = On(t)
               /\ Alive(t)' = Alive(t) /\ Switching(t)' = Switching(t)
      BY <2>3, StackFrame, Zenon
    <2>2. QED
      BY <2>4
  <1>4. RunsTracked(h)'
    <2>1. \A t \in Sims : On(t)' => On(t)
      BY <1>3
    <2>2. gcs' = gcs /\ stacks' = stacks
      OBVIOUS
    <2>3. QED
      BY <1>0, <2>1, <2>2 DEF RunsTracked, HasStack
  <1>5. OthersTracked(h)'
    <2>1. SUFFICES ASSUME NEW t \in Sims, Switching(t)'
                   PROVE  /\ HasStack(step'[t].other.token)
                          /\ h[step'[t].other.token] = OtherOf(t)
                          /\ step'[t].at # "ss2 activate" =>
                               stacks[step'[t].other.token] = step'[t].other.ptr
      BY DEF OthersTracked, HasStack
    <2>2. /\ Switching(t) /\ step'[t].other = step[t].other
          /\ step'[t].at # "ss2 activate" => step[t].at # "ss2 activate"
      BY <1>3, <2>1
    <2>3. QED
      BY <1>0, <2>2 DEF OthersTracked
  <1>6. TokensTracked(h)' /\ ValuesTracked(h)'
    BY <1>0 DEF TokensTracked, ValuesTracked, HasStack
  <1>7. QED
    BY <1>3, <1>4, <1>5, <1>6 DEF GcsInv, Tracked

LEMMA StepFields ==
    ASSUME Typed, NEW s \in Sims
    PROVE  /\ step[s].rt \in ValueRecord /\ step[s].seal \in Entry
           /\ step[s].other \in GcsRecord /\ step[s].other.token \in Nat
           /\ step[s].rt.slot \in Nat /\ step[s].rt.size \in Nat
  BY DEF Typed, StepTyped, StepRecord, GcsRecord, ValueRecord

\* The stack that GCSSS1 is on has the seal on top.
LEMMA SealOnTop ==
    ASSUME NEW q \in Seq(Entry), NEW v \in ValueRecord, Sealed(q, v)
    PROVE  /\ q # <<>> /\ Last(q) = Seal(v.slot, v.size)
           /\ Len(GCSPop(q)) = v.size
  <1>1. q # <<>> /\ v.size \in Nat
    BY DEF Sealed, ValueRecord
  <1>2. Len(GCSPop(q)) = v.size
    BY <1>1, Popped DEF Sealed
  <1>3. QED
    BY <1>1, <1>2 DEF Sealed, Last

LEMMA GCSSS1ReadKeeps ==
    ASSUME GcsInv, NEW s \in Sims, GCSSS1Read(s)
    PROVE  GcsInv'
  <1> DEFINE l == At("ss1 pop", step[s].rt, GCSPeek(s), step[s].other)
  <1>1. On(s) /\ step[s].at = "ss1 read"
    BY GuestIsOn DEF GCSSS1Read
  <1>2. ~Dangles(s) /\ Mine(s) \in Seq(Entry) /\ Typed
    BY <1>1, NeverDangles DEF GcsInv
  <1>3. Sealed(Mine(s), step[s].rt)
    BY <1>1 DEF GcsInv, Locals, Local, Mine
  <1>4. GCSPeek(s) = Seal(step[s].rt.slot, step[s].rt.size)
    BY <1>2, <1>3, StepFields, SealOnTop DEF GCSPeek
  <1>5. step' = [step EXCEPT ![s] = l] /\ UNCHANGED <<stacks, heap, used, gcs, held, aborted>>
    BY <1>2 DEF GCSSS1Read
  <1>6. l \in StepRecord /\ l.at = "ss1 pop" /\ l.other = step[s].other
    BY <1>2, <1>4, StepFields, EntryTypes, RecordTypes DEF Places, At
  <1>7. Local(l, gcs[s], heap[gcs[s].ptr])
    BY <1>3, <1>4 DEF Local, At, Mine
  <1>8. Switching(s) /\ step[s].at # "ss2 activate"
    BY <1>1 DEF Switching
  <1> HIDE DEF l
  <1>9. QED
    BY <1>1, <1>5, <1>6, <1>7, <1>8, StepKeeps

LEMMA GCSSS1PopKeeps ==
    ASSUME GcsInv, NEW s \in Sims, GCSSS1Pop(s)
    PROVE  GcsInv'
  <1> DEFINE l == At("ss1 check", step[s].rt, step[s].seal, step[s].other)
  <1>1. On(s) /\ step[s].at = "ss1 pop"
    BY GuestIsOn DEF GCSSS1Pop
  <1>2. ~Dangles(s) /\ Mine(s) \in Seq(Entry) /\ Typed
    BY <1>1, NeverDangles DEF GcsInv
  <1>3. Sealed(Mine(s), step[s].rt) /\ step[s].seal = Seal(step[s].rt.slot, step[s].rt.size)
    BY <1>1 DEF GcsInv, Locals, Local, Mine
  <1>4. Len(GCSPop(Mine(s))) = step[s].rt.size
    BY <1>2, <1>3, StepFields, SealOnTop
  <1>5. Write(s, GCSPop(Mine(s)), l)
    BY <1>2 DEF GCSSS1Pop
  <1>6. l \in StepRecord /\ l.at = "ss1 check" /\ l.other = step[s].other
    BY <1>2, StepFields, RecordTypes DEF Places, At
  <1>7. Local(l, gcs[s], GCSPop(Mine(s)))
    BY <1>3, <1>4 DEF Local, At
  <1>8. Switching(s) /\ step[s].at # "ss2 activate"
    BY <1>1 DEF Switching
  <1> HIDE DEF l
  <1>9. QED
    BY <1>1, <1>5, <1>6, <1>7, <1>8, PopKeeps

LEMMA GCSSS1CheckKeeps ==
    ASSUME GcsInv, NEW s \in Sims, GCSSS1Check(s)
    PROVE  GcsInv'
  <1> DEFINE l == At("ss1 push", NoValue, Zero, step[s].other)
  <1>1. On(s) /\ step[s].at = "ss1 check"
    BY GuestIsOn DEF GCSSS1Check
  <1>2. ~Dangles(s) /\ Typed
    BY <1>1, NeverDangles DEF GcsInv
  <1>3. /\ step[s].seal = Seal(step[s].rt.slot, step[s].rt.size)
        /\ Len(Mine(s)) = step[s].rt.size
    BY <1>1 DEF GcsInv, Locals, Local, Mine
  <1>4. Accepts(step[s].seal, Mine(s), step[s].rt)
    BY <1>3 DEF Accepts
  <1>5. step' = [step EXCEPT ![s] = l] /\ UNCHANGED <<stacks, heap, used, gcs, held, aborted>>
    BY <1>2, <1>4 DEF GCSSS1Check
  <1>6. l \in StepRecord /\ l.at = "ss1 push" /\ l.other = step[s].other
    BY <1>2, StepFields, RecordTypes DEF Places, At
  <1>7. Local(l, gcs[s], heap[gcs[s].ptr])
    BY DEF Local, At
  <1>8. Switching(s) /\ step[s].at # "ss2 activate"
    BY <1>1 DEF Switching
  <1> HIDE DEF l
  <1>9. QED
    BY <1>1, <1>5, <1>6, <1>7, <1>8, StepKeeps

\* A slot that neither a Simulator's gcs_ nor a value names changes its claim.
LEMMA ReclaimKeeps ==
    ASSUME NEW h, Typed', RunsTracked(h)', ValuesTracked(h)', NEW o \in Nat,
           h[o].by \in {"other", "token"}, NEW h2, SameBut(h, h2, o, o)
    PROVE  RunsTracked(h2)' /\ ValuesTracked(h2)'
  <1>1. ASSUME NEW t \in Sims, On(t)'
        PROVE  h2[gcs'[t].token] = RunBy(t)
    <2>1. h[gcs'[t].token] = RunBy(t) /\ gcs'[t].token \in Nat
      BY <1>1 DEF RunsTracked, Typed, GcsTyped, GcsRecord
    <2>2. gcs'[t].token # o
      BY <2>1 DEF RunBy, Claim
    <2>3. QED
      BY <2>1, <2>2 DEF SameBut
  <1>2. ASSUME NEW w \in held'
        PROVE  h2[w.slot] = ValueOf(w.size)
    <2>1. h[w.slot] = ValueOf(w.size) /\ w.slot \in Nat
      BY <1>2 DEF ValuesTracked, Typed, HeldTyped, ValueRecord
    <2>2. w.slot # o
      BY <2>1 DEF ValueOf, Claim
    <2>3. QED
      BY <2>1, <2>2 DEF SameBut
  <1>3. RunsTracked(h2)'
    BY <1>1 DEF RunsTracked
  <1>4. ValuesTracked(h2)'
    BY <1>2 DEF ValuesTracked
  <1>5. QED
    BY <1>3, <1>4

LEMMA GCSSS1PushKeeps ==
    ASSUME GcsInv, NEW s \in Sims, GCSSS1Push(s)
    PROVE  GcsInv'
  <1>a. On(s) /\ step[s].at = "ss1 push"
    BY GuestIsOn DEF GCSSS1Push
  <1>1. On(s) /\ step[s].at = "ss1 push" /\ Switching(s)
    BY <1>a DEF Switching
  <1>2. PICK h : Tracked(h)
    BY DEF GcsInv
  <1>3. ~Dangles(s) /\ Mine(s) \in Seq(Entry) /\ Typed
    BY <1>1, NeverDangles DEF GcsInv
  <1>4. PICK p, o, n : p = gcs[s].ptr /\ o = step[s].other.token /\ n = Len(Mine(s)) + 1
    OBVIOUS
  <1>5. PICK q : q = Append(Mine(s), Switch(o))
    OBVIOUS
  <1>6. Write(s, q, AtGuest)
    BY <1>3, <1>4, <1>5 DEF GCSSS1Push
  <1>7. o \in Nat /\ HasStack(o) /\ h[o] = OtherOf(s)
    BY <1>1, <1>2, <1>3, <1>4, StepFields DEF Tracked, OthersTracked
  <1>8. /\ q \in Seq(Entry) /\ q[n] = Switch(o) /\ DOMAIN q = 1 .. n /\ n \in Nat
        /\ \A k \in DOMAIN q : k # n => k \in DOMAIN heap[p] /\ q[k] = heap[p][k]
    <2>1. PICK m : m = heap[p]
      OBVIOUS
    <2>2. m \in Seq(Entry) /\ n = Len(m) + 1
      BY <1>3, <1>4, <2>1 DEF Mine
    <2>3. PICK e : e = Switch(o)
      OBVIOUS
    <2>4. e \in Entry
      BY <1>7, <2>3, EntryTypes
    <2>5. q = Append(m, e)
      BY <1>4, <1>5, <2>1, <2>3 DEF Mine
    <2>6. /\ q \in Seq(Entry) /\ DOMAIN q = 1 .. Len(m) + 1 /\ Len(m) \in Nat
          /\ DOMAIN m = 1 .. Len(m) /\ q[Len(m) + 1] = e /\ \A k \in DOMAIN m : q[k] = m[k]
      BY <2>2, <2>4, <2>5, Pushed
    <2>7. \A k \in 1 .. Len(m) + 1 : k # Len(m) + 1 => k \in 1 .. Len(m)
      BY <2>6
    <2>8. QED
      BY <2>1, <2>2, <2>3, <2>6, <2>7
  <1>9. /\ Typed' /\ Table' /\ Quiet' /\ ValuesHonoured' /\ Locals'
        /\ RunsTracked(h)' /\ ValuesTracked(h)'
        /\ step'[s] = AtGuest /\ gcs' = gcs /\ stacks' = stacks
        /\ DOMAIN heap' = DOMAIN heap /\ heap'[p] = q
        /\ \A j \in DOMAIN heap : j # p => heap'[j] = heap[j]
        /\ \A t \in Sims : t # s => step'[t] = step[t]
    <2>1. Local(AtGuest, gcs[s], q) /\ AtGuest \in StepRecord /\ AtGuest.at # "reset"
      BY AtGuestIs, LocalGuest
    <2>2. WroteTo(h, s, q, AtGuest)
      BY <1>1, <1>2, <1>6, <1>8, <2>1, Wrote
    <2>3. QED
      BY <1>4, <2>1, <2>2 DEF WroteTo
  <1> DEFINE h2 == Reclaimed(h, o, TokenAt(p, n))
  <1>10. h2[o] = TokenAt(p, n) /\ SameBut(h, h2, o, o)
    BY <1>7 DEF Reclaimed, SameBut
  <1> HIDE DEF h2
  <1>11. RunsTracked(h2)' /\ ValuesTracked(h2)'
    <2>1. h[o].by \in {"other", "token"}
      BY <1>7 DEF OtherOf, Claim
    <2>2. QED
      BY <1>7, <1>9, <1>10, <2>1, ReclaimKeeps
  <1>12. OthersTracked(h2)'
    <2>1. SUFFICES ASSUME NEW t \in Sims, Switching(t)'
                   PROVE  /\ HasStack(step'[t].other.token)
                          /\ h2[step'[t].other.token] = OtherOf(t)
                          /\ step'[t].at # "ss2 activate" =>
                               stacks[step'[t].other.token] = step'[t].other.ptr
      BY <1>9 DEF OthersTracked, HasStack
    <2>2. t # s
      BY <1>9, <2>1, AtGuestIs DEF Switching
    <2>3. step'[t] = step[t] /\ Switching(t)
      BY <1>9, <2>1, <2>2 DEF Switching
    <2>4. /\ HasStack(step[t].other.token) /\ h[step[t].other.token] = OtherOf(t)
          /\ step[t].at # "ss2 activate" => stacks[step[t].other.token] = step[t].other.ptr
          /\ step[t].other.token \in Nat
      BY <1>2, <1>3, <2>3, StepFields DEF Tracked, OthersTracked
    <2>5. step[t].other.token # o
      BY <1>7, <2>2, <2>4, ClaimsDiffer
    <2>6. QED
      BY <1>10, <2>3, <2>4, <2>5 DEF SameBut
  <1>13. TokensTracked(h2)'
    <2>1. SUFFICES ASSUME NEW i \in DOMAIN heap, NEW k \in DOMAIN heap'[i],
                          heap'[i][k].kind = "switch"
                   PROVE  /\ heap'[i][k].at \in Nat /\ HasStack(heap'[i][k].at)
                          /\ h2[heap'[i][k].at] = TokenAt(i, k)
      BY <1>9 DEF TokensTracked, HasStack
    <2>2. CASE i = p /\ k = n
      BY <1>7, <1>8, <1>9, <1>10, <2>2 DEF Switch
    <2>3. CASE ~(i = p /\ k = n)
      <3>1. k \in DOMAIN heap[i] /\ heap'[i][k] = heap[i][k]
        BY <1>8, <1>9, <2>1, <2>3
      <3>2. /\ heap[i][k].at \in Nat /\ HasStack(heap[i][k].at)
            /\ h[heap[i][k].at] = TokenAt(i, k)
        BY <1>2, <2>1, <3>1 DEF Tracked, TokensTracked
      <3>3. heap[i][k].at # o
        BY <1>7, <3>2 DEF TokenAt, OtherOf, Claim
      <3>4. QED
        BY <1>10, <3>1, <3>2, <3>3 DEF SameBut
    <2>4. QED
      BY <2>2, <2>3
  <1>14. QED
    BY <1>9, <1>11, <1>12, <1>13 DEF GcsInv, Tracked

-----------------------------------------------------------------------------
(***************************************************************************)
(* GCSSS2.                                                                 *)
(***************************************************************************)
LEMMA GCSSS2PopKeeps ==
    ASSUME GcsInv, NEW s \in Sims, GCSSS2Pop(s)
    PROVE  GcsInv'
  <1>1. On(s) /\ step[s].at = "guest"
    BY GuestIsOn DEF GCSSS2Pop, Running
  <1>2. PICK h : Tracked(h)
    BY DEF GcsInv
  <1>3. ~Dangles(s) /\ Mine(s) \in Seq(Entry) /\ Typed /\ gcs[s].ptr \in DOMAIN heap
    BY <1>1, NeverDangles DEF GcsInv, Dangles
  <1>a. CASE GCSPeek(s).kind # "switch"
    BY <1>3, <1>a, AbortKeeps DEF GCSSS2Pop
  <1>b. CASE GCSPeek(s).kind = "switch"
    <2>1. PICK p, o, n : p = gcs[s].ptr /\ o = GCSPeek(s).at /\ n = Len(Mine(s))
      OBVIOUS
    <2>2. PICK q : q = GCSPop(Mine(s))
      OBVIOUS
    <2>3. PICK l : l = At("ss2 activate", NoValue, Zero, [ptr |-> 0, token |-> o])
      OBVIOUS
    <2>4. Write(s, q, l)
      BY <1>3, <1>b, <2>1, <2>2, <2>3 DEF GCSSS2Pop
    <2>5. /\ Mine(s) # <<>> /\ n \in DOMAIN heap[p] /\ heap[p][n].kind = "switch"
          /\ heap[p][n].at = o
      <3>1. Mine(s) # <<>> /\ GCSPeek(s) = Last(Mine(s))
        BY <1>b DEF GCSPeek, Zero
      <3>2. Last(Mine(s)) = Mine(s)[n] /\ n \in DOMAIN Mine(s)
        BY <1>3, <2>1, <3>1 DEF Last
      <3>3. QED
        BY <1>b, <2>1, <3>1, <3>2 DEF Mine
    <2>6. o \in Nat /\ HasStack(o) /\ h[o] = TokenAt(p, n)
      BY <1>2, <1>3, <2>1, <2>5 DEF Tracked, TokensTracked
    <2>7. /\ q \in Seq(Entry)
          /\ \A k \in DOMAIN q : k \in DOMAIN heap[p] /\ q[k] = heap[p][k] /\ k # n
      BY <1>3, <2>1, <2>2, <2>5, Popped DEF Mine
    <2>8. /\ l \in StepRecord /\ l.at = "ss2 activate" /\ l.other.token = o
          /\ Local(l, gcs[s], q)
      <3>1. [ptr |-> 0, token |-> o] \in GcsRecord
        BY <2>6 DEF GcsRecord
      <3>2. QED
        BY <2>3, <3>1, RecordTypes DEF Places, At, Local
    <2>9. /\ Typed' /\ Table' /\ Quiet' /\ ValuesHonoured' /\ Locals'
          /\ RunsTracked(h)' /\ ValuesTracked(h)'
          /\ step'[s] = l /\ gcs' = gcs /\ stacks' = stacks
          /\ DOMAIN heap' = DOMAIN heap /\ heap'[p] = q
          /\ \A j \in DOMAIN heap : j # p => heap'[j] = heap[j]
          /\ \A t \in Sims : t # s => step'[t] = step[t]
      <3>1. WroteTo(h, s, q, l)
        BY <1>1, <1>2, <2>4, <2>7, <2>8, Wrote
      <3>2. QED
        BY <2>1, <2>8, <3>1 DEF WroteTo
    <2> DEFINE h2 == Reclaimed(h, o, OtherOf(s))
    <2>10. h2[o] = OtherOf(s) /\ SameBut(h, h2, o, o)
      BY <2>6 DEF Reclaimed, SameBut
    <2> HIDE DEF h2
    <2>11. RunsTracked(h2)' /\ ValuesTracked(h2)'
      <3>1. h[o].by \in {"other", "token"}
        BY <2>6 DEF TokenAt, Claim
      <3>2. QED
        BY <2>6, <2>9, <2>10, <3>1, ReclaimKeeps
    <2>12. OthersTracked(h2)'
      <3>1. SUFFICES ASSUME NEW t \in Sims, Switching(t)'
                     PROVE  /\ HasStack(step'[t].other.token)
                            /\ h2[step'[t].other.token] = OtherOf(t)
                            /\ step'[t].at # "ss2 activate" =>
                                 stacks[step'[t].other.token] = step'[t].other.ptr
        BY <2>9 DEF OthersTracked, HasStack
      <3>2. CASE t = s
        BY <2>6, <2>8, <2>9, <2>10, <3>2
      <3>3. CASE t # s
        <4>1. step'[t] = step[t] /\ Switching(t)
          BY <2>9, <3>1, <3>3 DEF Switching
        <4>2. /\ HasStack(step[t].other.token) /\ h[step[t].other.token] = OtherOf(t)
              /\ step[t].at # "ss2 activate" =>
                   stacks[step[t].other.token] = step[t].other.ptr
              /\ step[t].other.token \in Nat
          <5>1. step[t].other.token \in Nat
            BY <1>3, StepFields
          <5>2. QED
            BY <1>2, <4>1, <5>1 DEF Tracked, OthersTracked
        <4>3. step[t].other.token # o
          <5>1. h[step[t].other.token].by = "other"
            BY <4>2, ClaimsDiffer
          <5>2. h[o].by = "token"
            BY <2>6, ClaimsDiffer
          <5>3. QED
            BY <5>1, <5>2
        <4>4. QED
          BY <2>10, <4>1, <4>2, <4>3 DEF SameBut
      <3>4. QED
        BY <3>2, <3>3
    <2>13. TokensTracked(h2)'
      <3>1. SUFFICES ASSUME NEW i \in DOMAIN heap, NEW k \in DOMAIN heap'[i],
                            heap'[i][k].kind = "switch"
                     PROVE  /\ heap'[i][k].at \in Nat /\ HasStack(heap'[i][k].at)
                            /\ h2[heap'[i][k].at] = TokenAt(i, k)
        BY <2>9 DEF TokensTracked, HasStack
      <3>2. k \in DOMAIN heap[i] /\ heap'[i][k] = heap[i][k] /\ ~(i = p /\ k = n)
        BY <2>7, <2>9, <3>1
      <3>3. /\ heap[i][k].at \in Nat /\ HasStack(heap[i][k].at)
            /\ h[heap[i][k].at] = TokenAt(i, k)
        BY <1>2, <3>1, <3>2 DEF Tracked, TokensTracked
      <3>4. heap[i][k].at # o
        BY <2>6, <3>2, <3>3 DEF TokenAt, Claim
      <3>5. QED
        BY <2>10, <3>2, <3>3, <3>4 DEF SameBut
    <2>14. QED
      BY <2>9, <2>11, <2>12, <2>13 DEF GcsInv, Tracked
  <1>4. QED
    BY <1>a, <1>b

LEMMA GCSSS2ActivateKeeps ==
    ASSUME GcsInv, NEW s \in Sims, GCSSS2Activate(s)
    PROVE  GcsInv'
  <1>a. On(s) /\ step[s].at = "ss2 activate"
    BY GuestIsOn DEF GCSSS2Activate
  <1>1. On(s) /\ step[s].at = "ss2 activate" /\ Switching(s)
    BY <1>a DEF Switching
  <1>2. PICK h : Tracked(h)
    BY DEF GcsInv
  <1>0. Typed /\ Table /\ RunsTracked(h) /\ ValuesTracked(h)
    BY <1>2 DEF GcsInv, Tracked
  <1>3. PICK k, inc : k = step[s].other.token /\ inc = gcs[s]
    OBVIOUS
  <1>4. k \in Nat /\ HasStack(k) /\ h[k] = OtherOf(s)
    BY <1>0, <1>1, <1>2, <1>3, StepFields DEF Tracked, OthersTracked
  <1>5. PICK g : g = [ptr |-> stacks[k], token |-> k]
    OBVIOUS
  <1> DEFINE l == At("ss2 seal", NoValue, Zero, inc)
             h2 == Reclaimed(Reclaimed(h, k, RunBy(s)), inc.token, OtherOf(s))
  <1>6. /\ gcs' = [gcs EXCEPT ![s] = g] /\ step' = [step EXCEPT ![s] = l]
        /\ held' = held /\ UNCHANGED <<stacks, heap, used, aborted>>
    BY <1>3, <1>4, <1>5 DEF GCSSS2Activate
  <1>7. g \in GcsRecord /\ g # NoGcs
    BY <1>0, <1>4, <1>5 DEF HasStack, Typed, StacksTyped, GcsRecord, NoGcs
  <1>8. /\ inc \in GcsRecord /\ l \in StepRecord /\ l.at = "ss2 seal" /\ l.other = inc
    BY <1>0, <1>3, RecordTypes DEF Typed, GcsTyped, At, Places
  <1>9. Local(l, g, heap[g.ptr])
    BY <1>8 DEF Local
  <1>10. /\ inc.token \in Nat /\ HasStack(inc.token) /\ stacks[inc.token] = inc.ptr
         /\ h[inc.token] = RunBy(s) /\ inc.token # k
    <2>1. /\ inc.token \in Nat /\ HasStack(inc.token) /\ stacks[inc.token] = inc.ptr
          /\ h[inc.token] = RunBy(s)
      BY <1>0, <1>1, <1>3, OnItsOwn
    <2>2. QED
      BY <1>4, <2>1 DEF RunBy, OtherOf, Claim
  <1>11. /\ h2[inc.token] = OtherOf(s) /\ h2[k] = RunBy(s)
         /\ SameBut(h, h2, k, inc.token)
    BY <1>4, <1>10 DEF Reclaimed, SameBut
  <1>12. Yields(h, k, s) /\ Yields(h, inc.token, s)
    BY <1>4, <1>10 DEF Yields
  <1>13. ASSUME NEW w \in held
         PROVE  w.slot # k /\ w.slot # inc.token
    <2>1. h[w.slot] = ValueOf(w.size)
      BY <1>0 DEF ValuesTracked
    <2>2. QED
      BY <1>4, <1>10, <2>1 DEF RunBy, OtherOf, ValueOf, Claim
  <1>14. held' \subseteq ValueRecord
    BY <1>0, <1>6 DEF Typed, HeldTyped
  <1>15. Moves(s, g, l)
    BY <1>6, <1>7, <1>8, <1>9, <1>14 DEF Moves
  <1>16. HasStack(g.token) /\ stacks[g.token] = g.ptr /\ h2[g.token] = RunBy(s)
    BY <1>4, <1>5, <1>11
  <1>17. /\ l.at \notin {"unseal", "ss2 activate"} /\ HasStack(l.other.token)
         /\ stacks[l.other.token] = l.other.ptr /\ h2[l.other.token] = OtherOf(s)
    BY <1>8, <1>10, <1>11
  <1>18. Settles(h2, s, g, l, k, inc.token)
    BY <1>6, <1>13, <1>16, <1>17 DEF Settles
  <1> HIDE DEF l, h2
  <1>19. QED
    BY <1>2, <1>4, <1>10, <1>11, <1>12, <1>15, <1>17, <1>18, HandoverKeeps

LEMMA GCSSS2SealKeeps ==
    ASSUME GcsInv, NEW s \in Sims, GCSSS2Seal(s)
    PROVE  GcsInv'
  <1>a. On(s) /\ step[s].at = "ss2 seal"
    BY GuestIsOn DEF GCSSS2Seal
  <1>1. On(s) /\ step[s].at = "ss2 seal" /\ Switching(s) /\ step[s].at # "ss2 activate"
    BY <1>a DEF Switching
  <1>2. PICK h : Tracked(h)
    BY DEF GcsInv
  <1>3. ~Dangles(s) /\ Mine(s) \in Seq(Entry) /\ Typed
    BY <1>1, NeverDangles DEF GcsInv
  <1>4. PICK v : v = OutgoingValue(gcs[s].token, Mine(s))
    OBVIOUS
  <1>5. /\ v \in ValueRecord /\ v.slot = gcs[s].token /\ v.size = Len(Mine(s))
        /\ v.slot \in Nat /\ v.size \in Nat
    BY <1>3, <1>4 DEF OutgoingValue, Value, ValueRecord, Typed, GcsTyped, GcsRecord
  <1> DEFINE e == Seal(v.slot, v.size)
             q == Append(Mine(s), e)
             l == At("ss2 return", v, Zero, step[s].other)
  <1>6. Write(s, q, l)
    BY <1>3, <1>4 DEF GCSSS2Seal
  <1>7. e \in Entry /\ e.kind # "switch"
    BY <1>5, EntryTypes DEF Seal
  <1>8. /\ q \in Seq(Entry) /\ Len(q) = Len(Mine(s)) + 1 /\ q[Len(q)] = e
        /\ \A k \in DOMAIN q : q[k].kind = "switch" =>
             k \in DOMAIN heap[gcs[s].ptr] /\ heap[gcs[s].ptr][k] = q[k]
    <2> HIDE DEF e
    <2>1. QED
      BY <1>3, <1>7, Pushed DEF Mine
  <1>9. l \in StepRecord /\ l.at = "ss2 return" /\ l.other = step[s].other /\ l.rt = v
    BY <1>3, <1>5, StepFields, RecordTypes DEF Places, At
  <1>10. Local(l, gcs[s], q)
    BY <1>5, <1>8, <1>9 DEF Local, Sealed
  <1> HIDE DEF e, q, l
  <1>11. QED
    BY <1>1, <1>2, <1>6, <1>8, <1>9, <1>10, WroteSame

LEMMA GCSSS2ReturnKeeps ==
    ASSUME GcsInv, NEW s \in Sims, GCSSS2Return(s)
    PROVE  GcsInv'
  <1>a. On(s) /\ step[s].at = "ss2 return"
    BY GuestIsOn DEF GCSSS2Return
  <1>1. On(s) /\ step[s].at = "ss2 return" /\ Switching(s)
    BY <1>a DEF Switching
  <1>2. PICK h : Tracked(h)
    BY DEF GcsInv
  <1>0. Typed /\ Table /\ RunsTracked(h) /\ ValuesTracked(h)
    BY <1>2 DEF GcsInv, Tracked
  <1>3. PICK g, v : g = step[s].other /\ v = step[s].rt
    OBVIOUS
  <1>4. /\ g.token \in Nat /\ HasStack(g.token) /\ h[g.token] = OtherOf(s)
        /\ stacks[g.token] = g.ptr /\ g \in GcsRecord
    BY <1>0, <1>1, <1>2, <1>3, StepFields DEF Tracked, OthersTracked
  <1>5. /\ v \in ValueRecord /\ Sealed(heap[gcs[s].ptr], v) /\ v.slot = gcs[s].token
    BY <1>0, <1>1, <1>3, StepFields DEF GcsInv, Locals, Local
  <1>6. /\ v.slot \in Nat /\ HasStack(v.slot) /\ stacks[v.slot] = gcs[s].ptr
        /\ h[v.slot] = RunBy(s)
    BY <1>0, <1>1, <1>5, OnItsOwn
  <1>7. /\ gcs' = [gcs EXCEPT ![s] = g] /\ step' = [step EXCEPT ![s] = AtGuest]
        /\ held' = held \cup {v} /\ UNCHANGED <<stacks, heap, used, aborted>>
    BY <1>3 DEF GCSSS2Return, SwitchedBack
  <1> DEFINE h2 == Reclaimed(Reclaimed(h, g.token, RunBy(s)), v.slot, ValueOf(v.size))
  <1>8. g.token # v.slot
    BY <1>4, <1>6 DEF RunBy, OtherOf, Claim
  <1>9. /\ h2[v.slot] = ValueOf(v.size) /\ h2[g.token] = RunBy(s)
        /\ SameBut(h, h2, g.token, v.slot)
    BY <1>4, <1>6, <1>8 DEF Reclaimed, SameBut
  <1>10. Yields(h, g.token, s) /\ Yields(h, v.slot, s)
    BY <1>4, <1>6 DEF Yields
  <1>11. g # NoGcs
    <2>1. 0 \notin DOMAIN stacks
      BY <1>0 DEF Typed, StacksTyped
    <2>2. QED
      BY <1>4, <2>1 DEF HasStack, NoGcs
  <1>12. Moves(s, g, AtGuest)
    BY <1>0, <1>4, <1>5, <1>7, <1>11, AtGuestIs, LocalGuest DEF Moves, Typed, HeldTyped
  <1>13. ASSUME NEW w \in held
         PROVE  w.slot # g.token /\ w.slot # v.slot
    <2>1. h[w.slot] = ValueOf(w.size)
      BY <1>0 DEF ValuesTracked
    <2>2. QED
      BY <1>4, <1>6, <2>1 DEF RunBy, OtherOf, ValueOf, Claim
  <1>14. Settles(h2, s, g, AtGuest, g.token, v.slot)
    BY <1>4, <1>5, <1>6, <1>7, <1>9, <1>13, AtGuestIs DEF Settles
  <1> HIDE DEF h2
  <1>15. PICK l : l = AtGuest
    OBVIOUS
  <1>16. QED
    BY <1>2, <1>4, <1>6, <1>9, <1>10, <1>12, <1>14, AtGuestIs, HandoverKeeps

-----------------------------------------------------------------------------
(***************************************************************************)
(* AllocateStack and FreeStack.                                            *)
(***************************************************************************)

\* The other stacks are where and what they were.
StaysPut(k) ==
    /\ HasStack(k)' /\ stacks'[k] = stacks[k]
    /\ stacks[k] \in DOMAIN heap' /\ heap'[stacks[k]] = heap[stacks[k]]

Allocates(slot, i) ==
    /\ slot \in Nat /\ slot \in DOMAIN stacks' /\ stacks'[slot] = i /\ i # 0
    /\ i \notin DOMAIN heap /\ used < i /\ used' = i /\ i \in Storages
    /\ DOMAIN heap' = DOMAIN heap \cup {i} /\ heap'[i] = <<Seal(slot, 0)>>
    /\ \A j \in DOMAIN heap : heap'[j] = heap[j]
    /\ \A k : HasStack(k) => k # slot /\ StaysPut(k)

LEMMA AllocateTable ==
    ASSUME GcsInv, NEW slot, NEW i, AllocateStackInternal(slot, i)
    PROVE  /\ Allocates(slot, i) /\ Table'
           /\ StacksTyped' /\ UsedTyped' /\ HeapTyped'
  <1>0. StacksTyped /\ UsedTyped /\ HeapTyped /\ Table
    BY DEF GcsInv, Typed
  <1>1. slot \in Nat
    BY <1>0, FirstSlotFree DEF AllocateStackInternal, StacksTyped
  <1>2. <<Seal(slot, 0)>> \in Seq(Entry)
    <2>1. Seal(slot, 0) \in Entry
      BY <1>1, EntryTypes
    <2>2. QED
      BY <2>1
  <1>3. NewStorage(slot, i, <<Seal(slot, 0)>>)
    BY DEF AllocateStackInternal, NewStorage
  <1>4. /\ Bounds(slot, i) /\ Placed(slot, i) /\ Filled(i, <<Seal(slot, 0)>>)
        /\ StacksTyped' /\ UsedTyped' /\ HeapTyped'
    <2>1. PICK q : q = <<Seal(slot, 0)>>
      OBVIOUS
    <2>2. q \in Seq(Entry) /\ NewStorage(slot, i, q)
      BY <1>2, <1>3, <2>1
    <2>3. /\ Bounds(slot, i) /\ Placed(slot, i) /\ Filled(i, q)
          /\ StacksTyped' /\ UsedTyped' /\ HeapTyped'
      BY <1>0, <2>2, NewTable
    <2>4. QED
      BY <2>1, <2>3
  <1>5. /\ i \notin DOMAIN heap /\ used < i /\ used' = i /\ i \in Storages /\ i # 0
        /\ slot \in DOMAIN stacks' /\ stacks'[slot] = i
        /\ DOMAIN heap' = DOMAIN heap \cup {i} /\ heap'[i] = <<Seal(slot, 0)>>
        /\ \A j \in DOMAIN heap : heap'[j] = heap[j]
    BY <1>0, <1>4 DEF Bounds, Placed, Filled, UsedTyped, AllocateStackInternal
  <1>6. ASSUME NEW k, HasStack(k)
        PROVE  k # slot /\ StaysPut(k)
    <2>1. k # slot /\ k \in DOMAIN stacks
      BY <1>4, <1>6 DEF Placed, HasStack
    <2>2. stacks'[k] = stacks[k] /\ k \in DOMAIN stacks' /\ stacks[k] \in DOMAIN heap
      BY <1>0, <1>4, <1>6, <2>1 DEF Placed, HasStack, Table
    <2>3. QED
      BY <1>5, <1>6, <2>1, <2>2 DEF StaysPut, HasStack
  <1>7. Table'
    <2>1. SUFFICES ASSUME NEW k \in DOMAIN stacks', stacks'[k] # 0
                   PROVE  /\ stacks'[k] \in DOMAIN heap'
                          /\ \A l \in DOMAIN stacks' : stacks'[l] = stacks'[k] => l = k
      BY DEF Table
    <2>2. \A l \in DOMAIN stacks' : l # slot => l \in DOMAIN stacks /\ stacks'[l] = stacks[l]
      BY <1>4 DEF Placed
    <2>3. \A l \in DOMAIN stacks : stacks[l] # i
      BY <1>0, <1>5 DEF Table
    <2>4. CASE k = slot
      BY <1>5, <2>1, <2>2, <2>3, <2>4
    <2>5. CASE k # slot
      BY <1>0, <1>5, <2>1, <2>2, <2>3, <2>5 DEF Table
    <2>6. QED
      BY <2>4, <2>5
  <1>8. QED
    BY <1>1, <1>4, <1>5, <1>6, <1>7 DEF Allocates

\* The claims of the others, and the tokens.
AllocatedKeep(h2, s) ==
    /\ \A t \in Sims : t # s /\ On(t) =>
         StaysPut(gcs[t].token) /\ h2[gcs[t].token] = RunBy(t)
    /\ \A t \in Sims : t # s /\ Switching(t) =>
         StaysPut(step[t].other.token) /\ h2[step[t].other.token] = OtherOf(t)
    /\ TokensTracked(h2)'
    /\ \A w \in held : StaysPut(w.slot) /\ h2[w.slot] = ValueOf(w.size)

LEMMA AllocateOthers ==
    ASSUME GcsInv, NEW h, Tracked(h), NEW slot, NEW i, Allocates(slot, i),
           NEW h2, SameBut(h, h2, slot, slot), NEW s
    PROVE  AllocatedKeep(h2, s)
  <1>0. /\ Typed /\ RunsTracked(h) /\ OthersTracked(h) /\ TokensTracked(h)
        /\ ValuesTracked(h)
    BY DEF GcsInv, Tracked
  <1>1. ASSUME NEW k \in Nat, HasStack(k)
        PROVE  StaysPut(k) /\ h2[k] = h[k]
    BY <1>1 DEF Allocates, SameBut
  <1>2. ASSUME NEW t \in Sims, On(t)
        PROVE  StaysPut(gcs[t].token) /\ h2[gcs[t].token] = RunBy(t)
    <2>1. gcs[t].token \in Nat /\ HasStack(gcs[t].token) /\ h[gcs[t].token] = RunBy(t)
      BY <1>0, <1>2 DEF RunsTracked, Typed, GcsTyped, GcsRecord
    <2>2. QED
      BY <1>1, <2>1
  <1>3. ASSUME NEW t \in Sims, Switching(t)
        PROVE  StaysPut(step[t].other.token) /\ h2[step[t].other.token] = OtherOf(t)
    <2>1. step[t].other.token \in Nat
      BY <1>0, StepFields
    <2>2. HasStack(step[t].other.token) /\ h[step[t].other.token] = OtherOf(t)
      BY <1>0, <1>3 DEF OthersTracked
    <2>3. QED
      BY <1>1, <2>1, <2>2
  <1>4. TokensTracked(h2)'
    <2>1. SUFFICES ASSUME NEW j \in DOMAIN heap', NEW n \in DOMAIN heap'[j],
                          heap'[j][n].kind = "switch"
                   PROVE  /\ heap'[j][n].at \in Nat /\ heap'[j][n].at \in DOMAIN stacks'
                          /\ stacks'[heap'[j][n].at] # 0
                          /\ h2[heap'[j][n].at] = TokenAt(j, n)
      BY DEF TokensTracked, HasStack
    <2>2. j \in DOMAIN heap /\ heap'[j] = heap[j]
      <3>1. CASE j = i
        <4>1. heap'[i] = <<Seal(slot, 0)>>
          BY DEF Allocates
        <4>2. n = 1 /\ heap'[j][n] = Seal(slot, 0)
          BY <2>1, <3>1, <4>1
        <4>3. QED
          BY <2>1, <4>2 DEF Seal
      <3>2. QED
        BY <2>1, <3>1 DEF Allocates
    <2>3. /\ heap[j][n].at \in Nat /\ HasStack(heap[j][n].at)
          /\ h[heap[j][n].at] = TokenAt(j, n)
      BY <1>0, <2>1, <2>2 DEF TokensTracked
    <2>4. QED
      BY <1>1, <2>2, <2>3 DEF StaysPut, HasStack
  <1>5. ASSUME NEW w \in held
        PROVE  StaysPut(w.slot) /\ h2[w.slot] = ValueOf(w.size)
    <2>1. w.slot \in Nat /\ HasStack(w.slot) /\ h[w.slot] = ValueOf(w.size)
      BY <1>0, <1>5 DEF ValuesTracked, Typed, HeldTyped, ValueRecord
    <2>2. QED
      BY <1>1, <2>1
  <1>6. QED
    BY <1>2, <1>3, <1>4, <1>5 DEF AllocatedKeep

LEMMA AllocateStackKeeps ==
    ASSUME GcsInv, AllocateStack
    PROVE  GcsInv'
  <1>1. PICK slot \in 1 .. Len(stacks) + 1, i \in Storages :
           /\ AllocateStackInternal(slot, i)
           /\ held' = held \cup {Value(slot, 0)} /\ UNCHANGED <<gcs, step, aborted>>
    BY DEF AllocateStack
  <1>2. PICK h : Tracked(h)
    BY DEF GcsInv
  <1>0. /\ Typed /\ Table /\ Quiet /\ Locals /\ ValuesHonoured /\ RunsTracked(h)
        /\ OthersTracked(h) /\ ValuesTracked(h)
    BY <1>2 DEF GcsInv, Tracked
  <1>3. Allocates(slot, i) /\ Table' /\ StacksTyped' /\ UsedTyped' /\ HeapTyped'
    BY <1>1, AllocateTable
  <1> DEFINE h2 == Reclaimed(h, slot, ValueOf(0))
  <1>4. h2[slot] = ValueOf(0) /\ SameBut(h, h2, slot, slot)
    BY <1>3 DEF Allocates, Reclaimed, SameBut
  <1> HIDE DEF h2
  <1>a. PICK none : none \notin Sims
    <2>1. "none" \notin Sims
      BY GcsAssumption
    <2>2. QED
      BY <2>1
  <1>5. AllocatedKeep(h2, none)
    BY <1>2, <1>3, <1>4, AllocateOthers
  <1>6. \A t \in Sims : Alive(t)' = Alive(t) /\ On(t)' = On(t) /\ Switching(t)' = Switching(t)
    BY <1>1 DEF Alive, On, Switching
  <1>7. Typed' /\ ValuesHonoured'
    <2>1. Value(slot, 0) \in ValueRecord
      BY <1>3 DEF Allocates, Value, ValueRecord
    <2>2. QED
      BY <1>0, <1>1, <1>3, <2>1 DEF Typed, GcsTyped, StepTyped, HeldTyped, ValuesHonoured
  <1>8. Quiet'
    <2>1. ASSUME NEW t \in Sims, step[t].at = "reset"
          PROVE  gcs[t].ptr <= i /\ gcs[t].ptr \notin DOMAIN heap'
      <3>1. gcs[t].ptr <= used /\ gcs[t].ptr \notin DOMAIN heap
        BY <1>0, <2>1 DEF Quiet
      <3>2. gcs[t].ptr \in Nat /\ used \in Nat /\ i \in Nat
        BY <1>0, StoragesNat, PtrTypes
      <3>3. QED
        BY <1>3, <3>1, <3>2 DEF Allocates
    <2>2. used' = i
      BY <1>3 DEF Allocates
    <2>3. QED
      BY <1>0, <1>1, <1>6, <2>1, <2>2 DEF Quiet
  <1>9. Locals'
    <2>1. ASSUME NEW t \in Sims, On(t)
          PROVE  heap'[gcs[t].ptr] = heap[gcs[t].ptr]
      <3>1. gcs[t].ptr \in DOMAIN heap
        BY <1>0, <2>1, OnItsOwn
      <3>2. QED
        BY <1>3, <3>1 DEF Allocates
    <2>2. QED
      BY <1>0, <1>1, <1>6, <2>1 DEF Locals
  <1>10. RunsTracked(h2)'
    <2>1. SUFFICES ASSUME NEW t \in Sims, On(t)
                   PROVE  /\ HasStack(gcs[t].token)' /\ stacks'[gcs[t].token] = gcs[t].ptr
                          /\ h2[gcs[t].token] = RunBy(t)
      BY <1>1, <1>6 DEF RunsTracked, HasStack
    <2>2. StaysPut(gcs[t].token) /\ h2[gcs[t].token] = RunBy(t)
      BY <1>5, <1>a, <2>1 DEF AllocatedKeep
    <2>3. QED
      BY <1>0, <1>1, <2>1, <2>2 DEF RunsTracked, StaysPut, HasStack
  <1>11. OthersTracked(h2)'
    <2>1. SUFFICES ASSUME NEW t \in Sims, Switching(t)
                   PROVE  /\ HasStack(step[t].other.token)'
                          /\ h2[step[t].other.token] = OtherOf(t)
                          /\ step[t].at # "ss2 activate" =>
                               stacks'[step[t].other.token] = step[t].other.ptr
      BY <1>1, <1>6 DEF OthersTracked, HasStack
    <2>2. StaysPut(step[t].other.token) /\ h2[step[t].other.token] = OtherOf(t)
      BY <1>5, <1>a, <2>1 DEF AllocatedKeep
    <2>3. step[t].at # "ss2 activate" => stacks[step[t].other.token] = step[t].other.ptr
      BY <1>0, <2>1 DEF OthersTracked
    <2>4. QED
      BY <1>1, <2>2, <2>3 DEF StaysPut, HasStack
  <1>12. ValuesTracked(h2)'
    <2>1. SUFFICES ASSUME NEW w \in held'
                   PROVE  /\ HasStack(w.slot)' /\ h2[w.slot] = ValueOf(w.size)
                          /\ Sealed(heap'[stacks'[w.slot]], w)
      BY DEF ValuesTracked, HasStack
    <2>2. CASE w \in held
      <3>1. StaysPut(w.slot) /\ h2[w.slot] = ValueOf(w.size)
        BY <1>5, <2>2 DEF AllocatedKeep
      <3>2. Sealed(heap[stacks[w.slot]], w)
        BY <1>0, <2>2 DEF ValuesTracked
      <3>3. QED
        BY <3>1, <3>2 DEF StaysPut, HasStack
    <2>3. CASE w = Value(slot, 0)
      <3>1. w.slot = slot /\ w.size = 0
        BY <2>3 DEF Value
      <3>2. HasStack(slot)' /\ stacks'[slot] = i /\ heap'[i] = <<Seal(slot, 0)>>
        BY <1>3 DEF Allocates, HasStack
      <3>3. Sealed(<<Seal(slot, 0)>>, w)
        BY <3>1 DEF Sealed
      <3>4. QED
        BY <1>4, <3>1, <3>2, <3>3 DEF HasStack
    <2>4. QED
      BY <1>1, <2>1, <2>2, <2>3
  <1>13. TokensTracked(h2)'
    BY <1>5 DEF AllocatedKeep
  <1>14. QED
    BY <1>3, <1>7, <1>8, <1>9, <1>10, <1>11, <1>12, <1>13 DEF GcsInv, Tracked

LEMMA ActivateNewGCSKeeps ==
    ASSUME GcsInv, NEW s \in Sims, ActivateNewGCS(s)
    PROVE  GcsInv'
  <1>1. PICK slot \in 1 .. Len(stacks) + 1, i \in Storages :
           /\ AllocateStackInternal(slot, i) /\ (~Alive(s) \/ step[s].at = "reset")
           /\ gcs' = [gcs EXCEPT ![s] = [ptr |-> i, token |-> slot]]
           /\ step' = [step EXCEPT ![s] = AtUnseal] /\ UNCHANGED <<held, aborted>>
    BY DEF ActivateNewGCS
  <1>2. PICK h : Tracked(h)
    BY DEF GcsInv
  <1>0. /\ Typed /\ Table /\ Quiet /\ Locals /\ ValuesHonoured /\ RunsTracked(h)
        /\ OthersTracked(h) /\ ValuesTracked(h)
    BY <1>2 DEF GcsInv, Tracked
  <1>3. Allocates(slot, i) /\ Table' /\ StacksTyped' /\ UsedTyped' /\ HeapTyped'
    BY <1>1, AllocateTable
  <1> DEFINE g == [ptr |-> i, token |-> slot]
             h2 == Reclaimed(h, slot, RunBy(s))
  <1>4. h2[slot] = RunBy(s) /\ SameBut(h, h2, slot, slot)
    BY <1>3 DEF Allocates, Reclaimed, SameBut
  <1> HIDE DEF h2
  <1>5. AllocatedKeep(h2, s)
    BY <1>2, <1>3, <1>4, AllocateOthers
  <1>6. /\ g \in GcsRecord /\ g # NoGcs /\ g.ptr = i /\ g.token = slot
        /\ AtUnseal \in StepRecord /\ AtUnseal.at = "unseal"
    BY <1>3, RecordTypes DEF Allocates, GcsRecord, NoGcs, AtUnseal, At
  <1>7. /\ gcs'[s] = g /\ step'[s] = AtUnseal /\ gcs' \in [Sims -> GcsRecord]
        /\ step' \in [Sims -> StepRecord]
        /\ \A t \in Sims : t # s => gcs'[t] = gcs[t] /\ step'[t] = step[t]
    <2> HIDE DEF g
    <2>1. gcs' = [gcs EXCEPT ![s] = g]
      BY <1>1 DEF g
    <2>2. QED
      BY <1>0, <1>1, <1>6, <2>1 DEF Typed, GcsTyped, StepTyped
  <1> HIDE DEF g
  <1>8. /\ Alive(s)' /\ On(s)' /\ ~Switching(s)'
        /\ \A t \in Sims : t # s =>
             Alive(t)' = Alive(t) /\ On(t)' = On(t) /\ Switching(t)' = Switching(t)
    BY <1>6, <1>7 DEF Alive, On, Switching
  <1>9. Typed' /\ ValuesHonoured'
    BY <1>0, <1>1, <1>3, <1>7 DEF Typed, GcsTyped, StepTyped, HeldTyped, ValuesHonoured
  <1>10. Quiet'
    <2>1. ASSUME NEW t \in Sims, step[t].at = "reset"
          PROVE  gcs[t].ptr <= i /\ gcs[t].ptr \notin DOMAIN heap'
      <3>1. gcs[t].ptr <= used /\ gcs[t].ptr \notin DOMAIN heap
        BY <1>0, <2>1 DEF Quiet
      <3>2. gcs[t].ptr \in Nat /\ used \in Nat /\ i \in Nat
        BY <1>0, StoragesNat, PtrTypes
      <3>3. QED
        BY <1>3, <3>1, <3>2 DEF Allocates
    <2>2. used' = i
      BY <1>3 DEF Allocates
    <2>3. QED
      BY <1>0, <1>6, <1>7, <1>8, <2>1, <2>2 DEF Quiet
  <1>11. Locals'
    <2>1. SUFFICES ASSUME NEW t \in Sims, On(t)'
                   PROVE  Local(step'[t], gcs'[t], heap'[gcs'[t].ptr])
      BY DEF Locals
    <2>2. CASE t = s
      <3>1. heap'[gcs'[s].ptr] = <<Seal(slot, 0)>>
        BY <1>3, <1>6, <1>7 DEF Allocates
      <3>2. Sealed(<<Seal(slot, 0)>>, Value(slot, 0))
        BY DEF Sealed, Value
      <3>3. QED
        BY <1>6, <1>7, <2>2, <3>1, <3>2 DEF Local
    <2>3. CASE t # s
      <3>1. On(t) /\ gcs'[t] = gcs[t] /\ step'[t] = step[t]
        BY <1>7, <1>8, <2>1, <2>3
      <3>2. gcs[t].ptr \in DOMAIN heap
        BY <1>0, <3>1, OnItsOwn
      <3>3. heap'[gcs[t].ptr] = heap[gcs[t].ptr]
        BY <1>3, <3>2 DEF Allocates
      <3>4. QED
        BY <1>0, <3>1, <3>3 DEF Locals
    <2>4. QED
      BY <2>2, <2>3
  <1>12. RunsTracked(h2)'
    <2>1. SUFFICES ASSUME NEW t \in Sims, On(t)'
                   PROVE  /\ gcs'[t].token \in DOMAIN stacks' /\ stacks'[gcs'[t].token] # 0
                          /\ stacks'[gcs'[t].token] = gcs'[t].ptr
                          /\ h2[gcs'[t].token] = RunBy(t)
      BY DEF RunsTracked, HasStack
    <2>2. CASE t = s
      BY <1>3, <1>4, <1>6, <1>7, <2>2 DEF Allocates, HasStack
    <2>3. CASE t # s
      <3>1. On(t) /\ gcs'[t] = gcs[t]
        BY <1>7, <1>8, <2>1, <2>3
      <3>2. StaysPut(gcs[t].token) /\ h2[gcs[t].token] = RunBy(t)
        BY <1>5, <2>3, <3>1 DEF AllocatedKeep
      <3>3. QED
        BY <1>0, <3>1, <3>2 DEF RunsTracked, StaysPut, HasStack
    <2>4. QED
      BY <2>2, <2>3
  <1>13. OthersTracked(h2)'
    <2>1. SUFFICES ASSUME NEW t \in Sims, Switching(t)'
                   PROVE  /\ step'[t].other.token \in DOMAIN stacks'
                          /\ stacks'[step'[t].other.token] # 0
                          /\ h2[step'[t].other.token] = OtherOf(t)
                          /\ step'[t].at # "ss2 activate" =>
                               stacks'[step'[t].other.token] = step'[t].other.ptr
      BY DEF OthersTracked, HasStack
    <2>2. t # s /\ Switching(t) /\ step'[t] = step[t]
      BY <1>7, <1>8, <2>1
    <2>3. StaysPut(step[t].other.token) /\ h2[step[t].other.token] = OtherOf(t)
      BY <1>5, <2>2 DEF AllocatedKeep
    <2>4. step[t].at # "ss2 activate" => stacks[step[t].other.token] = step[t].other.ptr
      BY <1>0, <2>2 DEF OthersTracked
    <2>5. QED
      BY <2>2, <2>3, <2>4 DEF StaysPut, HasStack
  <1>14. ValuesTracked(h2)'
    <2>1. SUFFICES ASSUME NEW w \in held
                   PROVE  /\ HasStack(w.slot)' /\ h2[w.slot] = ValueOf(w.size)
                          /\ Sealed(heap'[stacks'[w.slot]], w)
      BY <1>1 DEF ValuesTracked, HasStack
    <2>2. StaysPut(w.slot) /\ h2[w.slot] = ValueOf(w.size)
      BY <1>5 DEF AllocatedKeep
    <2>3. Sealed(heap[stacks[w.slot]], w)
      BY <1>0 DEF ValuesTracked
    <2>4. QED
      BY <2>2, <2>3 DEF StaysPut, HasStack
  <1>15. TokensTracked(h2)'
    BY <1>5 DEF AllocatedKeep
  <1>16. QED
    BY <1>3, <1>9, <1>10, <1>11, <1>12, <1>13, <1>14, <1>15 DEF GcsInv, Tracked

Frees(slot) ==
    /\ Table' /\ StacksTyped' /\ UsedTyped' /\ HeapTyped' /\ used' = used
    /\ aborted' = aborted
    /\ DOMAIN heap' = DOMAIN heap \ {stacks[slot]}
    /\ \A j \in DOMAIN heap' : heap'[j] = heap[j]
    /\ \A k : HasStack(k) /\ k # slot => StaysPut(k)

LEMMA FreeTable ==
    ASSUME GcsInv, NEW slot, HasStack(slot), FreeSlot(slot)
    PROVE  Frees(slot)
  <1>0. StacksTyped /\ UsedTyped /\ HeapTyped /\ Table
    BY DEF GcsInv, Typed
  <1>1. PICK p : p = stacks[slot]
    OBVIOUS
  <1>2. DropStorage(slot, p) /\ aborted' = aborted
    BY <1>1 DEF FreeSlot, DropStorage, HasStack
  <1>3. /\ Cleared(slot, p) /\ Deleted(p)
        /\ StacksTyped' /\ UsedTyped' /\ HeapTyped' /\ used' = used
    BY <1>0, <1>2, DropTable
  <1>4. ASSUME NEW k, HasStack(k), k # slot
        PROVE  StaysPut(k)
    <2>1. k \in DOMAIN stacks /\ stacks'[k] = stacks[k] /\ k \in DOMAIN stacks'
      BY <1>3, <1>4 DEF Cleared, HasStack
    <2>2. stacks[k] \in DOMAIN heap /\ stacks[k] # p
      BY <1>0, <1>1, <1>4 DEF Table, HasStack
    <2>3. QED
      BY <1>3, <1>4, <2>1, <2>2 DEF StaysPut, HasStack, Deleted
  <1>5. Table'
    <2>1. \A k \in DOMAIN stacks' : stacks'[k] # 0 =>
             k \in DOMAIN stacks /\ k # slot /\ stacks'[k] = stacks[k]
      BY <1>3 DEF Cleared
    <2>2. QED
      BY <1>0, <1>1, <1>3, <2>1 DEF Table, Cleared, Deleted
  <1>6. QED
    BY <1>1, <1>2, <1>3, <1>4, <1>5 DEF Frees, Deleted

\* What nobody but s, or the value, had a claim on.
FreedKeep(h, s, slot) ==
    /\ \A t \in Sims : t # s /\ On(t) => gcs[t].token # slot /\ StaysPut(gcs[t].token)
    /\ \A t \in Sims : Switching(t) => StaysPut(step[t].other.token)
    /\ TokensTracked(h)'
    /\ \A w \in held : w.slot # slot => StaysPut(w.slot)

LEMMA FreeOthers ==
    ASSUME GcsInv, NEW h, Tracked(h), NEW s, NEW slot, Frees(slot),
           h[slot] = RunBy(s) \/ h[slot].by = "value"
    PROVE  FreedKeep(h, s, slot)
  <1>0. /\ Typed /\ RunsTracked(h) /\ OthersTracked(h) /\ TokensTracked(h)
        /\ ValuesTracked(h)
    BY DEF GcsInv, Tracked
  <1>1. ASSUME NEW t \in Sims, t # s, On(t)
        PROVE  gcs[t].token # slot /\ StaysPut(gcs[t].token)
    <2>1. HasStack(gcs[t].token) /\ h[gcs[t].token] = RunBy(t)
      BY <1>0, <1>1 DEF RunsTracked
    <2>2. gcs[t].token # slot
      BY <1>1, <2>1 DEF RunBy, Claim
    <2>3. QED
      BY <2>1, <2>2 DEF Frees
  <1>2. ASSUME NEW t \in Sims, Switching(t)
        PROVE  StaysPut(step[t].other.token)
    <2>1. HasStack(step[t].other.token) /\ h[step[t].other.token] = OtherOf(t)
      BY <1>0, <1>2 DEF OthersTracked
    <2>2. step[t].other.token # slot
      BY <2>1 DEF RunBy, OtherOf, Claim
    <2>3. QED
      BY <2>1, <2>2 DEF Frees
  <1>3. TokensTracked(h)'
    <2>1. SUFFICES ASSUME NEW j \in DOMAIN heap', NEW n \in DOMAIN heap'[j],
                          heap'[j][n].kind = "switch"
                   PROVE  /\ heap'[j][n].at \in Nat /\ heap'[j][n].at \in DOMAIN stacks'
                          /\ stacks'[heap'[j][n].at] # 0
                          /\ h[heap'[j][n].at] = TokenAt(j, n)
      BY DEF TokensTracked, HasStack
    <2>2. j \in DOMAIN heap /\ heap'[j] = heap[j]
      BY DEF Frees
    <2>3. /\ heap[j][n].at \in Nat /\ HasStack(heap[j][n].at)
          /\ h[heap[j][n].at] = TokenAt(j, n)
      BY <1>0, <2>1, <2>2 DEF TokensTracked
    <2>4. heap[j][n].at # slot
      BY <2>3 DEF RunBy, TokenAt, Claim
    <2>5. StaysPut(heap[j][n].at)
      BY <2>3, <2>4 DEF Frees
    <2>6. QED
      BY <2>2, <2>3, <2>5 DEF StaysPut, HasStack
  <1>4. ASSUME NEW w \in held, w.slot # slot
        PROVE  StaysPut(w.slot)
    BY <1>0, <1>4 DEF ValuesTracked, Frees
  <1>5. QED
    BY <1>1, <1>2, <1>3, <1>4 DEF FreedKeep

LEMMA FreeStackKeeps ==
    ASSUME GcsInv, NEW v \in held, FreeStack(v)
    PROVE  GcsInv'
  <1>2. PICK h : Tracked(h)
    BY DEF GcsInv
  <1>0. /\ Typed /\ Table /\ Quiet /\ Locals /\ ValuesHonoured /\ RunsTracked(h)
        /\ OthersTracked(h) /\ ValuesTracked(h)
    BY <1>2 DEF GcsInv, Tracked
  <1>3. HasStack(v.slot) /\ h[v.slot] = ValueOf(v.size)
    BY <1>0 DEF ValuesTracked
  <1>4. FreeSlot(v.slot) /\ held' = held \ {v} /\ UNCHANGED <<gcs, step>>
    BY <1>3 DEF FreeStack
  <1>5. Frees(v.slot)
    BY <1>3, <1>4, FreeTable
  <1>a. PICK none : none \notin Sims
    <2>1. "none" \notin Sims
      BY GcsAssumption
    <2>2. QED
      BY <2>1
  <1>6. FreedKeep(h, none, v.slot)
    <2>1. h[v.slot].by = "value"
      BY <1>3, ClaimsDiffer
    <2>2. QED
      BY <1>2, <1>5, <2>1, FreeOthers
  <1>7. \A t \in Sims : Alive(t)' = Alive(t) /\ On(t)' = On(t) /\ Switching(t)' = Switching(t)
    BY <1>4 DEF Alive, On, Switching
  <1>8. Typed' /\ ValuesHonoured' /\ Table'
    BY <1>0, <1>4, <1>5 DEF Frees, Typed, GcsTyped, StepTyped, HeldTyped, ValuesHonoured
  <1>9. Quiet'
    BY <1>0, <1>4, <1>5, <1>7 DEF Quiet, Frees
  <1>10. ASSUME NEW t \in Sims, On(t)
         PROVE  StaysPut(gcs[t].token) /\ stacks[gcs[t].token] = gcs[t].ptr /\ h[gcs[t].token] = RunBy(t)
    BY <1>0, <1>6, <1>10, <1>a DEF FreedKeep, RunsTracked
  <1>11. Locals'
    BY <1>0, <1>4, <1>7, <1>10 DEF Locals, StaysPut
  <1>12. RunsTracked(h)'
    BY <1>4, <1>7, <1>10 DEF RunsTracked, StaysPut, HasStack
  <1>13. OthersTracked(h)'
    <2>1. SUFFICES ASSUME NEW t \in Sims, Switching(t)
                   PROVE  /\ HasStack(step[t].other.token)'
                          /\ h[step[t].other.token] = OtherOf(t)
                          /\ step[t].at # "ss2 activate" =>
                               stacks'[step[t].other.token] = step[t].other.ptr
      BY <1>4, <1>7 DEF OthersTracked, HasStack
    <2>2. StaysPut(step[t].other.token)
      BY <1>6, <2>1 DEF FreedKeep
    <2>3. /\ step[t].at # "ss2 activate" => stacks[step[t].other.token] = step[t].other.ptr
          /\ h[step[t].other.token] = OtherOf(t)
      BY <1>0, <2>1 DEF OthersTracked
    <2>4. QED
      BY <1>4, <2>2, <2>3 DEF StaysPut, HasStack
  <1>14. ValuesTracked(h)'
    <2>1. SUFFICES ASSUME NEW w \in held, w # v
                   PROVE  /\ HasStack(w.slot)' /\ h[w.slot] = ValueOf(w.size)
                          /\ Sealed(heap'[stacks'[w.slot]], w)
      BY <1>4 DEF ValuesTracked, HasStack
    <2>2. h[w.slot] = ValueOf(w.size) /\ Sealed(heap[stacks[w.slot]], w) /\ w \in ValueRecord
          /\ v \in ValueRecord
      BY <1>0 DEF ValuesTracked, Typed, HeldTyped
    <2>3. w.slot # v.slot
      BY <1>3, <2>1, <2>2 DEF ValueOf, Claim, ValueRecord
    <2>4. StaysPut(w.slot)
      BY <1>6, <2>3 DEF FreedKeep
    <2>5. QED
      BY <2>2, <2>4 DEF StaysPut, HasStack
  <1>15. TokensTracked(h)'
    BY <1>6 DEF FreedKeep
  <1>16. QED
    BY <1>8, <1>9, <1>11, <1>12, <1>13, <1>14, <1>15 DEF GcsInv, Tracked

\* ResetGCSState and ~Simulator: the Simulator is on no stack afterwards.
LEMMA GivesUp ==
    ASSUME GcsInv, NEW s \in Sims, On(s), step[s].at = "guest", FreeSlot(gcs[s].token),
           held' = held,
           gcs' = [gcs EXCEPT ![s] = gcs'[s]], gcs'[s] \in GcsRecord,
           step' = [step EXCEPT ![s] = step'[s]], step'[s] \in StepRecord,
           \/ step'[s].at = "reset" /\ gcs'[s] = gcs[s]
           \/ step'[s].at = "guest" /\ gcs'[s] = NoGcs
    PROVE  GcsInv'
  <1>2. PICK h : Tracked(h)
    BY DEF GcsInv
  <1>0. /\ Typed /\ Table /\ Quiet /\ Locals /\ ValuesHonoured /\ RunsTracked(h)
        /\ OthersTracked(h) /\ ValuesTracked(h)
    BY <1>2 DEF GcsInv, Tracked
  <1>3. PICK slot : slot = gcs[s].token
    OBVIOUS
  <1>4. HasStack(slot) /\ stacks[slot] = gcs[s].ptr /\ h[slot] = RunBy(s)
    BY <1>0, <1>3 DEF RunsTracked
  <1>5. Frees(slot)
    BY <1>3, <1>4, FreeTable
  <1>6. FreedKeep(h, s, slot)
    BY <1>2, <1>4, <1>5, FreeOthers
  <1>7. \A t \in Sims : t # s => gcs'[t] = gcs[t] /\ step'[t] = step[t]
    BY <1>0 DEF Typed, GcsTyped, StepTyped
  <1>8. /\ ~On(s)' /\ ~Switching(s)'
        /\ \A t \in Sims : t # s =>
             Alive(t)' = Alive(t) /\ On(t)' = On(t) /\ Switching(t)' = Switching(t)
    BY <1>7 DEF Alive, On, Switching
  <1>9. Typed' /\ ValuesHonoured' /\ Table'
    <2>1. gcs' \in [Sims -> GcsRecord] /\ step' \in [Sims -> StepRecord]
      BY <1>0 DEF Typed, GcsTyped, StepTyped
    <2>2. QED
      BY <1>0, <1>5, <2>1 DEF Frees, Typed, GcsTyped, StepTyped, HeldTyped, ValuesHonoured
  <1>10. Quiet'
    <2>1. SUFFICES ASSUME NEW t \in Sims
                   PROVE  /\ ~Alive(t)' => step'[t].at = "guest"
                          /\ step'[t].at = "reset" =>
                               gcs'[t].ptr <= used /\ gcs'[t].ptr \notin DOMAIN heap'
      BY <1>5 DEF Quiet, Frees
    <2>2. CASE t = s
      <3>1. gcs[s].ptr \notin DOMAIN heap'
        BY <1>4, <1>5 DEF Frees
      <3>2. gcs[s].ptr <= used
        <4>1. gcs[s].ptr \in DOMAIN heap
          BY <1>0, OnItsOwn
        <4>2. QED
          BY <1>0, <4>1 DEF Typed, HeapTyped, UsedTyped
      <3>3. ~Alive(s)' => step'[s].at = "guest"
        BY DEF On, Alive
      <3>4. QED
        BY <2>2, <3>1, <3>2, <3>3
    <2>3. CASE t # s
      BY <1>0, <1>5, <1>7, <1>8, <2>3 DEF Quiet, Frees
    <2>4. QED
      BY <2>2, <2>3
  <1>11. ASSUME NEW t \in Sims, On(t)'
         PROVE  /\ t # s /\ On(t) /\ gcs'[t] = gcs[t] /\ step'[t] = step[t]
                /\ StaysPut(gcs[t].token) /\ stacks[gcs[t].token] = gcs[t].ptr
                /\ h[gcs[t].token] = RunBy(t)
    <2>1. t # s /\ On(t)
      BY <1>8, <1>11
    <2>2. QED
      BY <1>0, <1>6, <1>7, <2>1 DEF FreedKeep, RunsTracked
  <1>12. Locals'
    BY <1>0, <1>11 DEF Locals, StaysPut
  <1>13. RunsTracked(h)'
    BY <1>11 DEF RunsTracked, StaysPut, HasStack
  <1>14. OthersTracked(h)'
    <2>1. SUFFICES ASSUME NEW t \in Sims, Switching(t)'
                   PROVE  /\ step'[t].other.token \in DOMAIN stacks'
                          /\ stacks'[step'[t].other.token] # 0
                          /\ h[step'[t].other.token] = OtherOf(t)
                          /\ step'[t].at # "ss2 activate" =>
                               stacks'[step'[t].other.token] = step'[t].other.ptr
      BY DEF OthersTracked, HasStack
    <2>2. t # s /\ Switching(t) /\ step'[t] = step[t]
      BY <1>7, <1>8, <2>1
    <2>3. StaysPut(step[t].other.token)
      BY <1>6, <2>2 DEF FreedKeep
    <2>4. /\ step[t].at # "ss2 activate" => stacks[step[t].other.token] = step[t].other.ptr
          /\ h[step[t].other.token] = OtherOf(t)
      BY <1>0, <2>2 DEF OthersTracked
    <2>5. QED
      BY <2>2, <2>3, <2>4 DEF StaysPut, HasStack
  <1>15. ValuesTracked(h)'
    <2>1. SUFFICES ASSUME NEW w \in held
                   PROVE  /\ HasStack(w.slot)' /\ h[w.slot] = ValueOf(w.size)
                          /\ Sealed(heap'[stacks'[w.slot]], w)
      BY DEF ValuesTracked, HasStack
    <2>2. h[w.slot] = ValueOf(w.size) /\ Sealed(heap[stacks[w.slot]], w)
      BY <1>0 DEF ValuesTracked
    <2>3. w.slot # slot
      BY <1>4, <2>2 DEF ValueOf, RunBy, Claim
    <2>4. StaysPut(w.slot)
      BY <1>6, <2>3 DEF FreedKeep
    <2>5. QED
      BY <2>2, <2>4 DEF StaysPut, HasStack
  <1>16. TokensTracked(h)'
    BY <1>6 DEF FreedKeep
  <1>17. QED
    BY <1>9, <1>10, <1>12, <1>13, <1>14, <1>15, <1>16 DEF GcsInv, Tracked

LEMMA OwnSlotFound ==
    ASSUME GcsInv, NEW s \in Sims, On(s)
    PROVE  HasStack(gcs[s].token)
  BY DEF GcsInv, Tracked, RunsTracked

LEMMA ResetGCSStateKeeps ==
    ASSUME GcsInv, NEW s \in Sims, ResetGCSState(s)
    PROVE  GcsInv'
  <1>1. On(s) /\ step[s].at = "guest"
    BY GuestIsOn DEF ResetGCSState, Running
  <1>2. /\ FreeSlot(gcs[s].token) /\ step' = [step EXCEPT ![s] = AtReset]
        /\ gcs' = gcs /\ held' = held
    BY <1>1, OwnSlotFound DEF ResetGCSState
  <1>3. /\ step'[s] = AtReset /\ gcs' = [gcs EXCEPT ![s] = gcs'[s]]
        /\ step' = [step EXCEPT ![s] = step'[s]] /\ gcs'[s] = gcs[s] /\ gcs'[s] \in GcsRecord
    BY <1>2 DEF GcsInv, Typed, GcsTyped, StepTyped
  <1>4. step'[s].at = "reset" /\ step'[s] \in StepRecord
    BY <1>3, RecordTypes DEF AtReset, At
  <1>5. QED
    BY <1>1, <1>2, <1>3, <1>4, GivesUp

LEMMA DestroyKeeps ==
    ASSUME GcsInv, NEW s \in Sims, Destroy(s)
    PROVE  GcsInv'
  <1>1. On(s) /\ step[s].at = "guest"
    BY GuestIsOn DEF Destroy, Running
  <1>2. /\ FreeSlot(gcs[s].token) /\ gcs' = [gcs EXCEPT ![s] = NoGcs]
        /\ step' = step /\ held' = held
    BY <1>1, OwnSlotFound DEF Destroy
  <1>3. /\ gcs'[s] = NoGcs /\ gcs' = [gcs EXCEPT ![s] = gcs'[s]]
        /\ step' = [step EXCEPT ![s] = step'[s]] /\ step'[s] = step[s]
        /\ step'[s] \in StepRecord
    BY <1>2 DEF GcsInv, Typed, GcsTyped, StepTyped
  <1>4. gcs'[s] \in GcsRecord
    BY <1>3, RecordTypes
  <1>5. QED
    BY <1>1, <1>2, <1>3, <1>4, GivesUp

-----------------------------------------------------------------------------
(***************************************************************************)
(* The theorems.                                                           *)
(***************************************************************************)
LEMMA InitKeeps == Init => GcsInv
  <1> SUFFICES ASSUME Init PROVE GcsInv
    OBVIOUS
  <1>1. /\ stacks = <<>> /\ DOMAIN heap = {} /\ used = 0 /\ held = {} /\ aborted = "no"
        /\ gcs = [s \in Sims |-> NoGcs] /\ step = [s \in Sims |-> AtGuest]
    BY DEF Init
  <1>2. Typed
    BY <1>1, RecordTypes
    DEF Typed, StacksTyped, UsedTyped, HeapTyped, GcsTyped, StepTyped, HeldTyped
  <1>3. Table /\ ValuesHonoured
    BY <1>1 DEF Table, ValuesHonoured
  <1>4. \A s \in Sims : step[s].at = "guest" /\ ~On(s) /\ ~Switching(s)
    BY <1>1, AtGuestIs DEF On, Alive, Switching
  <1>5. Quiet /\ Locals
    BY <1>4 DEF Quiet, Locals
  <1>6. ASSUME NEW h
        PROVE  Tracked(h)
    BY <1>1, <1>4 DEF Tracked, RunsTracked, OthersTracked, TokensTracked, ValuesTracked
  <1>7. QED
    BY <1>2, <1>3, <1>5, <1>6 DEF GcsInv

LEMMA NextKeeps == GcsInv /\ [Next]_gcsVars => GcsInv'
  <1> SUFFICES ASSUME GcsInv, [Next]_gcsVars PROVE GcsInv'
    OBVIOUS
  <1>1. CASE AllocateStack
    BY <1>1, AllocateStackKeeps
  <1>2. ASSUME NEW v \in held, FreeStack(v)
        PROVE  GcsInv'
    BY <1>2, FreeStackKeeps
  <1>3. ASSUME NEW s \in Sims,
               ActivateNewGCS(s) \/ RemoveSeal(s) \/ ResetGCSState(s) \/ Destroy(s)
        PROVE  GcsInv'
    BY <1>3, ActivateNewGCSKeeps, RemoveSealKeeps, ResetGCSStateKeeps, DestroyKeeps
  <1>4. ASSUME NEW s \in Sims, NEW e \in Pushable, GCSPush(s, e)
        PROVE  GcsInv'
    BY <1>4, GCSPushKeeps
  <1>5. ASSUME NEW s \in Sims, NEW a, Return(s, a)
        PROVE  GcsInv'
    BY <1>5, ReturnKeeps
  <1>6. ASSUME NEW s \in Sims, GCSPopM(s)
        PROVE  GcsInv'
    BY <1>6, GCSPopMKeeps
  <1>7. ASSUME NEW s \in Sims, NEW v \in held, GCSSS1Activate(s, v)
        PROVE  GcsInv'
    BY <1>7, GCSSS1ActivateKeeps
  <1>8. ASSUME NEW s \in Sims,
               GCSSS1Read(s) \/ GCSSS1Pop(s) \/ GCSSS1Check(s) \/ GCSSS1Push(s)
        PROVE  GcsInv'
    BY <1>8, GCSSS1ReadKeeps, GCSSS1PopKeeps, GCSSS1CheckKeeps, GCSSS1PushKeeps
  <1>9. ASSUME NEW s \in Sims,
               GCSSS2Pop(s) \/ GCSSS2Activate(s) \/ GCSSS2Seal(s) \/ GCSSS2Return(s)
        PROVE  GcsInv'
    BY <1>9, GCSSS2PopKeeps, GCSSS2ActivateKeeps, GCSSS2SealKeeps, GCSSS2ReturnKeeps
  <1>10. CASE UNCHANGED gcsVars
    <2>1. UNCHANGED <<stacks, heap, used, gcs, step, held, aborted>>
      BY <1>10 DEF gcsVars
    <2>2. Typed' /\ Table' /\ ValuesHonoured'
      BY <2>1 DEF GcsInv, Typed, StacksTyped, UsedTyped, HeapTyped, GcsTyped, StepTyped,
                  HeldTyped, Table, ValuesHonoured
    <2>3. Quiet' /\ Locals'
      BY <2>1 DEF GcsInv, Quiet, Locals, Alive, On
    <2>4. \A h : Tracked(h) => Tracked(h)'
      BY <2>1 DEF Tracked, RunsTracked, OthersTracked, TokensTracked, ValuesTracked, On,
                  Alive, HasStack, Switching
    <2>5. QED
      BY <2>2, <2>3, <2>4 DEF GcsInv
  <1>11. QED
    BY <1>1, <1>2, <1>3, <1>4, <1>5, <1>6, <1>7, <1>8, <1>9, <1>10 DEF Next

\* The manager's table, the pointers the Simulators have cached, the tokens on
\* their stacks and the values in circulation agree at every step of the
\* operations that give up the lock, and no two of them claim one stack.
THEOREM GcsInvariant == Spec => []GcsInv
  BY InitKeeps, NextKeeps, PTL DEF Spec

LEMMA ExclusiveFollows == GcsInv => ExclusiveStack
  <1> SUFFICES ASSUME GcsInv PROVE ExclusiveStack
    OBVIOUS
  <1>1. ASSUME NEW s \in Sims, On(s)
        PROVE  /\ gcs[s].ptr \in DOMAIN heap
               /\ \A t \in Sims : On(t) /\ gcs[t].ptr = gcs[s].ptr => t = s
    BY <1>1, OnItsOwn DEF GcsInv, Tracked
  <1>2. QED
    BY <1>1 DEF ExclusiveStack

\* No two Simulators ever have the same storage in gcs_.ptr, nor a deleted one,
\* at any step of GCSSS1, GCSSS2, ResetGCSState or between instructions: their
\* accesses without stacks_mtx_ do not race, if every value is passed once and
\* no switch token is made up.
THEOREM StacksAreExclusive == Spec => []ExclusiveStack
  BY GcsInvariant, ExclusiveFollows, PTL

LEMMA ReferencesFollow == GcsInv => ReferencesFresh
  <1> SUFFICES ASSUME GcsInv PROVE ReferencesFresh
    OBVIOUS
  <1>1. Typed /\ ValuesHonoured
    BY DEF GcsInv
  <1>2. TypeOK
    <2>1. DOMAIN heap \subseteq Storages
      <3>1. ASSUME NEW i \in DOMAIN heap
            PROVE  i \in Storages
        <4>1. used \in Nat /\ i \in 1 .. used /\ used \in {0} \cup Storages
          BY <1>1, <3>1 DEF Typed, UsedTyped, HeapTyped
        <4>2. used \in Storages
          BY <4>1
        <4>3. QED
          BY <4>1, <4>2, StoragesInitial
      <3>2. QED
        BY <3>1
    <2>2. \A i \in DOMAIN heap : heap[i] \in Seq(Entry)
      BY <1>1 DEF Typed, HeapTyped
    <2>3. aborted \in {"no", "gcs", "seal", "double free", "no stack", "dangling"}
      BY <1>1 DEF ValuesHonoured
    <2>4. QED
      BY <1>1, <2>1, <2>2, <2>3
      DEF TypeOK, Typed, StacksTyped, UsedTyped, GcsTyped, StepTyped, StepRecord, HeldTyped
  <1>3. CachedPointerFresh
    BY DEF GcsInv, Tracked, RunsTracked, CachedPointerFresh
  <1>4. QED
    BY <1>1, <1>2, <1>3 DEF ReferencesFresh

\* The pointer cached beside a token is the storage of the token's slot, and a
\* value that is presented once finds its stack with the seal and the depth it
\* names, however slots are freed and reused: GCSSS1 is never refused, no lookup
\* fails and nothing is freed twice.
THEOREM ReferencesStayFresh == Spec => []ReferencesFresh
  BY GcsInvariant, ReferencesFollow, PTL

=============================================================================
