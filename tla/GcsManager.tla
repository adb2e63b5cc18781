----------------------------- MODULE GcsManager -----------------------------
(***************************************************************************)
(* The process-wide GCSManager and the Simulators, one per thread, whose   *)
(* Guarded Control Stacks it hands out (simulator-aarch64.h), with the     *)
(* stack-switching instructions of VisitSystem.                            *)
(*                                                                         *)
(* The manager's calls run under stacks_mtx_ and are one step each.  A     *)
(* Simulator reads and writes a storage through gcs_.ptr without the lock: *)
(* GCSSS1, GCSSS2 and ResetGCSState give up the lock between their parts,  *)
(* and each access they make afterwards is a step of its own.              *)
(*                                                                         *)
(* An entry is its kind and the slot and size it encodes: a 64-bit entry   *)
(* with the low bits 1 is a seal, with 5 a switch token, and an aligned    *)
(* one a return address.  A token is its slot, which is the same number    *)
(* shifted by kPageSizeLog2; a guest value names a slot and a size.        *)
(*                                                                         *)
(* Two things are asked of hosts and guests.  The comment of AllocateStack *)
(* says that its token "can be passed *once*" to the stack switching       *)
(* instructions, whose later arguments are "fresh tokens, or return        *)
(* values" of theirs: here held is the set of the values not yet passed.   *)
(* And no guest makes up a switch token for GCSPUSHM, which pushes any     *)
(* register: PushedValues is what it does push, seals and zero included.   *)
(***************************************************************************)
EXTENDS SequencesExt, Naturals, FiniteSets

CONSTANTS
    Sims,         \* Simulators
    Addrs,        \* return addresses, 0 is kEndOfSimAddress and not one of them
    PushedValues, \* entries that guests push with GCSPUSHM
    Storages,     \* storage objects, in order of allocation: 1 .. n
    MaxDepth      \* bound on the entries that calls and GCSPUSHM put on a stack

Entry == [kind : {"ret", "seal", "switch", "zero"}, at : Addrs \cup Nat, size : Nat]

ASSUME GcsAssumption ==
    /\ IsFiniteSet(Storages) /\ Storages = 1 .. Cardinality(Storages)
    /\ 0 \notin Addrs
    /\ Sims \cap {"none", "sealed", "left"} = {}
    /\ MaxDepth \in Nat

ASSUME GuestAssumption ==
    \A e \in PushedValues :
        e \in Entry /\ e.kind # "switch" /\ (e.kind = "ret" => e.at \in Addrs)

VARIABLES
    stacks,      \* GCSManager::stacks_: per slot a storage, or 0 for nullptr
    heap,        \* contents of the allocated storages
    used,        \* storages ever allocated: the next one is used + 1
    gcs,         \* per Simulator: gcs_ as [ptr, token], NoGcs before and after its life
    step,        \* per Simulator: where it is, and its locals there
    held,        \* the values that hosts and guests have been given and not passed on
    aborted      \* why the process ended, or "no"

gcsVars == <<stacks, heap, used, gcs, step, held, aborted>>

NoGcs == [ptr |-> 0, token |-> 0]
Ret(a) == [kind |-> "ret", at |-> a, size |-> 0]
Seal(slot, size) == [kind |-> "seal", at |-> slot, size |-> size]
Switch(slot) == [kind |-> "switch", at |-> slot, size |-> 0]
Zero == [kind |-> "zero", at |-> 0, size |-> 0]
Value(slot, size) == [slot |-> slot, size |-> size]
NoValue == Value(0, 0)

\* rt is the value of the instruction, seal what GCSPop read, other the stack
\* in outgoing_gcs or incoming_gcs.
At(where, rt, seal, other) == [at |-> where, rt |-> rt, seal |-> seal, other |-> other]
AtGuest == At("guest", NoValue, Zero, NoGcs)
AtReset == At("reset", NoValue, Zero, NoGcs)
AtUnseal == At("unseal", NoValue, Zero, NoGcs)

Init ==
    /\ stacks = <<>>
    /\ heap = << >>
    /\ used = 0
    /\ gcs = [s \in Sims |-> NoGcs]
    /\ step = [s \in Sims |-> AtGuest]
    /\ held = {}
    /\ aborted = "no"

Alive(s) == gcs[s] # NoGcs
Reaches(s, where) == aborted = "no" /\ Alive(s) /\ step[s].at = where
Running(s) == Reaches(s, "guest")

-----------------------------------------------------------------------------
\* GCSManager: the process-wide table of stacks

\* Mutant: the loop stops at the first slot, its stack gone or not.
FirstSlot(st) == 1

\* The first slot whose stack is gone, or a new one at the end.
FirstFreeSlot(st) ==
    LET free == {k \in 1 .. Len(st) : st[k] = 0}
    IN  IF free = {} THEN Len(st) + 1 ELSE CHOOSE k \in free : \A j \in free : k <= j

PutAt(st, slot, i) == IF slot <= Len(st) THEN [st EXCEPT ![slot] = i] ELSE Append(st, i)

\* FreeStack: the storage is deleted and its slot becomes nullptr.
Freed(st, slot) == [st EXCEPT ![slot] = 0]

Without(h, i) == [j \in DOMAIN h \ {i} |-> h[j]]
With(h, i, q) == [j \in DOMAIN h \cup {i} |-> IF j = i THEN q ELSE h[j]]

GCSPop(q) == IF q = <<>> THEN q ELSE Front(q)

Abort(why) == aborted' = why /\ UNCHANGED <<stacks, heap, used, gcs, step, held>>

\* Whether a lookup of the slot finds a stack.
HasStack(slot) == slot \in DOMAIN stacks /\ stacks[slot] # 0

\* AllocateStackInternal: a storage in the first free slot, with its seal.
AllocateStackInternal(slot, i) ==
    /\ slot = FirstFreeSlot(stacks) /\ i = used + 1
    /\ i \in Storages
    /\ stacks' = PutAt(stacks, slot, i)
    /\ heap' = With(heap, i, <<Seal(slot, 0)>>)
    /\ used' = i

\* AllocateStack, for a host that will hand the token to a guest.
AllocateStack ==
    \E slot \in 1 .. Len(stacks) + 1, i \in Storages :
        /\ aborted = "no"
        /\ AllocateStackInternal(slot, i)
        /\ held' = held \cup {Value(slot, 0)}
        /\ UNCHANGED <<gcs, step, aborted>>

\* FreeStack of a slot's stack, by whom the guards of the callers say.
FreeSlot(slot) ==
    /\ heap' = Without(heap, stacks[slot])
    /\ stacks' = Freed(stacks, slot)
    /\ UNCHANGED <<used, aborted>>

\* FreeStack by the host that holds the token.
FreeStack(v) ==
    /\ aborted = "no"
    /\ v \in held
    /\ IF ~HasStack(v.slot) THEN Abort("double free")
       ELSE FreeSlot(v.slot) /\ held' = held \ {v} /\ UNCHANGED <<gcs, step>>

-----------------------------------------------------------------------------
\* Simulator: construction, ResetState, destruction

\* ResetGCSState, first part: FreeStack of the stack the Simulator is on.  The
\* lock is given up before the second part allocates, and the slot may go to
\* another Simulator.
ResetGCSState(s) ==
    /\ Running(s)
    /\ IF ~HasStack(gcs[s].token) THEN Abort("double free")
       ELSE /\ FreeSlot(gcs[s].token)
            /\ step' = [step EXCEPT ![s] = AtReset]
            /\ UNCHANGED <<gcs, held>>

\* ResetGCSState, second part, and all of it in the constructor: allocate and
\* activate.
ActivateNewGCS(s) ==
    \E slot \in 1 .. Len(stacks) + 1, i \in Storages :
        /\ aborted = "no"
        /\ ~Alive(s) \/ step[s].at = "reset"
        /\ AllocateStackInternal(slot, i)
        /\ gcs' = [gcs EXCEPT ![s] = [ptr |-> i, token |-> slot]]
        /\ step' = [step EXCEPT ![s] = AtUnseal]
        /\ UNCHANGED <<held, aborted>>

\* ~Simulator frees whatever stack it is on, by its token.
Destroy(s) ==
    /\ Running(s)
    /\ IF ~HasStack(gcs[s].token) THEN Abort("double free")
       ELSE /\ FreeSlot(gcs[s].token)
            /\ gcs' = [gcs EXCEPT ![s] = NoGcs]
            /\ UNCHANGED <<step, held>>

-----------------------------------------------------------------------------
\* The storage a Simulator has cached, whatever it is doing

\* If the storage was deleted under it the pointer dangles, and the process is
\* taken to end there.
Dangles(s) == gcs[s].ptr \notin DOMAIN heap
Mine(s) == heap[gcs[s].ptr]
GCSPeek(s) == IF Mine(s) = <<>> THEN Zero ELSE Last(Mine(s))

\* A step that replaces the contents by q and goes to where.
Write(s, q, where) ==
    /\ heap' = [heap EXCEPT ![gcs[s].ptr] = q]
    /\ step' = [step EXCEPT ![s] = where]
    /\ UNCHANGED <<stacks, used, gcs, held, aborted>>

\* The end of ResetGCSState: the seal is popped.
RemoveSeal(s) ==
    /\ Reaches(s, "unseal")
    /\ IF Dangles(s) THEN Abort("dangling") ELSE Write(s, GCSPop(Mine(s)), AtGuest)

\* BL, BLR and a runtime call push a return address, GCSPUSHM a register.
GCSPush(s, e) ==
    /\ Running(s)
    /\ IF Dangles(s) THEN Abort("dangling")
       ELSE Len(Mine(s)) < MaxDepth /\ Write(s, Append(Mine(s), e), AtGuest)

\* RET to addr, which may be kEndOfSimAddress: the comparison, then the pop.
\* Nothing happens at an empty stack or a zero entry, a seal or a token is a
\* misaligned address.
Return(s, addr) ==
    LET expected == GCSPeek(s)
    IN  /\ Running(s) /\ ~Dangles(s)
        /\ expected.kind # "zero"
        /\ IF expected.kind # "ret" \/ (addr # 0 /\ addr # expected.at)
           THEN Abort("gcs")
           ELSE Write(s, GCSPop(Mine(s)), AtGuest)

\* GCSPOPM: whatever is on top, unchecked.
GCSPopM(s) ==
    /\ Running(s) /\ ~Dangles(s)
    /\ Write(s, GCSPop(Mine(s)), AtGuest)

-----------------------------------------------------------------------------
\* GCSSS1: switch to the stack of a value

\* ActivateGCS: GetGCSPtr looks the slot up under the lock, with at().  A slot
\* out of range, or nullptr, ends the process.
GCSSS1Activate(s, v) ==
    /\ Running(s)
    /\ v \in held
    /\ IF ~HasStack(v.slot) THEN Abort("no stack")
       ELSE /\ gcs' = [gcs EXCEPT ![s] = [ptr |-> stacks[v.slot], token |-> v.slot]]
            /\ step' = [step EXCEPT ![s] = At("ss1 read", v, Zero, gcs[s])]
            /\ held' = held \ {v}
            /\ UNCHANGED <<stacks, heap, used, aborted>>

\* GCSPop of the incoming seal: empty() and back().
GCSSS1Read(s) ==
    /\ Reaches(s, "ss1 read")
    /\ IF Dangles(s) THEN Abort("dangling")
       ELSE /\ step' = [step EXCEPT ![s] = At("ss1 pop", @.rt, GCSPeek(s), @.other)]
            /\ UNCHANGED <<stacks, heap, used, gcs, held, aborted>>

\* GCSPop of the incoming seal: pop_back(), of whatever is on top by now.
GCSSS1Pop(s) ==
    /\ Reaches(s, "ss1 pop")
    /\ IF Dangles(s) THEN Abort("dangling")
       ELSE LET l == step[s]
            IN  Write(s, GCSPop(Mine(s)), At("ss1 check", l.rt, l.seal, l.other))

\* The incoming stack's seal must be the value's and its size the rest's.
Accepts(seal, q, v) == seal = Seal(v.slot, v.size) /\ Len(q) = v.size

\* GCSSS1: the seal that was read and the size() that is left.
GCSSS1Check(s) ==
    /\ Reaches(s, "ss1 check")
    /\ IF Dangles(s) THEN Abort("dangling")
       ELSE IF ~Accepts(step[s].seal, Mine(s), step[s].rt) THEN Abort("seal")
       ELSE /\ step' = [step EXCEPT ![s] = At("ss1 push", NoValue, Zero, @.other)]
            /\ UNCHANGED <<stacks, heap, used, gcs, held, aborted>>

\* GCSSS1: the token of the outgoing stack goes onto the incoming one.
GCSSS1Push(s) ==
    /\ Reaches(s, "ss1 push")
    /\ IF Dangles(s) THEN Abort("dangling")
       ELSE Write(s, Append(Mine(s), Switch(step[s].other.token)), AtGuest)

-----------------------------------------------------------------------------
\* GCSSS2: seal the stack that GCSSS1 left

\* Pop the outgoing stack's token.
GCSSS2Pop(s) ==
    /\ Running(s)
    /\ IF Dangles(s) THEN Abort("dangling")
       ELSE IF GCSPeek(s).kind # "switch" THEN Abort("gcs")
       ELSE Write(s, GCSPop(Mine(s)),
                  At("ss2 activate", NoValue, Zero, [ptr |-> 0, token |-> GCSPeek(s).at]))

\* ActivateGCS of the outgoing stack, the lookup under the lock.
GCSSS2Activate(s) ==
    LET slot == step[s].other.token
    IN  /\ Reaches(s, "ss2 activate")
        /\ IF ~HasStack(slot) THEN Abort("no stack")
           ELSE /\ gcs' = [gcs EXCEPT ![s] = [ptr |-> stacks[slot], token |-> slot]]
                /\ step' = [step EXCEPT ![s] = At("ss2 seal", NoValue, Zero, gcs[s])]
                /\ UNCHANGED <<stacks, heap, used, held, aborted>>

\* Mutant: the size is taken with the seal on the stack.
OutgoingValueSealed(slot, q) == Value(slot, Len(q) + 1)

\* What GCSSS2 returns: the slot and the depth of the outgoing stack.
OutgoingValue(slot, q) == Value(slot, Len(q))

\* Push the seal.
GCSSS2Seal(s) ==
    /\ Reaches(s, "ss2 seal")
    /\ IF Dangles(s) THEN Abort("dangling")
       ELSE LET v == OutgoingValue(gcs[s].token, Mine(s))
            IN  Write(s, Append(Mine(s), Seal(v.slot, v.size)),
                      At("ss2 return", v, Zero, step[s].other))

\* Mutant: the Simulator stays on the stack it has sealed.
SwitchedBackNever(s) == gcs[s]

\* ActivateGCS(incoming_gcs).
SwitchedBack(s) == step[s].other

\* Back on the incoming stack, the value goes to Rt.
GCSSS2Return(s) ==
    /\ Reaches(s, "ss2 return")
    /\ gcs' = [gcs EXCEPT ![s] = SwitchedBack(s)]
    /\ held' = held \cup {step[s].rt}
    /\ step' = [step EXCEPT ![s] = AtGuest]
    /\ UNCHANGED <<stacks, heap, used, aborted>>

Pushable == {Ret(a) : a \in Addrs} \cup PushedValues

Next ==
    \/ AllocateStack
    \/ \E v \in held : FreeStack(v)
    \/ \E s \in Sims :
         \/ ActivateNewGCS(s) \/ RemoveSeal(s) \/ ResetGCSState(s) \/ Destroy(s)
         \/ \E e \in Pushable : GCSPush(s, e)
         \/ \E a \in Addrs \cup {0} : Return(s, a)
         \/ GCSPopM(s)
         \/ \E v \in held : GCSSS1Activate(s, v)
         \/ GCSSS1Read(s) \/ GCSSS1Pop(s) \/ GCSSS1Check(s) \/ GCSSS1Push(s)
         \/ GCSSS2Pop(s) \/ GCSSS2Activate(s) \/ GCSSS2Seal(s) \/ GCSSS2Return(s)

Spec == Init /\ [][Next]_gcsVars

-----------------------------------------------------------------------------
GcsRecord == [ptr : {0} \cup Storages, token : Nat]
ValueRecord == [slot : Nat, size : Nat]
Places ==
    {"guest", "reset", "unseal", "ss1 read", "ss1 pop", "ss1 check", "ss1 push",
     "ss2 activate", "ss2 seal", "ss2 return"}

TypeOK ==
    /\ stacks \in Seq(Storages \cup {0})
    /\ DOMAIN heap \subseteq Storages
    /\ \A i \in DOMAIN heap : heap[i] \in Seq(Entry)
    /\ used \in {0} \cup Storages
    /\ gcs \in [Sims -> GcsRecord]
    /\ step \in [Sims -> [at : Places, rt : ValueRecord, seal : Entry, other : GcsRecord]]
    /\ held \subseteq ValueRecord
    /\ aborted \in {"no", "gcs", "seal", "double free", "no stack", "dangling"}

\* A Simulator whose gcs_.ptr is a storage: constructed, and not between the
\* two parts of ResetGCSState.
On(s) == Alive(s) /\ step[s].at # "reset"

\* Two Simulators never have the same storage in gcs_.ptr, nor one that FreeStack
\* deletes, at any point of the operations that give up the lock: what they read
\* and write without stacks_mtx_ does not race, if every value is passed once.
ExclusiveStack ==
    aborted = "no" =>
        \A s \in Sims : On(s) =>
            /\ gcs[s].ptr \in DOMAIN heap
            /\ \A t \in Sims : On(t) /\ gcs[t].ptr = gcs[s].ptr => t = s

\* The pointer a Simulator has cached beside its token is the storage that the
\* manager has for the token, however slots are freed and reused meanwhile.
CachedPointerFresh ==
    \A s \in Sims : On(s) => HasStack(gcs[s].token) /\ stacks[gcs[s].token] = gcs[s].ptr

\* A value says what its stack looks like until it is passed on: GCSSS1 is never
\* refused, no lookup fails, and nothing is freed twice.
ValuesHonoured == aborted \in {"no", "gcs"}

\* What is remembered of a stack is still true of it, although slots are freed
\* and reused and stacks grow and shrink: the pointer cached beside a token, and
\* the slot and the depth in a value.
ReferencesFresh == TypeOK /\ CachedPointerFresh /\ ValuesHonoured

\* The storage whose calls the Simulator's guest is running: during GCSSS2 it
\* is the one to which the Simulator will go back.
Current(s) ==
    IF step[s].at \in {"ss2 seal", "ss2 return"} THEN step[s].other.ptr ELSE gcs[s].ptr

Owner(i) ==
    IF i \notin DOMAIN heap THEN "none"
    ELSE IF \E s \in Sims : Current(s) = i THEN CHOOSE s \in Sims : Current(s) = i
    ELSE IF \E v \in held : stacks[v.slot] = i THEN "sealed"
    ELSE "left"

\* The return addresses of a stack, without its tokens and its seal: the n-th is
\* at the position up to which there are n of them.
Rets(q, k) == {j \in DOMAIN q : j <= k /\ q[j].kind = "ret"}
NthRet(q, n) == {k \in Rets(q, Len(q)) : Cardinality(Rets(q, k)) = n}
NthAddress(q, n) == CHOOSE a \in {q[k].at : k \in NthRet(q, n)} : TRUE
ReturnAddresses(q) == [n \in 1 .. Cardinality(Rets(q, Len(q))) |-> NthAddress(q, n)]

ownerMap == [i \in Storages |-> Owner(i)]
callsMap == [i \in Storages |->
                IF i \in DOMAIN heap THEN ReturnAddresses(heap[i]) ELSE <<>>]

Own == INSTANCE StackOwnership WITH
    Stacks <- Storages,
    owner <- ownerMap,
    calls <- callsMap

\* The slots, tokens, seals and locks implement private stacks: only the
\* Simulator that runs a stack changes its return addresses, and a stack that
\* was put down is taken over with the addresses it was left with.
PrivateStacks == Own!OwnSpec
=============================================================================
