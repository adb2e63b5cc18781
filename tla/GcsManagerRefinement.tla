------------------------ MODULE GcsManagerRefinement ------------------------
(***************************************************************************)
(* The GCSManager and the stack-switching instructions implement           *)
(* StackOwnership: a stack belongs to one Simulator, only its owner        *)
(* changes its return addresses, and a stack that was put down is taken    *)
(* over with the addresses it was left with.                               *)
(***************************************************************************)
EXTENDS GcsManagerProofs

-----------------------------------------------------------------------------
(***************************************************************************)
(* The return addresses of a stack.                                        *)
(***************************************************************************)
LEMMA RetsFinite ==
    ASSUME NEW q \in Seq(Entry), NEW k
    PROVE  IsFiniteSet(Rets(q, k)) /\ Cardinality(Rets(q, k)) \in Nat
  <1>1. IsFiniteSet(1 .. Len(q))
    BY FS_Interval
  <1>2. Rets(q, k) \in SUBSET (1 .. Len(q))
    BY DEF Rets
  <1>3. IsFiniteSet(Rets(q, k))
    BY <1>1, <1>2, FS_Subset
  <1>4. QED
    BY <1>3, FS_CardinalityType

LEMMA NoAddresses == ReturnAddresses(<<>>) = <<>>
  <1>1. <<>> \in Seq(Entry) /\ Len(<<>>) = 0
    OBVIOUS
  <1>2. Rets(<<>>, Len(<<>>)) = {}
    BY DEF Rets
  <1>3. Cardinality(Rets(<<>>, Len(<<>>))) = 0
    BY <1>2, FS_EmptySet
  <1>4. DOMAIN ReturnAddresses(<<>>) = {}
    BY <1>3 DEF ReturnAddresses
  <1>5. QED
    BY <1>3, <1>4 DEF ReturnAddresses

\* A token or a seal on top hides nothing and adds nothing.
LEMMA OtherEntry ==
    ASSUME NEW q \in Seq(Entry), NEW e \in Entry, e.kind # "ret"
    PROVE  ReturnAddresses(Append(q, e)) = ReturnAddresses(q)
  <1> DEFINE p == Append(q, e)
             L == Len(q)
  <1>1. /\ p \in Seq(Entry) /\ Len(p) = L + 1 /\ DOMAIN p = 1 .. L + 1
        /\ DOMAIN q = 1 .. L /\ L \in Nat /\ p[L + 1] = e
        /\ \A k \in DOMAIN q : p[k] = q[k]
    BY Pushed
  <1> HIDE DEF p, L
  <1>2. \A k \in 1 .. L + 1 : k = L + 1 \/ k \in 1 .. L
    BY <1>1
  <1>3. ASSUME NEW k \in Nat
        PROVE  Rets(p, k) = Rets(q, k)
    BY <1>1, <1>2 DEF Rets
  <1>4. Rets(p, L + 1) = Rets(q, L)
    <2>1. \A j \in 1 .. L : j <= L + 1 /\ j <= L
      BY <1>1
    <2>2. QED
      BY <1>1, <1>2, <2>1 DEF Rets
  <1>5. Rets(q, L) \subseteq 1 .. L
    BY <1>1 DEF Rets
  <1>6. ASSUME NEW n
        PROVE  {p[k].at : k \in NthRet(p, n)} = {q[k].at : k \in NthRet(q, n)}
    <2>1. NthRet(p, n) = NthRet(q, n)
      <3>1. \A k \in Rets(q, L) : Rets(p, k) = Rets(q, k)
        BY <1>1, <1>3, <1>5
      <3>2. QED
        BY <1>1, <1>4, <3>1 DEF NthRet, L
    <2>2. \A k \in NthRet(q, n) : p[k] = q[k]
      BY <1>1, <1>5 DEF NthRet, L
    <2>3. QED
      BY <2>1, <2>2
  <1>7. Rets(p, Len(p)) = Rets(q, Len(q))
    BY <1>1, <1>4 DEF L
  <1>8. \A n : NthAddress(p, n) = NthAddress(q, n)
    <2> SUFFICES ASSUME NEW n
                 PROVE  NthAddress(p, n) = NthAddress(q, n)
      OBVIOUS
    <2> DEFINE A == {p[k].at : k \in NthRet(p, n)}
               B == {q[k].at : k \in NthRet(q, n)}
    <2>1. A = B
      BY <1>6
    <2> HIDE DEF A, B
    <2>2. (CHOOSE a \in A : TRUE) = (CHOOSE a \in B : TRUE)
      BY <2>1
    <2>3. QED
      BY <2>2 DEF A, B, NthAddress
  <1>9. ReturnAddresses(p) = ReturnAddresses(q)
    BY <1>7, <1>8 DEF ReturnAddresses
  <1>10. QED
    BY <1>9 DEF p

\* A return address on top is the last one.
LEMMA RetEntry ==
    ASSUME NEW q \in Seq(Entry), NEW e \in Entry, e.kind = "ret"
    PROVE  ReturnAddresses(Append(q, e)) = Append(ReturnAddresses(q), e.at)
  <1> DEFINE a == e.at
             p == Append(q, e)
             L == Len(q)
             c == Cardinality(Rets(q, L))
  <1>0. e \in Entry /\ e.kind = "ret" /\ e.at = a
    OBVIOUS
  <1> HIDE DEF a
  <1>1. /\ p \in Seq(Entry) /\ Len(p) = L + 1 /\ DOMAIN p = 1 .. L + 1
        /\ DOMAIN q = 1 .. L /\ L \in Nat /\ p[L + 1] = e
        /\ \A k \in DOMAIN q : p[k] = q[k]
    BY <1>0, Pushed
  <1>2. IsFiniteSet(Rets(q, L)) /\ c \in Nat
    BY RetsFinite
  <1> HIDE DEF p, L, c
  <1>3. /\ \A k \in 1 .. L + 1 : k = L + 1 \/ k \in 1 .. L
        /\ \A k \in 1 .. L : k <= L /\ k <= L + 1 /\ k \in Nat /\ ~(L + 1 <= k) /\ k # L + 1
        /\ L + 1 \notin 1 .. L
    BY <1>1
  <1>4. Rets(q, L) \subseteq 1 .. L /\ \A k : Rets(q, k) \subseteq Rets(q, L)
    BY <1>1, <1>3 DEF Rets
  <1>5. ASSUME NEW k \in 1 .. L
        PROVE  Rets(p, k) = Rets(q, k)
    BY <1>1, <1>3 DEF Rets
  <1>6. Rets(p, L + 1) = Rets(q, L) \cup {L + 1}
    BY <1>0, <1>1, <1>3 DEF Rets
  <1>7. Cardinality(Rets(p, L + 1)) = c + 1
    BY <1>2, <1>3, <1>4, <1>6, FS_AddElement DEF c
  <1>8. \A k \in 1 .. L : Cardinality(Rets(q, k)) \in Nat /\ Cardinality(Rets(q, k)) <= c
    BY <1>2, <1>4, FS_Subset, RetsFinite DEF c
  <1>9. ASSUME NEW n \in 1 .. c
        PROVE  NthAddress(p, n) = NthAddress(q, n)
    <2>1. NthRet(p, n) = NthRet(q, n)
      <3>1. Cardinality(Rets(p, L + 1)) # n
        BY <1>2, <1>7
      <3>2. QED
        BY <1>1, <1>4, <1>5, <1>6, <3>1 DEF NthRet, L
    <2>2. \A k \in NthRet(q, n) : p[k] = q[k]
      BY <1>1, <1>4 DEF NthRet, L
    <2> DEFINE A == {p[k].at : k \in NthRet(p, n)}
               B == {q[k].at : k \in NthRet(q, n)}
    <2>3. A = B
      BY <2>1, <2>2
    <2> HIDE DEF A, B
    <2>4. (CHOOSE x \in A : TRUE) = (CHOOSE x \in B : TRUE)
      BY <2>3
    <2>5. QED
      BY <2>4 DEF A, B, NthAddress
  <1>10. NthAddress(p, c + 1) = a
    <2>1. NthRet(p, c + 1) = {L + 1}
      <3>1. \A k \in 1 .. L : Cardinality(Rets(p, k)) # c + 1
        BY <1>2, <1>5, <1>8
      <3>2. QED
        BY <1>1, <1>4, <1>6, <1>7, <3>1 DEF NthRet
    <2>2. {p[k].at : k \in NthRet(p, c + 1)} = {a}
      BY <1>0, <1>1, <2>1
    <2>3. QED
      BY <2>2 DEF NthAddress
  <1>11. Cardinality(Rets(p, Len(p))) = c + 1 /\ Cardinality(Rets(q, Len(q))) = c
    BY <1>1, <1>7 DEF c, L
  <1> DEFINE r == ReturnAddresses(q)
             T == {NthAddress(q, n) : n \in 1 .. c}
  <1>12. r \in Seq(T) /\ Len(r) = c /\ \A n \in 1 .. c : r[n] = NthAddress(q, n)
    <2>1. r \in [1 .. c -> T]
      BY <1>11 DEF ReturnAddresses
    <2>2. \A n \in 1 .. c : r[n] = NthAddress(q, n)
      BY <1>11 DEF ReturnAddresses
    <2> HIDE DEF r, T
    <2>3. QED
      BY <1>2, <2>1, <2>2
  <1>13. ReturnAddresses(p) = [n \in 1 .. c + 1 |-> NthAddress(p, n)]
    BY <1>11 DEF ReturnAddresses
  <1> HIDE DEF r
  <1>14. Append(r, a) = [n \in 1 .. c + 1 |-> IF n \in 1 .. c THEN r[n] ELSE a]
    <2> DEFINE U == T \cup {a}
    <2>1. r \in Seq(U) /\ a \in U
      BY <1>12
    <2> HIDE DEF U, T
    <2>2. /\ Append(r, a) \in Seq(U) /\ Len(Append(r, a)) = c + 1
          /\ Append(r, a)[c + 1] = a
          /\ \A n \in 1 .. c : Append(r, a)[n] = r[n]
      BY <1>2, <1>12, <2>1, AppendProperties
    <2>3. Append(r, a) = [n \in 1 .. c + 1 |-> Append(r, a)[n]]
      <3>1. \A x \in Seq(U) : Len(x) = c + 1 => x = [n \in 1 .. c + 1 |-> x[n]]
        BY <1>2
      <3>2. QED
        BY <2>2, <3>1
    <2>4. \A n \in 1 .. c + 1 : n \in 1 .. c \/ n = c + 1
      BY <1>2
    <2>5. \A n \in 1 .. c + 1 : Append(r, a)[n] = IF n \in 1 .. c THEN r[n] ELSE a
      BY <1>2, <2>2, <2>4
    <2>6. QED
      BY <2>3, <2>5
  <1>15. ReturnAddresses(p) = Append(r, a)
    <2>1. ASSUME NEW n \in 1 .. c + 1
          PROVE  NthAddress(p, n) = IF n \in 1 .. c THEN r[n] ELSE a
      BY <1>2, <1>9, <1>10, <1>12
    <2>2. QED
      BY <1>13, <1>14, <2>1
  <1>16. QED
    BY <1>15 DEF p, a, r

LEMMA AddressesAreSeq ==
    ASSUME NEW q \in Seq(Entry)
    PROVE  \E T : ReturnAddresses(q) \in Seq(T)
  <1> DEFINE c == Cardinality(Rets(q, Len(q)))
             T == {NthAddress(q, n) : n \in 1 .. c}
  <1>1. c \in Nat
    BY RetsFinite
  <1>2. ReturnAddresses(q) \in [1 .. c -> T]
    BY DEF ReturnAddresses
  <1> HIDE DEF c, T
  <1>3. ReturnAddresses(q) \in Seq(T)
    BY <1>1, <1>2, SeqDef
  <1>4. QED
    BY <1>3, Zenon

\* The entry on top and the rest.
LEMMA TopAndRest ==
    ASSUME NEW q \in Seq(Entry), q # <<>>
    PROVE  GCSPop(q) \in Seq(Entry) /\ Last(q) \in Entry /\ q = Append(GCSPop(q), Last(q))
  <1> DEFINE n == Len(q)
             p == GCSPop(q)
             x == Last(q)
  <1>1. /\ p \in Seq(Entry) /\ n \in Nat /\ n > 0 /\ Len(p) = n - 1
        /\ DOMAIN p = 1 .. n - 1 /\ DOMAIN q = 1 .. n
        /\ \A k \in DOMAIN p : p[k] = q[k]
    BY Popped
  <1>2. x = q[n] /\ x \in Entry
    BY <1>1 DEF Last
  <1> HIDE DEF p, x, n
  <1>3. /\ Append(p, x) \in Seq(Entry) /\ Len(Append(p, x)) = n
        /\ DOMAIN Append(p, x) = 1 .. n
        /\ Append(p, x)[n] = x
        /\ \A k \in DOMAIN p : Append(p, x)[k] = p[k]
    <2>1. Len(p) + 1 = n
      BY <1>1
    <2>2. QED
      BY <1>1, <1>2, <2>1, Pushed
  <1>4. \A k \in 1 .. n : k = n \/ k \in 1 .. n - 1
    BY <1>1
  <1>5. \A k \in 1 .. n : Append(p, x)[k] = q[k]
    BY <1>1, <1>2, <1>3, <1>4
  <1>6. q = Append(p, x)
    <2>1. ASSUME NEW u \in Seq(Entry), NEW v \in Seq(Entry), DOMAIN u = DOMAIN v,
                 \A k \in DOMAIN u : u[k] = v[k]
          PROVE  u = v
      BY <2>1
    <2>2. QED
      BY <1>1, <1>3, <1>5, <2>1
  <1>7. QED
    BY <1>1, <1>2, <1>6 DEF p, x

\* GCSPop of a return address takes off the last one, of a seal or a token none.
LEMMA PopAddress ==
    ASSUME NEW q \in Seq(Entry), q # <<>>, Last(q).kind = "ret"
    PROVE  LET r == ReturnAddresses(q)
           IN  r # <<>> /\ ReturnAddresses(GCSPop(q)) = SubSeq(r, 1, Len(r) - 1)
  <1> DEFINE p == GCSPop(q)
             b == ReturnAddresses(p)
             a == Last(q).at
             r == ReturnAddresses(q)
  <1>1. p \in Seq(Entry) /\ r = Append(b, a)
    <2>1. p \in Seq(Entry) /\ Last(q) \in Entry /\ q = Append(p, Last(q))
      BY TopAndRest
    <2>2. ReturnAddresses(Append(p, Last(q))) = Append(b, a)
      BY <2>1, RetEntry
    <2>3. QED
      BY <2>1, <2>2
  <1>2. PICK T : b \in Seq(T)
    BY <1>1, AddressesAreSeq
  <1> HIDE DEF p, b, a, r
  <1>3. r # <<>> /\ SubSeq(r, 1, Len(r) - 1) = b
    <2>1. b \in Seq(T \cup {a}) /\ a \in T \cup {a}
      BY <1>2
    <2>2. QED
      BY <1>1, <2>1
  <1>4. QED
    BY <1>3 DEF p, b, r

LEMMA PopOther ==
    ASSUME NEW q \in Seq(Entry), q # <<>>, Last(q).kind # "ret"
    PROVE  ReturnAddresses(GCSPop(q)) = ReturnAddresses(q)
  <1>1. GCSPop(q) \in Seq(Entry) /\ Last(q) \in Entry /\ q = Append(GCSPop(q), Last(q))
    BY TopAndRest
  <1>2. ReturnAddresses(Append(GCSPop(q), Last(q))) = ReturnAddresses(GCSPop(q))
    BY <1>1, OtherEntry
  <1>3. QED
    BY <1>1, <1>2

-----------------------------------------------------------------------------
(***************************************************************************)
(* The owner of a stack.                                                   *)
(***************************************************************************)
Holds(s, j) == On(s) /\ Current(s) = j
Kept(j) == \E v \in held : stacks[v.slot] = j

Owners ==
    /\ \A i \in Storages : i \notin DOMAIN heap => Owner(i) = "none"
    /\ \A s \in Sims, i \in DOMAIN heap : Holds(s, i) => Owner(i) = s
    /\ \A i \in DOMAIN heap : (\A s \in Sims : ~Holds(s, i)) =>
          Owner(i) = IF Kept(i) THEN "sealed" ELSE "left"

AtSS2 == {"ss2 seal", "ss2 return"}
CurrentSlot(s) == IF step[s].at \in AtSS2 THEN step[s].other.token ELSE gcs[s].token

\* The stack a Simulator's guest is running is in the table and claimed by it.
LEMMA CurrentClaim ==
    ASSUME GcsInv, NEW h, Tracked(h), NEW s \in Sims, On(s)
    PROVE  /\ HasStack(CurrentSlot(s)) /\ stacks[CurrentSlot(s)] = Current(s)
           /\ Current(s) \in DOMAIN heap
           /\ h[CurrentSlot(s)] = RunBy(s) \/ h[CurrentSlot(s)] = OtherOf(s)
  <1>1. CASE step[s].at \in AtSS2
    <2>1. Switching(s) /\ step[s].at # "ss2 activate"
      BY <1>1 DEF Switching, AtSS2
    <2>2. /\ HasStack(step[s].other.token) /\ h[step[s].other.token] = OtherOf(s)
          /\ stacks[step[s].other.token] = step[s].other.ptr
      BY <2>1 DEF Tracked, OthersTracked
    <2>3. CurrentSlot(s) = step[s].other.token /\ Current(s) = step[s].other.ptr
      BY <1>1 DEF CurrentSlot, Current, AtSS2
    <2>4. QED
      BY <2>2, <2>3 DEF HasStack, GcsInv, Table
  <1>2. CASE step[s].at \notin AtSS2
    <2>1. CurrentSlot(s) = gcs[s].token /\ Current(s) = gcs[s].ptr
      BY <1>2 DEF CurrentSlot, Current, AtSS2
    <2>2. QED
      BY <2>1, OnItsOwn DEF GcsInv, Tracked
  <1>3. QED
    BY <1>1, <1>2

\* Nobody else runs it.
LEMMA CurrentAlone ==
    ASSUME GcsInv, NEW s \in Sims, NEW t \in Sims, On(s), On(t), Current(s) = Current(t)
    PROVE  s = t
  <1>1. PICK h : Tracked(h)
    BY DEF GcsInv
  <1>2. /\ HasStack(CurrentSlot(s)) /\ stacks[CurrentSlot(s)] = Current(s)
        /\ h[CurrentSlot(s)] = RunBy(s) \/ h[CurrentSlot(s)] = OtherOf(s)
    BY <1>1, CurrentClaim
  <1>3. /\ HasStack(CurrentSlot(t)) /\ stacks[CurrentSlot(t)] = Current(t)
        /\ h[CurrentSlot(t)] = RunBy(t) \/ h[CurrentSlot(t)] = OtherOf(t)
    BY <1>1, CurrentClaim
  <1>4. CurrentSlot(s) = CurrentSlot(t)
    BY <1>2, <1>3 DEF GcsInv, Table, HasStack
  <1>5. QED
    BY <1>2, <1>3, <1>4, ClaimsDiffer

\* A Simulator whose stack is allocated has one.
LEMMA HolderIsOn ==
    ASSUME GcsInv, NEW s \in Sims, Current(s) \in DOMAIN heap
    PROVE  On(s)
  <1>1. Current(s) \in 1 .. used /\ used \in Nat
    BY DEF GcsInv, Typed, HeapTyped, UsedTyped
  <1>2. Current(s) # 0
    BY <1>1
  <1>3. ~On(s) => Current(s) = gcs[s].ptr
    BY DEF On, Current, GcsInv, Quiet
  <1>4. ~Alive(s) => gcs[s].ptr = 0
    BY DEF Alive, NoGcs
  <1>5. QED
    BY <1>2, <1>3, <1>4 DEF On, GcsInv, Quiet

LEMMA OwnersHold == GcsInv => Owners
  <1> SUFFICES ASSUME GcsInv
               PROVE  Owners
    OBVIOUS
  <1>1. ASSUME NEW i \in Storages, i \notin DOMAIN heap
        PROVE  Owner(i) = "none"
    BY <1>1 DEF Owner
  <1>2. ASSUME NEW s \in Sims, NEW i \in DOMAIN heap, Holds(s, i)
        PROVE  Owner(i) = s
    <2>1. \A t \in Sims : Current(t) = i => t = s
      BY <1>2, HolderIsOn, CurrentAlone DEF Holds
    <2>2. Owner(i) = CHOOSE t \in Sims : Current(t) = i
      BY <1>2 DEF Owner, Holds
    <2>3. Current(s) = i
      BY <1>2 DEF Holds
    <2>4. QED
      BY <2>1, <2>2, <2>3
  <1>3. ASSUME NEW i \in DOMAIN heap, \A s \in Sims : ~Holds(s, i)
        PROVE  Owner(i) = IF Kept(i) THEN "sealed" ELSE "left"
    <2>1. ~\E s \in Sims : Current(s) = i
      BY <1>3, HolderIsOn DEF Holds
    <2>2. QED
      BY <2>1 DEF Owner, Kept
  <1>4. QED
    BY <1>1, <1>2, <1>3 DEF Owners

LEMMA OwnersNext == GcsInv' => Owners'
  BY OwnersHold, PTL

\* A stack keeps its owner when the same Simulator runs it, and, if none does,
\* a value for it is there as before.
LEMMA OwnerFrame ==
    ASSUME Owners, Owners', NEW j \in Storages,
           j \in DOMAIN heap' <=> j \in DOMAIN heap,
           \A s \in Sims : Holds(s, j)' <=> Holds(s, j),
           (\E s \in Sims : Holds(s, j)) \/ (Kept(j)' <=> Kept(j))
    PROVE  Owner(j)' = Owner(j)
  <1>1. CASE j \notin DOMAIN heap
    BY <1>1 DEF Owners
  <1>2. CASE j \in DOMAIN heap /\ \E s \in Sims : Holds(s, j)
    BY <1>2 DEF Owners
  <1>3. CASE j \in DOMAIN heap /\ ~\E s \in Sims : Holds(s, j)
    <2>1. Owner(j) = IF Kept(j) THEN "sealed" ELSE "left"
      BY <1>3 DEF Owners
    <2>2. (\A s \in Sims : ~Holds(s, j)') /\ j \in DOMAIN heap'
      BY <1>3
    <2>3. Owner(j)' = IF Kept(j)' THEN "sealed" ELSE "left"
      BY <2>2 DEF Owners
    <2>4. QED
      BY <1>3, <2>1, <2>3
  <1>4. QED
    BY <1>1, <1>2, <1>3

CallsOf(j) == IF j \in DOMAIN heap THEN ReturnAddresses(heap[j]) ELSE <<>>

\* The two maps, stack by stack.
LEMMA OwnerMapMoves ==
    ASSUME NEW i \in Storages, \A j \in Storages : j # i => Owner(j)' = Owner(j)
    PROVE  ownerMap' = [ownerMap EXCEPT ![i] = Owner(i)']
  BY DEF ownerMap

LEMMA CallsMapMoves ==
    ASSUME NEW i \in Storages, \A j \in Storages : j # i => CallsOf(j)' = CallsOf(j)
    PROVE  callsMap' = [callsMap EXCEPT ![i] = CallsOf(i)']
  BY DEF callsMap, CallsOf

LEMMA OwnerMapStays ==
    ASSUME \A j \in Storages : Owner(j)' = Owner(j)
    PROVE  ownerMap' = ownerMap
  BY DEF ownerMap

LEMMA CallsMapStays ==
    ASSUME \A j \in Storages : CallsOf(j)' = CallsOf(j)
    PROVE  callsMap' = callsMap
  BY DEF callsMap, CallsOf

LEMMA MapsAt ==
    ASSUME NEW i \in Storages
    PROVE  ownerMap[i] = Owner(i) /\ callsMap[i] = CallsOf(i)
  BY DEF ownerMap, callsMap, CallsOf

-----------------------------------------------------------------------------
(***************************************************************************)
(* Each operation is a step of StackOwnership, or none.                    *)
(***************************************************************************)
Stutter == ownerMap' = ownerMap /\ callsMap' = callsMap

\* A storage is one of the Storages.
LEMMA HeapInStorages ==
    ASSUME GcsInv
    PROVE  DOMAIN heap \subseteq Storages
  <1>1. /\ used \in Nat /\ used \in {0} \cup Storages
        /\ DOMAIN heap \subseteq 1 .. used
    BY DEF GcsInv, Typed, UsedTyped, HeapTyped
  <1>2. ASSUME NEW i \in 1 .. used
        PROVE  i \in Storages
    <2>1. used # 0
      BY <1>1
    <2>2. QED
      BY <1>1, <2>1, StoragesInitial
  <1>3. QED
    BY <1>1, <1>2

LEMMA CallsFrame ==
    ASSUME NEW j, j \in DOMAIN heap' <=> j \in DOMAIN heap,
           j \in DOMAIN heap => heap'[j] = heap[j]
    PROVE  CallsOf(j)' = CallsOf(j)
  BY DEF CallsOf

\* A step that leaves table, values and holders alone.
SameHolders ==
    /\ stacks' = stacks /\ held' = held /\ DOMAIN heap' = DOMAIN heap
    /\ \A t \in Sims : On(t)' = On(t) /\ Current(t)' = Current(t)

LEMMA OwnersStay ==
    ASSUME GcsInv, GcsInv', SameHolders
    PROVE  ownerMap' = ownerMap
  <1>1. Owners /\ Owners'
    BY OwnersHold, OwnersNext
  <1>2. ASSUME NEW j \in Storages
        PROVE  Owner(j)' = Owner(j)
    <2>1. Kept(j)' <=> Kept(j)
      BY DEF Kept, SameHolders
    <2>2. \A t \in Sims : Holds(t, j)' <=> Holds(t, j)
      BY DEF Holds, SameHolders
    <2>3. QED
      BY <1>1, <2>1, <2>2, OwnerFrame DEF SameHolders
  <1>3. QED
    BY <1>2, OwnerMapStays

LEMMA QuietStep ==
    ASSUME GcsInv, GcsInv', SameHolders, heap' = heap
    PROVE  Stutter
  <1>1. \A j \in Storages : CallsOf(j)' = CallsOf(j)
    BY CallsFrame
  <1>2. QED
    BY <1>1, OwnersStay, CallsMapStays DEF Stutter

LEMMA AbortStep ==
    ASSUME GcsInv, GcsInv', NEW why, Abort(why)
    PROVE  Stutter
  <1>1. SameHolders /\ heap' = heap
    BY DEF Abort, SameHolders, On, Alive, Current
  <1>2. QED
    BY <1>1, QuietStep

\* A step that leaves a Simulator on the same stack.
LEMMA SameCurrent ==
    ASSUME Typed, NEW s \in Sims, On(s), NEW l \in StepRecord, l.at # "reset",
           step' = [step EXCEPT ![s] = l], gcs' = gcs,
           l.at \in AtSS2 <=> step[s].at \in AtSS2,
           l.at \in AtSS2 => l.other = step[s].other
    PROVE  \A t \in Sims : On(t)' = On(t) /\ Current(t)' = Current(t)
  <1>1. step'[s] = l /\ \A t \in Sims : t # s => step'[t] = step[t]
    BY DEF Typed, StepTyped
  <1>2. On(s)'
    BY <1>1 DEF On, Alive
  <1>3. Current(s)' = Current(s)
    <2>1. CASE l.at \in AtSS2
      <3>1. Current(s)' = l.other.ptr /\ Current(s) = step[s].other.ptr
        BY <1>1, <2>1 DEF Current, AtSS2
      <3>2. QED
        BY <2>1, <3>1
    <2>2. CASE l.at \notin AtSS2
      <3>1. Current(s)' = gcs'[s].ptr /\ Current(s) = gcs[s].ptr
        BY <1>1, <2>2 DEF Current, AtSS2
      <3>2. QED
        BY <3>1
    <2>3. QED
      BY <2>1, <2>2
  <1>4. ASSUME NEW t \in Sims, t # s
        PROVE  On(t)' = On(t) /\ Current(t)' = Current(t)
    BY <1>1, <1>4 DEF On, Alive, Current
  <1>5. ASSUME NEW t \in Sims
        PROVE  On(t)' = On(t) /\ Current(t)' = Current(t)
    <2>1. CASE t = s
      <3>1. On(s)' = On(s)
        BY <1>2, Zenon DEF On
      <3>2. QED
        BY <1>3, <2>1, <3>1
    <2>2. CASE t # s
      BY <1>4, <2>2
    <2>3. QED
      BY <2>1, <2>2
  <1>6. QED
    BY <1>5

\* Writing the stack a Simulator is on changes no owner and no other stack.
LEMMA WriteStep ==
    ASSUME GcsInv, GcsInv', NEW s \in Sims, On(s), NEW p, p = gcs[s].ptr,
           NEW q, NEW l \in StepRecord, l.at # "reset", Write(s, q, l),
           l.at \in AtSS2 <=> step[s].at \in AtSS2,
           l.at \in AtSS2 => l.other = step[s].other
    PROVE  /\ p \in Storages
           /\ callsMap[p] = ReturnAddresses(Mine(s))
           /\ ownerMap' = ownerMap
           /\ callsMap' = [callsMap EXCEPT ![p] = ReturnAddresses(q)]
  <1>1. p \in DOMAIN heap /\ p \in Storages
    BY NeverDangles, HeapInStorages DEF Dangles
  <1>2. /\ DOMAIN heap' = DOMAIN heap /\ heap'[p] = q
        /\ \A j \in DOMAIN heap : j # p => heap'[j] = heap[j]
    BY <1>1 DEF Write
  <1>3. SameHolders
    <2>1. \A t \in Sims : On(t)' = On(t) /\ Current(t)' = Current(t)
      BY SameCurrent DEF Write, GcsInv
    <2>2. QED
      BY <1>2, <2>1 DEF SameHolders, Write
  <1>4. \A j \in Storages : j # p => CallsOf(j)' = CallsOf(j)
    BY <1>2, CallsFrame
  <1>5. CallsOf(p)' = ReturnAddresses(q) /\ CallsOf(p) = ReturnAddresses(Mine(s))
    BY <1>1, <1>2 DEF CallsOf, Mine
  <1>6. callsMap' = [callsMap EXCEPT ![p] = ReturnAddresses(q)]
    BY <1>1, <1>4, <1>5, CallsMapMoves
  <1>7. QED
    BY <1>1, <1>3, <1>5, <1>6, MapsAt, OwnersStay

\* If the return addresses are the same nothing has happened.
LEMMA WriteNothing ==
    ASSUME GcsInv, GcsInv', NEW s \in Sims, On(s),
           NEW q, NEW l \in StepRecord, l.at # "reset", Write(s, q, l),
           l.at \in AtSS2 <=> step[s].at \in AtSS2,
           l.at \in AtSS2 => l.other = step[s].other,
           ReturnAddresses(q) = ReturnAddresses(Mine(s))
    PROVE  Stutter
  <1>1. PICK p : p = gcs[s].ptr
    OBVIOUS
  <1>2. /\ p \in Storages /\ callsMap[p] = ReturnAddresses(Mine(s)) /\ ownerMap' = ownerMap
        /\ callsMap' = [callsMap EXCEPT ![p] = ReturnAddresses(q)]
    BY <1>1, WriteStep
  <1>3. callsMap' = callsMap
    BY <1>2 DEF callsMap
  <1>4. QED
    BY <1>2, <1>3 DEF Stutter

\* The guest runs the stack that its Simulator is on.
LEMMA GuestOwns ==
    ASSUME GcsInv, NEW s \in Sims, On(s), step[s].at \notin AtSS2
    PROVE  /\ gcs[s].ptr \in Storages /\ gcs[s].ptr \in DOMAIN heap
           /\ Current(s) = gcs[s].ptr /\ ownerMap[gcs[s].ptr] = s
  <1>1. gcs[s].ptr \in DOMAIN heap /\ gcs[s].ptr \in Storages
    BY NeverDangles, HeapInStorages DEF Dangles
  <1>2. Current(s) = gcs[s].ptr
    BY DEF Current, AtSS2
  <1>3. Owner(gcs[s].ptr) = s
    BY <1>1, <1>2, OwnersHold DEF Owners, Holds
  <1>4. QED
    BY <1>1, <1>2, <1>3, MapsAt

-----------------------------------------------------------------------------
(***************************************************************************)
(* Calls, returns, GCSPUSHM and GCSPOPM.                                   *)
(***************************************************************************)
LEMMA PushStep ==
    ASSUME GcsInv, GcsInv', NEW s \in Sims, NEW e \in Pushable, GCSPush(s, e)
    PROVE  Stutter \/ \E i \in Storages, a \in Addrs : Own!Push(s, i, a)
  <1>1. PICK p, q : p = gcs[s].ptr /\ q = Append(Mine(s), e)
    OBVIOUS
  <1>2. On(s) /\ step[s].at = "guest"
    BY GuestIsOn DEF GCSPush, Running
  <1>3. Mine(s) \in Seq(Entry) /\ Write(s, q, AtGuest)
    BY <1>1, <1>2, NeverDangles DEF GCSPush
  <1>4. e \in Entry /\ (e.kind = "ret" => e.at \in Addrs)
    BY GuestAssumption, EntryTypes DEF Pushable, Ret
  <1>5. /\ step[s].at \notin AtSS2 /\ AtGuest.at \notin AtSS2 /\ AtGuest.at # "reset"
        /\ AtGuest \in StepRecord
    BY <1>2, AtGuestIs DEF AtSS2
  <1>6. CASE e.kind = "ret"
    <2>1. /\ p \in Storages /\ callsMap[p] = ReturnAddresses(Mine(s))
          /\ ownerMap' = ownerMap
          /\ callsMap' = [callsMap EXCEPT ![p] = ReturnAddresses(q)]
      BY <1>1, <1>2, <1>3, <1>5, WriteStep
    <2>2. ReturnAddresses(q) = Append(ReturnAddresses(Mine(s)), e.at)
      BY <1>1, <1>3, <1>4, <1>6, RetEntry
    <2>3. ownerMap[p] = s
      BY <1>1, <1>2, <1>5, GuestOwns
    <2>4. Own!Push(s, p, e.at)
      BY <2>1, <2>2, <2>3 DEF Own!Push, Own!Runs
    <2>5. QED
      BY <1>4, <1>6, <2>1, <2>4
  <1>7. CASE e.kind # "ret"
    <2>1. ReturnAddresses(q) = ReturnAddresses(Mine(s))
      BY <1>1, <1>3, <1>4, <1>7, OtherEntry
    <2>2. QED
      BY <1>2, <1>3, <1>5, <2>1, WriteNothing
  <1>8. QED
    BY <1>6, <1>7

\* GCSPop of the guest's own stack: a return, or an entry of another kind goes.
LEMMA PopStep ==
    ASSUME GcsInv, GcsInv', NEW s \in Sims, Running(s),
           Write(s, GCSPop(Mine(s)), AtGuest)
    PROVE  Stutter \/ \E i \in Storages : Own!Pop(s, i)
  <1>1. PICK p, q : p = gcs[s].ptr /\ q = GCSPop(Mine(s))
    OBVIOUS
  <1>2. On(s) /\ step[s].at = "guest"
    BY GuestIsOn DEF Running
  <1>3. Mine(s) \in Seq(Entry) /\ Write(s, q, AtGuest)
    BY <1>1, <1>2, NeverDangles
  <1>4. /\ step[s].at \notin AtSS2 /\ AtGuest.at \notin AtSS2 /\ AtGuest.at # "reset"
        /\ AtGuest \in StepRecord
    BY <1>2, AtGuestIs DEF AtSS2
  <1>5. CASE Mine(s) # <<>> /\ Last(Mine(s)).kind = "ret"
    <2>1. /\ p \in Storages /\ callsMap[p] = ReturnAddresses(Mine(s))
          /\ ownerMap' = ownerMap
          /\ callsMap' = [callsMap EXCEPT ![p] = ReturnAddresses(q)]
      BY <1>1, <1>2, <1>3, <1>4, WriteStep
    <2>2. /\ ReturnAddresses(Mine(s)) # <<>>
          /\ ReturnAddresses(q) = SubSeq(ReturnAddresses(Mine(s)), 1, Len(ReturnAddresses(Mine(s))) - 1)
      BY <1>1, <1>3, <1>5, PopAddress
    <2>3. ownerMap[p] = s
      BY <1>1, <1>2, <1>4, GuestOwns
    <2>4. Own!Pop(s, p)
      BY <2>1, <2>2, <2>3 DEF Own!Pop, Own!Runs
    <2>5. QED
      BY <2>1, <2>4
  <1>6. CASE ~(Mine(s) # <<>> /\ Last(Mine(s)).kind = "ret")
    <2>1. ReturnAddresses(q) = ReturnAddresses(Mine(s))
      BY <1>1, <1>3, <1>6, PopOther, Popped
    <2>2. QED
      BY <1>2, <1>3, <1>4, <2>1, WriteNothing
  <1>7. QED
    BY <1>5, <1>6

LEMMA ReturnStep ==
    ASSUME GcsInv, GcsInv', NEW s \in Sims, NEW a, Return(s, a)
    PROVE  Stutter \/ \E i \in Storages : Own!Pop(s, i)
  <1>1. CASE Abort("gcs")
    BY <1>1, AbortStep
  <1>2. CASE ~Abort("gcs")
    BY <1>2, PopStep DEF Return
  <1>3. QED
    BY <1>1, <1>2

-----------------------------------------------------------------------------
(***************************************************************************)
(* The parts of ResetGCSState, GCSSS1 and GCSSS2 that touch seals and      *)
(* tokens only.                                                            *)
(***************************************************************************)
LEMMA PopSeal ==
    ASSUME NEW q \in Seq(Entry), NEW v \in ValueRecord, Sealed(q, v)
    PROVE  ReturnAddresses(GCSPop(q)) = ReturnAddresses(q)
  <1>1. q # <<>> /\ Last(q) = Seal(v.slot, v.size)
    BY SealOnTop
  <1>2. Last(q).kind # "ret"
    BY <1>1 DEF Seal
  <1>3. QED
    BY <1>1, <1>2, PopOther

LEMMA RemoveSealStep ==
    ASSUME GcsInv, GcsInv', NEW s \in Sims, RemoveSeal(s)
    PROVE  Stutter
  <1>1. On(s) /\ step[s].at = "unseal"
    BY GuestIsOn DEF RemoveSeal
  <1>2. Mine(s) \in Seq(Entry) /\ Write(s, GCSPop(Mine(s)), AtGuest)
    BY <1>1, NeverDangles DEF RemoveSeal
  <1>3. Value(gcs[s].token, 0) \in ValueRecord
    BY PtrTypes DEF Value, ValueRecord, GcsInv
  <1>4. Sealed(Mine(s), Value(gcs[s].token, 0))
    BY <1>1 DEF GcsInv, Locals, Mine, Local
  <1>5. ReturnAddresses(GCSPop(Mine(s))) = ReturnAddresses(Mine(s))
    BY <1>2, <1>3, <1>4, PopSeal
  <1>6. /\ step[s].at \notin AtSS2 /\ AtGuest.at \notin AtSS2 /\ AtGuest.at # "reset"
        /\ AtGuest \in StepRecord
    BY <1>1, AtGuestIs DEF AtSS2
  <1>7. QED
    BY <1>1, <1>2, <1>5, <1>6, WriteNothing

LEMMA GCSSS1PopStep ==
    ASSUME GcsInv, GcsInv', NEW s \in Sims, GCSSS1Pop(s)
    PROVE  Stutter
  <1>1. On(s) /\ step[s].at = "ss1 pop"
    BY GuestIsOn DEF GCSSS1Pop
  <1>2. PICK l : l = At("ss1 check", step[s].rt, step[s].seal, step[s].other)
    OBVIOUS
  <1>3. Mine(s) \in Seq(Entry) /\ Write(s, GCSPop(Mine(s)), l)
    BY <1>1, <1>2, NeverDangles DEF GCSSS1Pop
  <1>4. step[s].rt \in ValueRecord /\ Sealed(Mine(s), step[s].rt)
    BY <1>1, StepFields DEF GcsInv, Locals, Mine, Local
  <1>5. ReturnAddresses(GCSPop(Mine(s))) = ReturnAddresses(Mine(s))
    BY <1>3, <1>4, PopSeal
  <1>6. step[s].at \notin AtSS2 /\ l.at \notin AtSS2 /\ l.at # "reset"
    BY <1>1, <1>2 DEF AtSS2, At
  <1>7. l \in StepRecord
    BY <1>2, StepFields, RecordTypes DEF GcsInv, Places
  <1>8. QED
    BY <1>1, <1>3, <1>5, <1>6, <1>7, WriteNothing

\* Reading the seal and checking it.
LEMMA LookStep ==
    ASSUME GcsInv, GcsInv', NEW s \in Sims, GCSSS1Read(s) \/ GCSSS1Check(s)
    PROVE  Stutter
  <1>1. On(s) /\ step[s].at \in {"ss1 read", "ss1 check"}
    BY GuestIsOn DEF GCSSS1Read, GCSSS1Check
  <1>2. ~Dangles(s)
    BY <1>1, NeverDangles
  <1>3. CASE Abort("seal")
    BY <1>3, AbortStep
  <1>4. CASE ~Abort("seal")
    <2>0. PICK l : l = IF GCSSS1Read(s)
                       THEN At("ss1 pop", step[s].rt, GCSPeek(s), step[s].other)
                       ELSE At("ss1 push", NoValue, Zero, step[s].other)
      OBVIOUS
    <2>1. /\ l.at \in {"ss1 pop", "ss1 push"}
          /\ step' = [step EXCEPT ![s] = l]
          /\ UNCHANGED <<stacks, heap, used, gcs, held, aborted>>
      <3>1. CASE GCSSS1Read(s)
        <4>1. l = At("ss1 pop", step[s].rt, GCSPeek(s), step[s].other)
          BY <2>0, <3>1
        <4>2. l.at = "ss1 pop"
          BY <4>1 DEF At
        <4>3. step' = [step EXCEPT ![s] = l] /\ UNCHANGED <<stacks, heap, used, gcs, held, aborted>>
          BY <1>2, <3>1, <4>1 DEF GCSSS1Read
        <4>4. QED
          BY <4>2, <4>3
      <3>2. CASE ~GCSSS1Read(s) /\ GCSSS1Check(s)
        <4>1. l = At("ss1 push", NoValue, Zero, step[s].other)
          BY <2>0, <3>2
        <4>2. l.at = "ss1 push"
          BY <4>1 DEF At
        <4>3. step' = [step EXCEPT ![s] = l] /\ UNCHANGED <<stacks, heap, used, gcs, held, aborted>>
          BY <1>2, <1>4, <3>2, <4>1 DEF GCSSS1Check
        <4>4. QED
          BY <4>2, <4>3
      <3>3. QED
        BY <3>1, <3>2
    <2>2. step'[s] = l /\ \A t \in Sims : t # s => step'[t] = step[t]
      BY <2>1 DEF GcsInv, Typed, StepTyped
    <2>3. l \in StepRecord
      BY <2>2 DEF GcsInv, Typed, StepTyped
    <2>4. l.at \notin AtSS2 /\ step[s].at \notin AtSS2 /\ l.at # "reset"
      BY <1>1, <2>1 DEF AtSS2
    <2>5. \A t \in Sims : On(t)' = On(t) /\ Current(t)' = Current(t)
      BY <1>1, <2>1, <2>3, <2>4, SameCurrent DEF GcsInv
    <2>6. SameHolders /\ heap' = heap
      BY <2>1, <2>5 DEF SameHolders
    <2>7. QED
      BY <2>6, QuietStep
  <1>5. QED
    BY <1>3, <1>4

LEMMA GCSSS1PushStep ==
    ASSUME GcsInv, GcsInv', NEW s \in Sims, GCSSS1Push(s)
    PROVE  Stutter
  <1>1. On(s) /\ step[s].at = "ss1 push"
    BY GuestIsOn DEF GCSSS1Push
  <1>2. PICK e : e = Switch(step[s].other.token)
    OBVIOUS
  <1>3. Mine(s) \in Seq(Entry) /\ Write(s, Append(Mine(s), e), AtGuest)
    BY <1>1, <1>2, NeverDangles DEF GCSSS1Push
  <1>4. e \in Entry /\ e.kind # "ret"
    BY <1>2, StepFields, EntryTypes DEF GcsInv, Switch
  <1>5. ReturnAddresses(Append(Mine(s), e)) = ReturnAddresses(Mine(s))
    BY <1>3, <1>4, OtherEntry
  <1>6. /\ step[s].at \notin AtSS2 /\ AtGuest.at \notin AtSS2 /\ AtGuest.at # "reset"
        /\ AtGuest \in StepRecord
    BY <1>1, AtGuestIs DEF AtSS2
  <1>7. QED
    BY <1>1, <1>3, <1>5, <1>6, WriteNothing

LEMMA GCSSS2PopStep ==
    ASSUME GcsInv, GcsInv', NEW s \in Sims, GCSSS2Pop(s)
    PROVE  Stutter
  <1>1. On(s) /\ step[s].at = "guest"
    BY GuestIsOn DEF GCSSS2Pop, Running
  <1>2. ~Dangles(s) /\ Mine(s) \in Seq(Entry)
    BY <1>1, NeverDangles
  <1>3. CASE Abort("gcs")
    BY <1>3, AbortStep
  <1>4. CASE ~Abort("gcs")
    <2>1. PICK l : l = At("ss2 activate", NoValue, Zero, [ptr |-> 0, token |-> GCSPeek(s).at])
      OBVIOUS
    <2>2. GCSPeek(s).kind = "switch" /\ Write(s, GCSPop(Mine(s)), l)
      BY <1>2, <1>4, <2>1 DEF GCSSS2Pop
    <2>3. Mine(s) # <<>> /\ Last(Mine(s)).kind = "switch"
      BY <2>2 DEF GCSPeek, Zero
    <2>4. ReturnAddresses(GCSPop(Mine(s))) = ReturnAddresses(Mine(s))
      BY <1>2, <2>3, PopOther
    <2>5. step[s].at \notin AtSS2 /\ l.at \notin AtSS2 /\ l.at # "reset"
      BY <1>1, <2>1 DEF AtSS2, At
    <2>6. l \in StepRecord
      BY <2>2 DEF Write, GcsInv, Typed, StepTyped
    <2>7. QED
      BY <1>1, <2>2, <2>4, <2>5, <2>6, WriteNothing
  <1>5. QED
    BY <1>3, <1>4

\* GCSSS2 goes to the outgoing stack, and the guest's is the other one.
LEMMA GCSSS2ActivateStep ==
    ASSUME GcsInv, GcsInv', NEW s \in Sims, GCSSS2Activate(s)
    PROVE  Stutter
  <1>1. On(s) /\ step[s].at = "ss2 activate"
    BY GuestIsOn DEF GCSSS2Activate
  <1>2. CASE Abort("no stack")
    BY <1>2, AbortStep
  <1>3. CASE ~Abort("no stack")
    <2>0. PICK l : l = At("ss2 seal", NoValue, Zero, gcs[s])
      OBVIOUS
    <2>a. l.at = "ss2 seal" /\ l.other = gcs[s]
      BY <2>0 DEF At
    <2>1. PICK g : gcs' = [gcs EXCEPT ![s] = g]
      BY <1>3 DEF GCSSS2Activate
    <2>2. step' = [step EXCEPT ![s] = l] /\ UNCHANGED <<stacks, heap, used, held, aborted>>
      BY <1>3, <2>0 DEF GCSSS2Activate
    <2>3. /\ step'[s] = l /\ \A t \in Sims : t # s => step'[t] = step[t] /\ gcs'[t] = gcs[t]
      BY <2>1, <2>2 DEF GcsInv, Typed, StepTyped, GcsTyped
    <2>4. On(s)'
      <3>1. step'[s].at = "ss2 seal"
        BY <2>a, <2>3
      <3>2. Alive(s)'
        BY <3>1 DEF GcsInv, Quiet
      <3>3. QED
        BY <3>1, <3>2 DEF On
    <2>5. Current(s)' = gcs[s].ptr /\ Current(s) = gcs[s].ptr
      <3>1. step'[s].at = "ss2 seal" /\ step'[s].other = gcs[s]
        BY <2>a, <2>3
      <3>2. QED
        BY <1>1, <3>1 DEF Current
    <2>6. ASSUME NEW t \in Sims
          PROVE  On(t)' = On(t) /\ Current(t)' = Current(t)
      <3>1. CASE t = s
        <4>1. On(s)' = On(s)
          BY <1>1, <2>4, Zenon DEF On
        <4>2. QED
          BY <2>5, <3>1, <4>1
      <3>2. CASE t # s
        BY <2>3, <3>2 DEF On, Alive, Current
      <3>3. QED
        BY <3>1, <3>2
    <2>7. SameHolders /\ heap' = heap
      BY <2>2, <2>6 DEF SameHolders
    <2>8. QED
      BY <2>7, QuietStep
  <1>4. QED
    BY <1>2, <1>3

LEMMA GCSSS2SealStep ==
    ASSUME GcsInv, GcsInv', NEW s \in Sims, GCSSS2Seal(s)
    PROVE  Stutter
  <1>1. On(s) /\ step[s].at = "ss2 seal"
    BY GuestIsOn DEF GCSSS2Seal
  <1>2. PICK v : v = OutgoingValue(gcs[s].token, Mine(s))
    OBVIOUS
  <1>3. PICK e, l : e = Seal(v.slot, v.size) /\ l = At("ss2 return", v, Zero, step[s].other)
    OBVIOUS
  <1>4. Mine(s) \in Seq(Entry) /\ Write(s, Append(Mine(s), e), l)
    BY <1>1, <1>2, <1>3, NeverDangles DEF GCSSS2Seal
  <1>5. v \in ValueRecord
    <2>1. Len(Mine(s)) \in Nat /\ gcs[s].token \in Nat
      BY <1>4, PtrTypes DEF GcsInv
    <2>2. QED
      BY <1>2, <2>1 DEF OutgoingValue, Value, ValueRecord
  <1>6. e \in Entry /\ e.kind # "ret"
    BY <1>3, <1>5, EntryTypes DEF Seal, ValueRecord
  <1>7. ReturnAddresses(Append(Mine(s), e)) = ReturnAddresses(Mine(s))
    BY <1>4, <1>6, OtherEntry
  <1>8. /\ step[s].at \in AtSS2 /\ l.at \in AtSS2 /\ l.at # "reset" /\ l.other = step[s].other
    BY <1>1, <1>3 DEF AtSS2, At
  <1>9. l \in StepRecord
    BY <1>4 DEF Write, GcsInv, Typed, StepTyped
  <1>10. QED
    BY <1>1, <1>4, <1>7, <1>8, <1>9, WriteNothing

-----------------------------------------------------------------------------
(***************************************************************************)
(* Stacks that come, go and change hands.                                  *)
(***************************************************************************)

\* A value for another stack is there after a step as before.
LEMMA KeptFrame ==
    ASSUME NEW i, NEW j, j # i, stacks' = stacks,
           \A v \in held : v \in held' \/ stacks[v.slot] = i,
           \A v \in held' : v \in held \/ stacks[v.slot] = i
    PROVE  Kept(j)' <=> Kept(j)
  BY DEF Kept

\* A new storage i: its owner is who it is for, and it has no addresses.
LEMMA NewStep ==
    ASSUME GcsInv, GcsInv', NEW slot, NEW i, Allocates(slot, i),
           held \subseteq held', \A w \in held' : w \in held \/ w.slot = slot,
           \A t \in Sims, j \in Storages : j # i => (Holds(t, j)' <=> Holds(t, j))
    PROVE  /\ i \in Storages /\ ownerMap[i] = "none"
           /\ ownerMap' = [ownerMap EXCEPT ![i] = Owner(i)']
           /\ callsMap' = callsMap
  <1>1. /\ i \in Storages /\ i \notin DOMAIN heap /\ slot \in Nat
        /\ DOMAIN heap' = DOMAIN heap \cup {i} /\ heap'[i] = <<Seal(slot, 0)>>
        /\ \A j \in DOMAIN heap : heap'[j] = heap[j]
    BY DEF Allocates
  <1>2. Owners /\ Owners'
    BY OwnersHold, OwnersNext
  <1>3. ASSUME NEW w \in held
        PROVE  stacks'[w.slot] = stacks[w.slot]
    BY DEF GcsInv, Tracked, ValuesTracked, Allocates, StaysPut
  <1>4. ASSUME NEW j \in Storages, j # i
        PROVE  Owner(j)' = Owner(j)
    <2>1. Kept(j)' <=> Kept(j)
      <3>1. stacks'[slot] = i
        BY DEF Allocates
      <3>2. QED
        BY <1>3, <1>4, <3>1 DEF Kept
    <2>2. \A t \in Sims : Holds(t, j)' <=> Holds(t, j)
      BY <1>4
    <2>3. j \in DOMAIN heap' <=> j \in DOMAIN heap
      BY <1>1, <1>4
    <2>4. QED
      BY <1>2, <2>1, <2>2, <2>3, OwnerFrame
  <1>5. ReturnAddresses(<<Seal(slot, 0)>>) = <<>>
    <2>1. Seal(slot, 0) \in Entry /\ Seal(slot, 0).kind # "ret"
      BY <1>1, EntryTypes DEF Seal
    <2>2. <<>> \in Seq(Entry) /\ <<Seal(slot, 0)>> = Append(<<>>, Seal(slot, 0))
      BY <2>1
    <2>3. ReturnAddresses(Append(<<>>, Seal(slot, 0))) = ReturnAddresses(<<>>)
      BY <2>1, <2>2, OtherEntry
    <2>4. QED
      BY <2>2, <2>3, NoAddresses
  <1>6. \A j \in Storages : CallsOf(j)' = CallsOf(j)
    <2>1. CallsOf(i)' = CallsOf(i)
      BY <1>1, <1>5 DEF CallsOf
    <2>2. QED
      BY <1>1, <2>1, CallsFrame
  <1>7. ownerMap[i] = "none"
    BY <1>1, <1>2, MapsAt DEF Owners
  <1>8. QED
    BY <1>1, <1>4, <1>6, <1>7, OwnerMapMoves, CallsMapStays

\* Nobody runs a storage that is not allocated.
LEMMA HeldIsAllocated ==
    ASSUME GcsInv, NEW s \in Sims, NEW j, Holds(s, j)
    PROVE  j \in DOMAIN heap
  BY CurrentClaim DEF GcsInv, Holds

LEMMA AllocateStep ==
    ASSUME GcsInv, GcsInv', AllocateStack
    PROVE  \E i \in Storages : Own!New(i, "sealed")
  <1>1. PICK slot, i : /\ AllocateStackInternal(slot, i) /\ UNCHANGED <<gcs, step, aborted>>
                       /\ held' = held \cup {Value(slot, 0)}
    BY DEF AllocateStack
  <1>2. Allocates(slot, i)
    BY <1>1, AllocateTable
  <1>3. ASSUME NEW t \in Sims, NEW j
        PROVE  Holds(t, j)' <=> Holds(t, j)
    BY <1>1 DEF Holds, On, Alive, Current
  <1>4. Value(slot, 0).slot = slot /\ Value(slot, 0) \in held'
    BY <1>1 DEF Value
  <1>5. /\ i \in Storages /\ ownerMap[i] = "none"
        /\ ownerMap' = [ownerMap EXCEPT ![i] = Owner(i)']
        /\ callsMap' = callsMap
    BY <1>1, <1>2, <1>3, <1>4, NewStep
  <1>6. Owner(i)' = "sealed"
    <2>1. \A t \in Sims : ~Holds(t, i)'
      BY <1>2, <1>3, HeldIsAllocated DEF Allocates
    <2>2. Kept(i)' /\ i \in DOMAIN heap'
      BY <1>2, <1>4 DEF Kept, Allocates
    <2>3. Owners'
      BY OwnersNext
    <2>4. QED
      BY <2>1, <2>2, <2>3 DEF Owners
  <1>7. "sealed" \notin Sims
    BY GcsAssumption
  <1>8. Own!New(i, "sealed")
    BY <1>5, <1>6, <1>7 DEF Own!New
  <1>9. QED
    BY <1>5, <1>8

\* The owner of a stack that is a Simulator runs it.
LEMMA OwnerRuns ==
    ASSUME GcsInv, NEW j \in Storages, NEW s \in Sims, Owner(j) = s
    PROVE  Holds(s, j)
  <1>1. Owners
    BY OwnersHold
  <1>2. \A t \in Sims : t # "none" /\ t # "sealed" /\ t # "left"
    BY GcsAssumption, Zenon
  <1>3. j \in DOMAIN heap
    BY <1>1, <1>2 DEF Owners
  <1>4. \E t \in Sims : Holds(t, j)
    BY <1>1, <1>2, <1>3 DEF Owners
  <1>5. QED
    BY <1>1, <1>3, <1>4 DEF Owners

LEMMA ActivateStep ==
    ASSUME GcsInv, GcsInv', NEW s \in Sims, ActivateNewGCS(s)
    PROVE  \E i \in Storages : Own!New(i, s)
  <1>1. PICK slot, i : /\ AllocateStackInternal(slot, i) /\ held' = held
                       /\ gcs' = [gcs EXCEPT ![s] = [ptr |-> i, token |-> slot]]
                       /\ step' = [step EXCEPT ![s] = AtUnseal]
    BY DEF ActivateNewGCS
  <1>2. Allocates(slot, i)
    BY <1>1, AllocateTable
  <1>3. ~On(s)
    BY DEF ActivateNewGCS, On
  <1>4. /\ gcs'[s].ptr = i /\ step'[s] = AtUnseal
        /\ \A t \in Sims : t # s => gcs'[t] = gcs[t] /\ step'[t] = step[t]
    BY <1>1 DEF GcsInv, Typed, GcsTyped, StepTyped
  <1>5. On(s)' /\ Current(s)' = i
    <2>1. AtUnseal.at = "unseal" /\ i # 0
      BY <1>2 DEF AtUnseal, At, Allocates
    <2>2. Alive(s)'
      BY <1>4, <2>1 DEF Alive, NoGcs
    <2>3. QED
      BY <1>4, <2>1, <2>2 DEF On, Current
  <1>6. ASSUME NEW t \in Sims, NEW j \in Storages, j # i
        PROVE  Holds(t, j)' <=> Holds(t, j)
    <2>1. CASE t = s
      BY <1>3, <1>5, <1>6, <2>1 DEF Holds
    <2>2. CASE t # s
      BY <1>4, <2>2 DEF Holds, On, Alive, Current
    <2>3. QED
      BY <2>1, <2>2
  <1>7. /\ i \in Storages /\ ownerMap[i] = "none"
        /\ ownerMap' = [ownerMap EXCEPT ![i] = Owner(i)']
        /\ callsMap' = callsMap
    <2>1. held \subseteq held' /\ \A w \in held' : w \in held
      BY <1>1
    <2>2. QED
      BY <1>2, <1>6, <2>1, NewStep
  <1>8. Owner(i)' = s
    <2>1. Owners' /\ i \in DOMAIN heap'
      BY <1>2, OwnersNext DEF Allocates
    <2>2. Holds(s, i)'
      BY <1>5 DEF Holds
    <2>3. QED
      BY <2>1, <2>2 DEF Owners
  <1>9. ~\E j \in Storages : Own!Runs(s, j)
    BY <1>3, OwnerRuns, MapsAt DEF Own!Runs, Holds
  <1>10. Own!New(i, s)
    BY <1>7, <1>8, <1>9 DEF Own!New
  <1>11. QED
    BY <1>7, <1>10

\* FreeStack, by a host, by ResetGCSState or by the destructor.
LEMMA DropStep ==
    ASSUME GcsInv, GcsInv', NEW slot, HasStack(slot), FreeSlot(slot),
           NEW p, p = stacks[slot], Owner(p) \in Sims \cup {"sealed"},
           \A t \in Sims, j \in Storages : j # p => (Holds(t, j)' <=> Holds(t, j)),
           held' \subseteq held, \A w \in held : w \in held' \/ w.slot = slot
    PROVE  \E i \in Storages : Own!Release(i)
  <1>1. /\ DOMAIN heap' = DOMAIN heap \ {p} /\ \A j \in DOMAIN heap' : heap'[j] = heap[j]
        /\ \A k : HasStack(k) /\ k # slot => stacks'[k] = stacks[k]
    <2>1. Frees(slot)
      BY FreeTable
    <2>2. \A k : HasStack(k) /\ k # slot => StaysPut(k)
      BY <2>1 DEF Frees
    <2>3. \A k : StaysPut(k) => stacks'[k] = stacks[k]
      BY DEF StaysPut
    <2>4. QED
      BY <2>1, <2>2, <2>3 DEF Frees
  <1>2. p \in DOMAIN heap /\ p \in Storages
    BY HeapInStorages DEF GcsInv, Table, HasStack
  <1>3. Owners /\ Owners'
    BY OwnersHold, OwnersNext
  <1>4. ASSUME NEW j \in Storages, j # p
        PROVE  Owner(j)' = Owner(j)
    <2>1. ASSUME NEW w \in held, w.slot # slot
          PROVE  stacks'[w.slot] = stacks[w.slot]
      BY <1>1, <2>1 DEF GcsInv, Tracked, ValuesTracked
    <2>2. \A w \in held' : w.slot = slot => stacks'[w.slot] # j
      <3>1. stacks'[slot] = 0 /\ j # 0
        BY StoragesNat DEF FreeSlot, Freed, HasStack
      <3>2. QED
        BY <3>1
    <2>3. Kept(j)' <=> Kept(j)
      BY <1>4, <2>1, <2>2 DEF Kept
    <2>4. \A t \in Sims : Holds(t, j)' <=> Holds(t, j)
      BY <1>4
    <2>5. j \in DOMAIN heap' <=> j \in DOMAIN heap
      BY <1>1, <1>4
    <2>6. QED
      BY <1>3, <2>3, <2>4, <2>5, OwnerFrame
  <1>5. \A j \in Storages : j # p => CallsOf(j)' = CallsOf(j)
    BY <1>1, CallsFrame
  <1>6. Owner(p)' = "none" /\ CallsOf(p)' = <<>>
    BY <1>1, <1>2, <1>3 DEF Owners, CallsOf
  <1>7. ownerMap' = [ownerMap EXCEPT ![p] = "none"] /\ callsMap' = [callsMap EXCEPT ![p] = <<>>]
    BY <1>2, <1>4, <1>5, <1>6, OwnerMapMoves, CallsMapMoves
  <1>8. Own!Release(p)
    BY <1>2, <1>7, MapsAt DEF Own!Release
  <1>9. QED
    BY <1>2, <1>8

\* A stack with a value is put down: nobody runs it.
LEMMA ValueSealed ==
    ASSUME GcsInv, NEW v \in held
    PROVE  /\ HasStack(v.slot) /\ stacks[v.slot] \in DOMAIN heap
           /\ Owner(stacks[v.slot]) = "sealed" /\ \A t \in Sims : ~Holds(t, stacks[v.slot])
  <1>1. PICK h : Tracked(h)
    BY DEF GcsInv
  <1>2. HasStack(v.slot) /\ h[v.slot] = ValueOf(v.size)
    BY <1>1 DEF Tracked, ValuesTracked
  <1>3. stacks[v.slot] \in DOMAIN heap
    BY <1>2 DEF HasStack, GcsInv, Table
  <1>4. ASSUME NEW t \in Sims, Holds(t, stacks[v.slot])
        PROVE  FALSE
    <2>1. /\ HasStack(CurrentSlot(t)) /\ stacks[CurrentSlot(t)] = stacks[v.slot]
          /\ h[CurrentSlot(t)] = RunBy(t) \/ h[CurrentSlot(t)] = OtherOf(t)
      BY <1>1, <1>4, CurrentClaim DEF Holds
    <2>2. CurrentSlot(t) = v.slot
      BY <1>2, <2>1 DEF HasStack, GcsInv, Table
    <2>3. QED
      BY <1>2, <2>1, <2>2, ClaimsDiffer
  <1>5. Owner(stacks[v.slot]) = "sealed"
    BY <1>3, <1>4, OwnersHold DEF Owners, Kept
  <1>6. QED
    BY <1>2, <1>3, <1>4, <1>5

LEMMA FreeStackStep ==
    ASSUME GcsInv, GcsInv', NEW v \in held, FreeStack(v)
    PROVE  \E i \in Storages : Own!Release(i)
  <1>1. PICK p, slot : slot = v.slot /\ p = stacks[slot]
    OBVIOUS
  <1>2. HasStack(slot) /\ Owner(p) = "sealed"
    BY <1>1, ValueSealed
  <1>3. FreeSlot(slot) /\ held' = held \ {v} /\ UNCHANGED <<gcs, step>>
    BY <1>1, <1>2 DEF FreeStack
  <1>4. \A t \in Sims, j \in Storages : Holds(t, j)' <=> Holds(t, j)
    BY <1>3 DEF Holds, On, Alive, Current
  <1>5. held' \subseteq held /\ \A w \in held : w \in held' \/ w.slot = slot
    BY <1>1, <1>3
  <1>6. QED
    BY <1>1, <1>2, <1>3, <1>4, <1>5, DropStep

LEMMA ResetStep ==
    ASSUME GcsInv, GcsInv', NEW s \in Sims, ResetGCSState(s) \/ Destroy(s)
    PROVE  \E i \in Storages : Own!Release(i)
  <1>1. On(s) /\ step[s].at = "guest"
    BY GuestIsOn DEF ResetGCSState, Destroy, Running
  <1>2. PICK p, slot : slot = gcs[s].token /\ p = gcs[s].ptr
    OBVIOUS
  <1>3. PICK h : Tracked(h)
    BY DEF GcsInv
  <1>4. HasStack(slot) /\ stacks[slot] = p
    BY <1>1, <1>2, <1>3, OnItsOwn DEF GcsInv, Tracked
  <1>5. p \in Storages /\ Current(s) = p /\ Owner(p) = s
    <2>1. step[s].at \notin AtSS2
      BY <1>1 DEF AtSS2
    <2>2. QED
      BY <1>1, <1>2, <2>1, GuestOwns, MapsAt
  <1>6. /\ FreeSlot(slot) /\ held' = held
        /\ \A t \in Sims : t # s => gcs'[t] = gcs[t] /\ step'[t] = step[t]
        /\ ~On(s)'
    <2>1. CASE ResetGCSState(s)
      <3>1. FreeSlot(slot) /\ step' = [step EXCEPT ![s] = AtReset] /\ UNCHANGED <<gcs, held>>
        BY <1>2, <1>4, <2>1 DEF ResetGCSState
      <3>2. step'[s] = AtReset /\ \A t \in Sims : t # s => step'[t] = step[t]
        BY <3>1 DEF GcsInv, Typed, StepTyped
      <3>3. AtReset.at = "reset"
        BY DEF AtReset, At
      <3>4. QED
        BY <3>1, <3>2, <3>3 DEF On
    <2>2. CASE Destroy(s)
      <3>1. FreeSlot(slot) /\ gcs' = [gcs EXCEPT ![s] = NoGcs] /\ UNCHANGED <<step, held>>
        BY <1>2, <1>4, <2>2 DEF Destroy
      <3>2. gcs'[s] = NoGcs /\ \A t \in Sims : t # s => gcs'[t] = gcs[t]
        BY <3>1 DEF GcsInv, Typed, GcsTyped
      <3>3. QED
        BY <3>1, <3>2 DEF On, Alive
    <2>3. QED
      BY <2>1, <2>2
  <1>7. ASSUME NEW t \in Sims, NEW j \in Storages, j # p
        PROVE  Holds(t, j)' <=> Holds(t, j)
    <2>1. CASE t = s
      BY <1>5, <1>6, <1>7, <2>1 DEF Holds
    <2>2. CASE t # s
      BY <1>6, <2>2 DEF Holds, On, Alive, Current
    <2>3. QED
      BY <2>1, <2>2
  <1>8. QED
    BY <1>4, <1>5, <1>6, <1>7, DropStep

\* ActivateGCS of GCSSS1 takes a stack over that was put down, and leaves the
\* one its Simulator was on.
LEMMA TakeOverStep ==
    ASSUME GcsInv, GcsInv', NEW s \in Sims, NEW v \in held, GCSSS1Activate(s, v)
    PROVE  \E i, j \in Storages : Own!TakeOver(s, i, j)
  <1>1. On(s) /\ step[s].at = "guest" /\ step[s].at \notin AtSS2
    <2>1. On(s) /\ step[s].at = "guest"
      BY GuestIsOn DEF GCSSS1Activate, Running
    <2>2. QED
      BY <2>1 DEF AtSS2
  <1>2. PICK o, p : o = gcs[s].ptr /\ p = stacks[v.slot]
    OBVIOUS
  <1>3. /\ HasStack(v.slot) /\ p \in DOMAIN heap /\ Owner(p) = "sealed"
        /\ \A t \in Sims : ~Holds(t, p)
    BY <1>2, ValueSealed
  <1>4. o \in Storages /\ o \in DOMAIN heap /\ Current(s) = o /\ ownerMap[o] = s
    BY <1>1, <1>2, GuestOwns
  <1>5. o # p /\ p \in Storages
    BY <1>1, <1>3, <1>4, HeapInStorages DEF Holds
  <1>6. PICK l : l = At("ss1 read", v, Zero, gcs[s])
    OBVIOUS
  <1>7. /\ gcs' = [gcs EXCEPT ![s] = [ptr |-> p, token |-> v.slot]]
        /\ step' = [step EXCEPT ![s] = l] /\ held' = held \ {v}
        /\ UNCHANGED <<stacks, heap, used, aborted>>
    BY <1>2, <1>3, <1>6 DEF GCSSS1Activate
  <1>8. /\ gcs'[s].ptr = p /\ step'[s] = l
        /\ \A t \in Sims : t # s => gcs'[t] = gcs[t] /\ step'[t] = step[t]
    BY <1>7 DEF GcsInv, Typed, GcsTyped, StepTyped
  <1>9. On(s)' /\ Current(s)' = p
    <2>1. l.at = "ss1 read"
      BY <1>6 DEF At
    <2>2. Alive(s)'
      <3>1. p # 0
        BY <1>5, StoragesNat
      <3>2. QED
        BY <1>8, <3>1 DEF Alive, NoGcs
    <2>3. QED
      BY <1>8, <2>1, <2>2 DEF On, Current
  <1>10. ASSUME NEW t \in Sims, NEW j, j # o, j # p
         PROVE  Holds(t, j)' <=> Holds(t, j)
    <2>1. CASE t = s
      BY <1>4, <1>9, <1>10, <2>1 DEF Holds
    <2>2. CASE t # s
      BY <1>8, <2>2 DEF Holds, On, Alive, Current
    <2>3. QED
      BY <2>1, <2>2
  <1>11. Owners /\ Owners'
    BY OwnersHold, OwnersNext
  <1>12. ASSUME NEW j \in Storages, j # o, j # p
         PROVE  Owner(j)' = Owner(j)
    <2>1. Kept(j)' <=> Kept(j)
      <3>1. stacks' = stacks /\ (\A w \in held : w \in held' \/ stacks[w.slot] = p)
            /\ \A w \in held' : w \in held
        BY <1>2, <1>7
      <3>2. QED
        BY <1>12, <3>1, KeptFrame
    <2>2. j \in DOMAIN heap' <=> j \in DOMAIN heap
      BY <1>7
    <2>3. QED
      BY <1>10, <1>11, <1>12, <2>1, <2>2, OwnerFrame
  <1>13. Owner(p)' = s
    <2>1. Holds(s, p)' /\ p \in DOMAIN heap'
      BY <1>3, <1>7, <1>9 DEF Holds
    <2>2. QED
      BY <1>11, <2>1 DEF Owners
  <1>14. Owner(o)' = "left"
    <2>1. ASSUME NEW t \in Sims
          PROVE  ~Holds(t, o)'
      <3>1. CASE t = s
        BY <1>5, <1>9, <3>1 DEF Holds
      <3>2. CASE t # s
        <4>1. Holds(t, o)' => Holds(t, o)
          BY <1>8, <3>2 DEF Holds, On, Alive, Current
        <4>2. QED
          BY <1>1, <1>4, <3>2, <4>1, CurrentAlone DEF Holds
      <3>3. QED
        BY <3>1, <3>2
    <2>2. ~Kept(o)'
      <3>1. ASSUME NEW w \in held
            PROVE  stacks[w.slot] # o
        <4>1. \A t \in Sims : ~Holds(t, stacks[w.slot])
          BY ValueSealed
        <4>2. Holds(s, o)
          BY <1>1, <1>4 DEF Holds
        <4>3. QED
          BY <4>1, <4>2
      <3>2. QED
        BY <1>7, <3>1 DEF Kept
    <2>3. o \in DOMAIN heap'
      BY <1>4, <1>7
    <2>4. QED
      BY <1>11, <2>1, <2>2, <2>3 DEF Owners
  <1>15. ownerMap' = [ownerMap EXCEPT ![o] = "left", ![p] = s]
    BY <1>4, <1>5, <1>12, <1>13, <1>14 DEF ownerMap
  <1>16. callsMap' = callsMap
    BY <1>7 DEF callsMap
  <1>17. ownerMap[p] = "sealed"
    BY <1>3, <1>5, MapsAt
  <1>18. Own!TakeOver(s, o, p)
    BY <1>4, <1>15, <1>16, <1>17 DEF Own!TakeOver, Own!Runs
  <1>19. QED
    BY <1>4, <1>5, <1>18

\* The end of GCSSS2 puts the stack down that GCSSS1 left.
LEMMA PutDownStep ==
    ASSUME GcsInv, GcsInv', NEW s \in Sims, GCSSS2Return(s)
    PROVE  \E i \in Storages : Own!PutDown(i)
  <1>1. On(s) /\ step[s].at = "ss2 return" /\ step[s].at \in AtSS2
    BY GuestIsOn DEF GCSSS2Return, AtSS2
  <1>2. PICK i, v, o : i = gcs[s].ptr /\ v = step[s].rt /\ o = step[s].other
    OBVIOUS
  <1>3. PICK h : Tracked(h)
    BY DEF GcsInv
  <1>4. /\ HasStack(gcs[s].token) /\ stacks[gcs[s].token] = i /\ h[gcs[s].token] = RunBy(s)
        /\ i \in DOMAIN heap
    BY <1>1, <1>2, <1>3, OnItsOwn DEF GcsInv, Tracked
  <1>5. v.slot = gcs[s].token
    BY <1>1, <1>2 DEF GcsInv, Locals, Local
  <1>6. /\ gcs' = [gcs EXCEPT ![s] = o] /\ held' = held \cup {v}
        /\ step' = [step EXCEPT ![s] = AtGuest]
        /\ UNCHANGED <<stacks, heap, used, aborted>>
    BY <1>2 DEF GCSSS2Return, SwitchedBack
  <1>7. /\ gcs'[s] = o /\ step'[s] = AtGuest
        /\ \A t \in Sims : t # s => gcs'[t] = gcs[t] /\ step'[t] = step[t]
    BY <1>6 DEF GcsInv, Typed, GcsTyped, StepTyped
  <1>8. CurrentSlot(s) = o.token /\ h[o.token] = OtherOf(s) /\ Current(s) = o.ptr /\ o.ptr # 0
    <2>1. Switching(s)
      BY <1>1 DEF Switching
    <2>2. h[o.token] = OtherOf(s)
      BY <1>2, <1>3, <2>1 DEF Tracked, OthersTracked
    <2>3. CurrentSlot(s) = o.token /\ Current(s) = o.ptr
      BY <1>1, <1>2 DEF CurrentSlot, Current, AtSS2
    <2>4. o.ptr \in DOMAIN heap
      BY <1>1, <1>3, <2>3, CurrentClaim
    <2>5. QED
      BY <2>2, <2>3, <2>4, HeapInStorages, StoragesNat
  <1>9. On(s)' /\ Current(s)' = o.ptr
    <2>1. Alive(s)'
      BY <1>7, <1>8 DEF Alive, NoGcs
    <2>2. QED
      BY <1>7, <2>1, AtGuestIs DEF On, Current
  <1>10. ASSUME NEW t \in Sims, NEW j
         PROVE  Holds(t, j)' <=> Holds(t, j)
    <2>1. CASE t = s
      BY <1>1, <1>8, <1>9, <2>1 DEF Holds
    <2>2. CASE t # s
      BY <1>7, <2>2 DEF Holds, On, Alive, Current
    <2>3. QED
      BY <2>1, <2>2
  <1>11. ASSUME NEW t \in Sims, Holds(t, i)
         PROVE  FALSE
    <2>1. /\ HasStack(CurrentSlot(t)) /\ stacks[CurrentSlot(t)] = i
          /\ h[CurrentSlot(t)] = RunBy(t) \/ h[CurrentSlot(t)] = OtherOf(t)
      BY <1>3, <1>11, CurrentClaim DEF Holds
    <2>2. CurrentSlot(t) = gcs[s].token
      BY <1>4, <2>1 DEF HasStack, GcsInv, Table
    <2>3. t = s
      BY <1>4, <2>1, <2>2, ClaimsDiffer
    <2>4. QED
      BY <1>4, <1>8, <2>2, <2>3, ClaimsDiffer
  <1>12. ~Kept(i)
    <2>1. ASSUME NEW w \in held
          PROVE  stacks[w.slot] # i
      BY <1>1, <1>2, <1>3, ValueApart DEF GcsInv, Tracked
    <2>2. QED
      BY <2>1 DEF Kept
  <1>13. Owners /\ Owners' /\ i \in Storages
    BY <1>4, OwnersHold, OwnersNext, HeapInStorages
  <1>14. Owner(i) = "left"
    BY <1>4, <1>11, <1>12, <1>13 DEF Owners
  <1>15. Owner(i)' = "sealed"
    <2>1. Kept(i)'
      BY <1>4, <1>5, <1>6 DEF Kept
    <2>2. i \in DOMAIN heap' /\ \A t \in Sims : ~Holds(t, i)'
      BY <1>4, <1>6, <1>10, <1>11
    <2>3. QED
      BY <1>13, <2>1, <2>2 DEF Owners
  <1>16. ASSUME NEW j \in Storages, j # i
         PROVE  Owner(j)' = Owner(j)
    <2>1. Kept(j)' <=> Kept(j)
      <3>1. /\ stacks' = stacks /\ (\A w \in held : w \in held')
            /\ \A w \in held' : w \in held \/ stacks[w.slot] = i
        BY <1>4, <1>5, <1>6
      <3>2. QED
        BY <1>16, <3>1, KeptFrame
    <2>2. j \in DOMAIN heap' <=> j \in DOMAIN heap
      BY <1>6
    <2>3. QED
      BY <1>10, <1>13, <1>16, <2>1, <2>2, OwnerFrame
  <1>17. ownerMap' = [ownerMap EXCEPT ![i] = "sealed"] /\ callsMap' = callsMap
    <2>1. ownerMap' = [ownerMap EXCEPT ![i] = "sealed"]
      BY <1>13, <1>15, <1>16, OwnerMapMoves
    <2>2. QED
      BY <1>6, <2>1 DEF callsMap
  <1>18. Own!PutDown(i)
    BY <1>13, <1>14, <1>17, MapsAt DEF Own!PutDown
  <1>19. QED
    BY <1>13, <1>18

-----------------------------------------------------------------------------
LEMMA OwnInitHolds == Init => Own!OwnInit
  <1> SUFFICES ASSUME Init
               PROVE  Own!OwnInit
    OBVIOUS
  <1>1. DOMAIN heap = {}
    BY DEF Init
  <1>2. ownerMap = [i \in Storages |-> "none"] /\ callsMap = [i \in Storages |-> <<>>]
    BY <1>1 DEF ownerMap, callsMap, Owner
  <1>3. QED
    BY <1>2 DEF Own!OwnInit

LEMMA OwnStep ==
    GcsInv /\ GcsInv' /\ [Next]_gcsVars => [Own!OwnNext]_(Own!ownVars)
  <1> SUFFICES ASSUME GcsInv, GcsInv', [Next]_gcsVars
               PROVE  Own!OwnNext \/ Stutter
    BY DEF Stutter, Own!ownVars
  <1>1. CASE AllocateStack
    BY <1>1, AllocateStep DEF Own!OwnNext
  <1>2. ASSUME NEW v \in held, FreeStack(v)
        PROVE  Own!OwnNext
    BY <1>2, FreeStackStep DEF Own!OwnNext
  <1>3. ASSUME NEW s \in Sims, ActivateNewGCS(s) \/ ResetGCSState(s) \/ Destroy(s)
        PROVE  Own!OwnNext
    BY <1>3, ActivateStep, ResetStep DEF Own!OwnNext
  <1>4. ASSUME NEW s \in Sims, NEW e \in Pushable, GCSPush(s, e)
        PROVE  Own!OwnNext \/ Stutter
    BY <1>4, PushStep DEF Own!OwnNext
  <1>5. ASSUME NEW s \in Sims, NEW a \in Addrs \cup {0}, Return(s, a)
        PROVE  Own!OwnNext \/ Stutter
    BY <1>5, ReturnStep DEF Own!OwnNext
  <1>6. ASSUME NEW s \in Sims, GCSPopM(s)
        PROVE  Own!OwnNext \/ Stutter
    BY <1>6, PopStep DEF Own!OwnNext, GCSPopM
  <1>7. ASSUME NEW s \in Sims, NEW v \in held, GCSSS1Activate(s, v)
        PROVE  Own!OwnNext
    BY <1>7, TakeOverStep DEF Own!OwnNext
  <1>8. ASSUME NEW s \in Sims, GCSSS2Return(s)
        PROVE  Own!OwnNext
    BY <1>8, PutDownStep DEF Own!OwnNext
  <1>9. ASSUME NEW s \in Sims,
               \/ RemoveSeal(s) \/ GCSSS1Read(s) \/ GCSSS1Pop(s) \/ GCSSS1Check(s)
               \/ GCSSS1Push(s) \/ GCSSS2Pop(s) \/ GCSSS2Activate(s) \/ GCSSS2Seal(s)
        PROVE  Stutter
    BY <1>9, RemoveSealStep, LookStep, GCSSS1PopStep, GCSSS1PushStep, GCSSS2PopStep,
       GCSSS2ActivateStep, GCSSS2SealStep
  <1>10. CASE UNCHANGED gcsVars
    <2>1. SameHolders /\ heap' = heap
      BY <1>10 DEF gcsVars, SameHolders, On, Alive, Current
    <2>2. QED
      BY <2>1, QuietStep
  <1>11. QED
    BY <1>1, <1>2, <1>3, <1>4, <1>5, <1>6, <1>7, <1>8, <1>9, <1>10 DEF Next

\* The slots, tokens, seals and locks implement private stacks, for any number
\* of Simulators and although the parts of a switch interleave, if every value is
\* passed once: a stack has one owner, only it changes the stack's return
\* addresses, and a stack is taken over with the addresses it was put down with.
THEOREM StacksArePrivate == Spec => PrivateStacks
  <1>1. Spec => []GcsInv
    BY GcsInvariant
  <1>2. QED
    BY <1>1, OwnInitHolds, OwnStep, PTL
    DEF Spec, PrivateStacks, Own!OwnSpec
=============================================================================
