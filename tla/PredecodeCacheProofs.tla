------------------------ MODULE PredecodeCacheProofs ------------------------
(***************************************************************************)
(* Proofs about PredecodeCache, for any number of threads, any address     *)
(* width, any guest text and any mapped requests.                          *)
(***************************************************************************)
EXTENDS PredecodeCache, TLAPS

-----------------------------------------------------------------------------
(***************************************************************************)
(* uintptr_t arithmetic.                                                   *)
(***************************************************************************)

\* An address computation that does not leave the address space is exact.
LEMMA NoWrap == \A a \in Int : (0 <= a /\ a < AddrLimit) => a % AddrLimit = a
  BY AddressAssumption

\* A difference that goes below zero wraps to the top of the address space.
LEMMA WrapBelow ==
    \A a \in Int : (-AddrLimit <= a /\ a < 0) => a % AddrLimit = a + AddrLimit
  BY AddressAssumption

\* Sums and differences of addresses are addresses.
LEMMA ArithType ==
    ASSUME NEW a \in Int, NEW b \in Int
    PROVE  /\ Add(a, b) \in Addr
           /\ Sub(a, b) \in Addr
  BY AddressAssumption DEF Addr, Add, Sub

\* The entry index of a containment test that passed lies inside any array.
LEMMA IndexType ==
    ASSUME NEW a \in Int, NEW b \in Int
    PROVE  Sub(a, b) \div kInstructionSize \in Index
  <1>1. Sub(a, b) \in Addr
    BY ArithType
  <1>2. QED
    BY <1>1, AddressAssumption DEF Addr, Index, kInstructionSize

\* Predecoding any word yields a well-formed entry with a leaf.
LEMMA PredecodeType ==
    ASSUME NEW a \in Addr
    PROVE  Predecode(Text[a]) \in PredecodedEntry
  <1>1. Text[a] \in Word
    BY TextAssumption DEF Addr
  <1>2. QED
    BY <1>1, TextAssumption
    DEF Predecode, PredecodedEntry, Word, Leaves, ResolvePredecodeLeaf

-----------------------------------------------------------------------------
(***************************************************************************)
(* Types.  A dispatch reads an entry through a range pointer, so the type  *)
(* invariant holds only together with the validity of those pointers.      *)
(***************************************************************************)
PointersValid ==
    \A s \in Simulators :
        /\ sim[s].cur_range # None => sim[s].cur_range \in DOMAIN ranges
        /\ (sim[s].phase = "found" /\ sim[s].range # None)
              => sim[s].range \in DOMAIN ranges

TypeInv == TypeOK /\ PointersValid

RegRecord == [phase : RegPhases, start : Addr, size : Nat,
              entries : EntryArrays, next : Nat, status : Statuses,
              quiet : BOOLEAN]

SimRecord == [phase : SimPhases, pc : Addr, cur_range : Addr \cup {None},
              range : Addr \cup {None}, entry : PredecodedEntry]

LEMMA NoEntriesType == NoEntries \in EntryArrays
  BY TextAssumption DEF NoEntries, EntryArrays, ZeroEntry, PredecodedEntry

\* Setting one field of a Simulator's fetch state keeps its type.
LEMMA SimFields ==
    ASSUME NEW r \in SimRecord
    PROVE  /\ \A p \in SimPhases : [r EXCEPT !.phase = p] \in SimRecord
           /\ \A a \in Addr : [r EXCEPT !.pc = a] \in SimRecord
           /\ \A k \in Addr \cup {None} : [r EXCEPT !.range = k] \in SimRecord
  BY DEF SimRecord

LEMMA ZeroAddr == 0 \in Addr
  BY AddressAssumption DEF Addr

LEMMA TypeInit == Init => TypeInv
  <1> SUFFICES ASSUME Init PROVE TypeInv
    OBVIOUS
  <1> USE DEF Init
  <1>1. reg \in [Registrars -> RegRecord]
    BY NoEntriesType, ZeroAddr DEF RegRecord, RegPhases, Statuses
  <1>2. ZeroEntry \in PredecodedEntry
    BY DEF ZeroEntry, PredecodedEntry
  <1>3. sim \in [Simulators -> SimRecord]
    BY <1>2, ZeroAddr DEF SimRecord, SimPhases
  <1>4. /\ DOMAIN ranges \subseteq Addr
        /\ \A k \in DOMAIN ranges : ranges[k] \in CodeRange
    OBVIOUS
  <1>5. last_error \in [status : Statuses, pc : Addr]
    BY ZeroAddr DEF Statuses
  <1>6. mutex \in [writer : Registrars \cup {None}, readers : SUBSET Simulators]
    OBVIOUS
  <1>7. TypeOK
    BY <1>1, <1>3, <1>4, <1>5, <1>6 DEF TypeOK, RegRecord, SimRecord
  <1>8. PointersValid
    BY DEF PointersValid
  <1>9. QED
    BY <1>7, <1>8 DEF TypeInv

\* A failing return keeps the types: it writes the error detail and resets
\* the call, and touches neither the table nor any Simulator.
LEMMA FailType ==
    ASSUME TypeInv, NEW t \in Registrars, NEW status \in Statuses,
           NEW pc \in Addr, Fail(t, status, pc)
    PROVE  TypeInv'
  <1> USE DEF TypeInv
  <1>1. reg' \in [Registrars -> RegRecord]
    BY NoEntriesType, ZeroAddr DEF Fail, Return, TypeOK, RegRecord, RegPhases, Quiet
  <1>2. mutex' \in [writer : Registrars \cup {None}, readers : SUBSET Simulators]
    BY DEF Fail, Return, TypeOK
  <1>3. last_error' \in [status : Statuses, pc : Addr]
    BY DEF Fail
  <1>4. UNCHANGED <<ranges, sim>>
    BY DEF Fail
  <1>5. QED
    BY <1>1, <1>2, <1>3, <1>4 DEF TypeOK, PointersValid, RegRecord

\* Moving on to the next phase keeps the types.
LEMMA GoToType ==
    ASSUME TypeInv, NEW t \in Registrars, NEW phase \in RegPhases,
           GoTo(t, phase)
    PROVE  TypeInv'
  <1>1. reg' \in [Registrars -> RegRecord]
    BY DEF GoTo, TypeInv, TypeOK, RegRecord
  <1>2. QED
    BY <1>1 DEF GoTo, TypeInv, TypeOK, PointersValid, RegRecord

\* A dispatch through a valid range pointer keeps the types.
LEMMA DispatchType ==
    ASSUME TypeInv, NEW s \in Simulators, NEW k \in DOMAIN ranges,
           Dispatch(s, k)
    PROVE  sim' \in [Simulators -> SimRecord]
  <1>1. /\ k \in Addr
        /\ ranges[k] \in CodeRange
        /\ sim \in [Simulators -> SimRecord]
    BY DEF TypeInv, TypeOK, SimRecord
  <1>2. EntryIndex(sim[s].pc, ranges[k]) \in Index
    BY <1>1, IndexType DEF EntryIndex, SimRecord, CodeRange, Addr
  <1>3. ranges[k].entries[EntryIndex(sim[s].pc, ranges[k])] \in PredecodedEntry
    BY <1>1, <1>2 DEF CodeRange, EntryArrays
  <1>4. QED
    BY <1>1, <1>3 DEF Dispatch, SimRecord, SimPhases

LEMMA TypeStep == TypeInv /\ [Next]_vars => TypeInv'
  <1> SUFFICES ASSUME TypeInv, [Next]_vars PROVE TypeInv'
    OBVIOUS
  <1>0. /\ reg \in [Registrars -> RegRecord]
        /\ sim \in [Simulators -> SimRecord]
        /\ \A k \in DOMAIN ranges : k \in Addr /\ ranges[k] \in CodeRange
    BY DEF TypeInv, TypeOK, RegRecord, SimRecord
  <1>1. ASSUME NEW t \in Registrars, Call(t) PROVE TypeInv'
    <2>1. PICK req \in Requests :
             reg' = [u \in Registrars |->
                       IF u = t
                       THEN [reg[u] EXCEPT !.phase = "locking",
                                           !.start = req[1], !.size = req[2],
                                           !.quiet = FALSE]
                       ELSE [reg[u] EXCEPT !.quiet = FALSE]]
      BY <1>1 DEF Call
    <2>2. req[1] \in Addr /\ req[2] \in Nat
      BY RequestAssumption DEF Addr
    <2>3. [reg[t] EXCEPT !.phase = "locking", !.start = req[1],
                         !.size = req[2], !.quiet = FALSE] \in RegRecord
      BY <1>0, <2>2 DEF RegRecord, RegPhases
    <2>4. reg' \in [Registrars -> RegRecord]
      BY <1>0, <2>1, <2>3 DEF RegRecord
    <2>5. QED
      BY <1>1, <2>4 DEF Call, TypeInv, TypeOK, PointersValid, RegRecord
  <1>2. ASSUME NEW t \in Registrars, LockExclusive(t) PROVE TypeInv'
    <2>1. reg' \in [Registrars -> RegRecord]
      BY <1>0, <1>2 DEF LockExclusive, RegRecord, RegPhases
    <2>2. mutex' \in [writer : Registrars \cup {None}, readers : SUBSET Simulators]
      BY <1>2 DEF LockExclusive, TypeInv, TypeOK
    <2>3. QED
      BY <1>2, <2>1, <2>2 DEF LockExclusive, TypeInv, TypeOK, PointersValid, RegRecord
  <1>3. ASSUME NEW t \in Registrars, ValidateArguments(t) PROVE TypeInv'
    <2>1. CASE Fail(t, "InvalidArgument", 0)
      BY <2>1, FailType, ZeroAddr DEF Statuses
    <2>2. CASE Fail(t, "InvalidArgument", reg[t].start)
      BY <1>0, <2>2, FailType DEF Statuses, RegRecord
    <2>3. CASE GoTo(t, "overlap")
      BY <2>3, GoToType DEF RegPhases
    <2>4. QED
      BY <1>3, <2>1, <2>2, <2>3 DEF ValidateArguments
  <1>4. ASSUME NEW t \in Registrars, CheckOverlap(t) PROVE TypeInv'
    <2>1. CASE Fail(t, "OverlappingRange", reg[t].start)
      BY <1>0, <2>1, FailType DEF Statuses, RegRecord
    <2>2. CASE GoTo(t, "allocate")
      BY <2>2, GoToType DEF RegPhases
    <2>3. QED
      BY <1>4, <2>1, <2>2 DEF CheckOverlap
  <1>5. ASSUME NEW t \in Registrars, Allocate(t) PROVE TypeInv'
    <2>1. CASE Fail(t, "OutOfMemory", reg[t].start)
      BY <1>0, <2>1, FailType DEF Statuses, RegRecord
    <2>2. CASE GoTo(t, "predecode")
      BY <2>2, GoToType DEF RegPhases
    <2>3. QED
      BY <1>5, <2>1, <2>2 DEF Allocate
  <1>6. ASSUME NEW t \in Registrars, PredecodeWord(t) PROVE TypeInv'
    <2> DEFINE addr == Add(reg[t].start, reg[t].next * kInstructionSize)
    <2>0. reg[t].start \in Int /\ reg[t].next * kInstructionSize \in Int
      BY <1>0 DEF RegRecord, Addr, kInstructionSize
    <2>1. Predecode(Text[addr]) \in PredecodedEntry
      BY <2>0, ArithType, PredecodeType
    <2>2. reg' \in [Registrars -> RegRecord]
      <3>1. CASE reg' = [reg EXCEPT ![t].phase = "commit"]
        BY <1>0, <3>1 DEF RegRecord, RegPhases
      <3>2. CASE reg' = [reg EXCEPT ![t].entries[reg[t].next] =
                                       Predecode(Text[addr]),
                                    ![t].next = reg[t].next + 1]
        <4>1. [reg[t].entries EXCEPT ![reg[t].next] = Predecode(Text[addr])]
                 \in EntryArrays
          BY <1>0, <2>1 DEF RegRecord, EntryArrays
        <4>2. QED
          BY <1>0, <3>2, <4>1 DEF RegRecord
      <3>3. QED
        BY <1>6, <3>1, <3>2 DEF PredecodeWord
    <2>3. QED
      BY <1>6, <2>2 DEF PredecodeWord, TypeInv, TypeOK, PointersValid, RegRecord
  <1>7. ASSUME NEW t \in Registrars, Commit(t) PROVE TypeInv'
    <2>1. CASE Fail(t, "OutOfMemory", reg[t].start)
      BY <1>0, <2>1, FailType DEF Statuses, RegRecord
    <2>2. CASE ~Fail(t, "OutOfMemory", reg[t].start)
      <3>1. /\ ranges' =
                 [k \in DOMAIN ranges \cup {reg[t].start} |->
                    IF k = reg[t].start
                    THEN [start |-> reg[t].start, size_bytes |-> reg[t].size,
                          entries |-> reg[t].entries]
                    ELSE ranges[k]]
            /\ Return(t, "Ok")
            /\ UNCHANGED <<last_error, sim>>
        BY <1>7, <2>2 DEF Commit
      <3>2. /\ DOMAIN ranges' \subseteq Addr
            /\ \A k \in DOMAIN ranges' : ranges'[k] \in CodeRange
        BY <1>0, <3>1 DEF RegRecord, CodeRange
      <3>3. reg' \in [Registrars -> RegRecord]
        BY <1>0, <3>1, NoEntriesType, ZeroAddr
        DEF Return, RegRecord, RegPhases, Statuses, Quiet
      <3>4. mutex' \in [writer : Registrars \cup {None}, readers : SUBSET Simulators]
        BY <3>1 DEF Return, TypeInv, TypeOK
      <3>5. PointersValid'
        BY <3>1 DEF PointersValid, TypeInv
      <3>6. QED
        BY <3>1, <3>2, <3>3, <3>4, <3>5 DEF TypeInv, TypeOK, RegRecord
    <2>3. QED
      BY <2>1, <2>2
  <1>8. ASSUME NEW s \in Simulators, Fetch(s) PROVE TypeInv'
    <2>0. PICK pc \in Addr :
             sim' = [sim EXCEPT ![s].phase = "fetch", ![s].pc = pc]
      BY <1>8 DEF Fetch
    <2>1. sim' \in [Simulators -> SimRecord]
      <3>1. sim' = [sim EXCEPT ![s] = [[sim[s] EXCEPT !.phase = "fetch"] EXCEPT !.pc = pc]]
        BY <1>0, <2>0 DEF SimRecord
      <3>2. [[sim[s] EXCEPT !.phase = "fetch"] EXCEPT !.pc = pc] \in SimRecord
        BY <1>0, SimFields DEF SimPhases
      <3>3. QED
        BY <1>0, <3>1, <3>2
    <2>2. PointersValid'
      BY <1>0, <1>8 DEF Fetch, PointersValid, TypeInv, SimRecord
    <2>3. QED
      BY <1>8, <2>1, <2>2 DEF Fetch, TypeInv, TypeOK, SimRecord
  <1>9. ASSUME NEW s \in Simulators, FastPath(s) PROVE TypeInv'
    <2>1. sim[s].cur_range \in DOMAIN ranges
      BY <1>9 DEF FastPath, Hit, TypeInv, PointersValid
    <2>2. sim' \in [Simulators -> SimRecord]
      BY <1>9, <2>1, DispatchType DEF FastPath
    <2>3. PointersValid'
      BY <1>0, <1>9, <2>1 DEF FastPath, Dispatch, PointersValid, TypeInv, SimRecord
    <2>4. QED
      BY <1>9, <2>2, <2>3 DEF FastPath, TypeInv, TypeOK, SimRecord
  <1>10. ASSUME NEW s \in Simulators, SlowPath(s) PROVE TypeInv'
    <2>1. sim' \in [Simulators -> SimRecord]
      BY <1>0, <1>10 DEF SlowPath, SimRecord, SimPhases
    <2>2. PointersValid'
      BY <1>0, <1>10 DEF SlowPath, PointersValid, TypeInv, SimRecord
    <2>3. QED
      BY <1>10, <2>1, <2>2 DEF SlowPath, TypeInv, TypeOK, SimRecord
  <1>11. ASSUME NEW s \in Simulators, LockShared(s) PROVE TypeInv'
    <2>1. sim' \in [Simulators -> SimRecord]
      BY <1>0, <1>11 DEF LockShared, SimRecord, SimPhases
    <2>2. PointersValid'
      BY <1>0, <1>11 DEF LockShared, PointersValid, TypeInv, SimRecord
    <2>3. mutex' \in [writer : Registrars \cup {None}, readers : SUBSET Simulators]
      BY <1>11 DEF LockShared, TypeInv, TypeOK
    <2>4. QED
      BY <1>11, <2>1, <2>2, <2>3 DEF LockShared, TypeInv, TypeOK, SimRecord
  <1>12. ASSUME NEW s \in Simulators, Search(s) PROVE TypeInv'
    <2>1. FindRange(sim[s].pc) \in (DOMAIN ranges) \cup {None}
      BY DEF FindRange
    <2>2. sim' \in [Simulators -> SimRecord]
      <3>1. sim' = [sim EXCEPT ![s].phase = "found",
                               ![s].range = FindRange(sim[s].pc)]
        BY <1>12 DEF Search
      <3>2. FindRange(sim[s].pc) \in Addr \cup {None}
        BY <2>1 DEF TypeInv, TypeOK
      <3>3. PICK k \in Addr \cup {None} : k = FindRange(sim[s].pc)
        BY <3>2
      <3>4. sim' = [sim EXCEPT ![s] = [[sim[s] EXCEPT !.phase = "found"] EXCEPT !.range = k]]
        BY <1>0, <3>1, <3>3 DEF SimRecord
      <3>5. [[sim[s] EXCEPT !.phase = "found"] EXCEPT !.range = k] \in SimRecord
        BY <1>0, SimFields DEF SimPhases
      <3>6. QED
        BY <1>0, <3>4, <3>5
    <2>3. PointersValid'
      BY <1>0, <1>12, <2>1 DEF Search, PointersValid, TypeInv, SimRecord
    <2>4. QED
      BY <1>12, <2>2, <2>3 DEF Search, TypeInv, TypeOK, SimRecord
  <1>13. ASSUME NEW s \in Simulators, FinishSearch(s) PROVE TypeInv'
    <2>1. mutex' \in [writer : Registrars \cup {None}, readers : SUBSET Simulators]
      BY <1>13 DEF FinishSearch, TypeInv, TypeOK
    <2>2. CASE sim[s].range = None
      <3>1. sim' \in [Simulators -> SimRecord]
        BY <1>0, <1>13, <2>2 DEF FinishSearch, SimRecord, SimPhases
      <3>2. PointersValid'
        BY <1>0, <1>13, <2>2 DEF FinishSearch, PointersValid, TypeInv, SimRecord
      <3>3. QED
        BY <1>13, <2>1, <3>1, <3>2 DEF FinishSearch, TypeInv, TypeOK, SimRecord
    <2>3. CASE sim[s].range # None
      <3>1. sim[s].range \in DOMAIN ranges
        BY <1>13, <2>3 DEF FinishSearch, TypeInv, PointersValid
      <3>2. sim' \in [Simulators -> SimRecord]
        BY <1>13, <2>3, <3>1, DispatchType DEF FinishSearch
      <3>3. PointersValid'
        BY <1>0, <1>13, <2>3, <3>1
        DEF FinishSearch, Dispatch, PointersValid, TypeInv, SimRecord
      <3>4. QED
        BY <1>13, <2>1, <3>2, <3>3 DEF FinishSearch, TypeInv, TypeOK, SimRecord
    <2>4. QED
      BY <2>2, <2>3
  <1>14. CASE UNCHANGED vars
    BY <1>14 DEF vars, TypeInv, TypeOK, PointersValid
  <1>15. QED
    BY <1>1, <1>2, <1>3, <1>4, <1>5, <1>6, <1>7, <1>8, <1>9, <1>10, <1>11,
       <1>12, <1>13, <1>14
    DEF Next, RegisterCodeRange, ExecuteInstructionCached

\* Type correctness of the cache, of every registration under way and of
\* every fetch, with range pointers that always point at a registered range.
THEOREM TypeCorrect == Spec => []TypeOK
  <1>1. Spec => []TypeInv
    BY TypeInit, TypeStep, PTL DEF Spec
  <1>2. TypeInv => TypeOK
    BY DEF TypeInv
  <1>3. QED
    BY <1>1, <1>2, PTL
=============================================================================
