------------------------ MODULE PredecodeCacheSafety ------------------------
(***************************************************************************)
(* The safety properties of PredecodeCache, proved for any number of       *)
(* threads, any address width, any guest text and any mapped requests.     *)
(*                                                                         *)
(* The argument: table_mutex_ makes a registration the only one past its   *)
(* lock (LockDiscipline), so what its overlap check found is still true    *)
(* when it commits (CandidateClear); the table therefore holds disjoint,   *)
(* well-formed ranges whose arrays were filled before they were published  *)
(* (TableSound, RangesApart), and both ways of finding a range lead to the *)
(* entry of the word at the PC.                                            *)
(***************************************************************************)
EXTENDS PredecodeCacheProofs

Critical == {"validate", "overlap", "allocate", "predecode", "commit"}

\* The first n entries of an array are the predecoding of the text at start.
Filled(entries, start, n) ==
    \A i \in 0 .. n - 1 :
        entries[i] = Predecode(Text[start + i * kInstructionSize])

WellFormedRange(start, size) ==
    /\ size # 0 /\ size % kInstructionSize = 0
    /\ start % kInstructionSize = 0

Before(start, size, other) == start + size <= other

\* What a call to RegisterCodeRange knows of its own arguments and array.
CallSound(c) ==
    /\ c.start + c.size < AddrLimit
    /\ c.phase \in {"overlap", "allocate", "predecode", "commit"}
          => WellFormedRange(c.start, c.size)
    /\ c.phase \notin {"predecode", "commit"} => c.next = 0
    /\ c.phase = "commit" => c.next = c.size \div kInstructionSize
    /\ c.next <= c.size \div kInstructionSize
    /\ Filled(c.entries, c.start, c.next)

CallsSound == \A t \in Registrars : CallSound(reg[t])

\* Past its overlap check, a candidate is clear of every registered range.
CandidateClear ==
    \A t \in Registrars :
        reg[t].phase \in {"allocate", "predecode", "commit"} =>
            \A k \in DOMAIN ranges :
                \/ Before(reg[t].start, reg[t].size, ranges[k].start)
                \/ Before(ranges[k].start, ranges[k].size_bytes, reg[t].start)

RangeSound(k, r) ==
    /\ r.start = k
    /\ WellFormedRange(r.start, r.size_bytes)
    /\ r.start + r.size_bytes < AddrLimit
    /\ Filled(r.entries, r.start, r.size_bytes \div kInstructionSize)

TableSound == \A k \in DOMAIN ranges : RangeSound(k, ranges[k])

RangesApart ==
    \A j, k \in DOMAIN ranges :
        j # k => \/ Before(ranges[j].start, ranges[j].size_bytes, ranges[k].start)
                 \/ Before(ranges[k].start, ranges[k].size_bytes, ranges[j].start)

\* A fetch looks up instruction addresses.
PcAligned == \A s \in Simulators : sim[s].pc % kInstructionSize = 0

-----------------------------------------------------------------------------
(***************************************************************************)
(* What single steps do to the calls under way.                            *)
(***************************************************************************)

\* A new call seats its arguments; of the other calls it only notes that
\* they are no longer alone.
LEMMA CallEffect ==
    ASSUME TypeInv, NEW t \in Registrars, Call(t)
    PROVE  \E req \in Requests :
             /\ reg[t].phase \in {"idle", "returned"}
             /\ reg'[t].phase = "locking"
             /\ reg'[t].start = req[1] /\ reg'[t].size = req[2]
             /\ reg'[t].entries = reg[t].entries /\ reg'[t].next = reg[t].next
             /\ \A u \in Registrars : reg'[u].quiet = FALSE
             /\ \A u \in Registrars \ {t} :
                   /\ reg'[u].phase = reg[u].phase
                   /\ reg'[u].start = reg[u].start
                   /\ reg'[u].size = reg[u].size
                   /\ reg'[u].entries = reg[u].entries
                   /\ reg'[u].next = reg[u].next
                   /\ reg'[u].status = reg[u].status
  <1>0. reg \in [Registrars -> RegRecord]
    BY DEF TypeInv, TypeOK, RegRecord
  <1>1. PICK req \in Requests :
           reg' = [u \in Registrars |->
                     IF u = t
                     THEN [reg[u] EXCEPT !.phase = "locking",
                                         !.start = req[1], !.size = req[2],
                                         !.quiet = FALSE]
                     ELSE [reg[u] EXCEPT !.quiet = FALSE]]
    BY DEF Call
  <1>2. reg[t].phase \in {"idle", "returned"}
    BY DEF Call
  <1>3. QED
    BY <1>0, <1>1, <1>2 DEF RegRecord

LEMMA CallMine ==
    ASSUME TypeInv, NEW t \in Registrars, Call(t)
    PROVE  reg[t].phase \in {"idle", "returned"} /\ reg'[t].phase = "locking"
  BY CallEffect

LEMMA CallOthers ==
    ASSUME TypeInv, NEW t \in Registrars, Call(t), NEW u \in Registrars \ {t}
    PROVE  /\ reg'[u].phase = reg[u].phase /\ reg'[u].start = reg[u].start
           /\ reg'[u].size = reg[u].size /\ reg'[u].entries = reg[u].entries
           /\ reg'[u].next = reg[u].next
  <1>0. reg[u] \in RegRecord
    BY DEF TypeInv, TypeOK, RegRecord
  <1>1. reg'[u] = [reg[u] EXCEPT !.quiet = FALSE]
    BY DEF Call
  <1>2. QED
    BY <1>0, <1>1 DEF RegRecord

\* A turn of the predecode loop fills the next entry, or ends the loop.
LEMMA PredecodeEffect ==
    ASSUME TypeInv, NEW t \in Registrars, PredecodeWord(t)
    PROVE  /\ reg[t].phase = "predecode"
           /\ \A u \in Registrars \ {t} : reg'[u] = reg[u]
           /\ reg'[t].start = reg[t].start /\ reg'[t].size = reg[t].size
           /\ reg'[t].status = reg[t].status /\ reg'[t].quiet = reg[t].quiet
           /\ \/ /\ reg[t].next < reg[t].size \div kInstructionSize
                 /\ reg'[t].phase = "predecode"
                 /\ reg'[t].next = reg[t].next + 1
                 /\ reg'[t].entries =
                      [reg[t].entries EXCEPT ![reg[t].next] =
                         Predecode(Text[Add(reg[t].start,
                                            reg[t].next * kInstructionSize)])]
              \/ /\ ~(reg[t].next < reg[t].size \div kInstructionSize)
                 /\ reg'[t].phase = "commit"
                 /\ reg'[t].next = reg[t].next
                 /\ reg'[t].entries = reg[t].entries
  <1>0. reg \in [Registrars -> RegRecord]
    BY DEF TypeInv, TypeOK, RegRecord
  <1>1. reg[t].phase = "predecode"
    BY DEF PredecodeWord
  <1>2. CASE ~(reg[t].next < reg[t].size \div kInstructionSize)
    BY <1>0, <1>1, <1>2 DEF PredecodeWord, RegRecord
  <1>3. CASE reg[t].next < reg[t].size \div kInstructionSize
    <2> DEFINE w == Predecode(Text[Add(reg[t].start,
                                       reg[t].next * kInstructionSize)])
    <2>1. reg' = [reg EXCEPT ![t].entries[reg[t].next] = w,
                             ![t].next = reg[t].next + 1]
      BY <1>3 DEF PredecodeWord
    <2> HIDE DEF w
    <2>2. QED
      BY <1>0, <1>1, <1>3, <2>1 DEF RegRecord, w
  <1>4. QED
    BY <1>2, <1>3

\* Leaving RegisterCodeRange resets the call and drops the lock.
LEMMA ReturnEffect ==
    ASSUME TypeInv, NEW t \in Registrars, NEW status, Return(t, status)
    PROVE  /\ reg'[t] = [phase |-> "returned", start |-> 0, size |-> 0,
                         entries |-> NoEntries, next |-> 0,
                         status |-> status, quiet |-> Quiet(t)]
           /\ \A u \in Registrars \ {t} : reg'[u] = reg[u]
           /\ mutex'.writer = None /\ mutex'.readers = mutex.readers
  BY DEF TypeInv, TypeOK, Return

\* A phase change leaves the rest of the call alone.
LEMMA GoToEffect ==
    ASSUME TypeInv, NEW t \in Registrars, NEW phase, GoTo(t, phase)
    PROVE  /\ reg'[t].phase = phase
           /\ reg'[t].start = reg[t].start /\ reg'[t].size = reg[t].size
           /\ reg'[t].entries = reg[t].entries /\ reg'[t].next = reg[t].next
           /\ reg'[t].status = reg[t].status /\ reg'[t].quiet = reg[t].quiet
           /\ \A u \in Registrars \ {t} : reg'[u] = reg[u]
  BY DEF TypeInv, TypeOK, GoTo

LEMMA LockEffect ==
    ASSUME TypeInv, NEW t \in Registrars, LockExclusive(t)
    PROVE  /\ reg[t].phase = "locking" /\ reg'[t].phase = "validate"
           /\ reg'[t].start = reg[t].start /\ reg'[t].size = reg[t].size
           /\ reg'[t].entries = reg[t].entries /\ reg'[t].next = reg[t].next
           /\ reg'[t].status = reg[t].status /\ reg'[t].quiet = reg[t].quiet
           /\ \A u \in Registrars \ {t} : reg'[u] = reg[u]
  BY DEF TypeInv, TypeOK, LockExclusive

-----------------------------------------------------------------------------
(***************************************************************************)
(* The lock.                                                               *)
(***************************************************************************)
LEMMA LockInit == Init => LockDiscipline
  BY ThreadAssumption DEF Init, LockDiscipline

LEMMA LockStep == TypeInv /\ LockDiscipline /\ [Next]_vars => LockDiscipline'
  <1> SUFFICES ASSUME TypeInv, LockDiscipline, [Next]_vars
               PROVE  LockDiscipline'
    OBVIOUS
  <1>0. /\ reg \in [Registrars -> RegRecord]
        /\ sim \in [Simulators -> SimRecord]
        /\ mutex \in [writer : Registrars \cup {None}, readers : SUBSET Simulators]
    BY DEF TypeInv, TypeOK, RegRecord, SimRecord
  <1>a. ASSUME NEW t \in Registrars, NEW status,
               reg[t].phase \in Critical, Return(t, status), UNCHANGED sim
        PROVE  LockDiscipline'
    BY <1>0, <1>a, ThreadAssumption
    DEF Return, LockDiscipline, RegRecord, SimRecord, Critical
  <1>b. ASSUME NEW t \in Registrars, NEW phase \in Critical,
               reg[t].phase \in Critical, GoTo(t, phase)
        PROVE  LockDiscipline'
    BY <1>0, <1>b DEF GoTo, LockDiscipline, RegRecord, SimRecord, Critical
  <1>1. ASSUME NEW t \in Registrars, Call(t) PROVE LockDiscipline'
    <2>1. \A u \in Registrars :
             reg'[u].phase = IF u = t THEN "locking" ELSE reg[u].phase
      BY <1>1, CallMine, CallOthers
    <2>2. reg[t].phase \in {"idle", "returned"} /\ UNCHANGED <<mutex, sim>>
      BY <1>1 DEF Call
    <2>3. QED
      BY <1>0, <2>1, <2>2 DEF LockDiscipline
  <1>2. ASSUME NEW t \in Registrars, LockExclusive(t) PROVE LockDiscipline'
    BY <1>0, <1>2, ThreadAssumption
    DEF LockExclusive, LockDiscipline, RegRecord, SimRecord
  <1>3. ASSUME NEW t \in Registrars, ValidateArguments(t) PROVE LockDiscipline'
    BY <1>3, <1>a, <1>b DEF ValidateArguments, Fail, Critical
  <1>4. ASSUME NEW t \in Registrars, CheckOverlap(t) PROVE LockDiscipline'
    BY <1>4, <1>a, <1>b DEF CheckOverlap, Fail, Critical
  <1>5. ASSUME NEW t \in Registrars, Allocate(t) PROVE LockDiscipline'
    BY <1>5, <1>a, <1>b DEF Allocate, Fail, Critical
  <1>6. ASSUME NEW t \in Registrars, PredecodeWord(t) PROVE LockDiscipline'
    <2>1. /\ reg'[t].phase \in Critical
          /\ \A u \in Registrars \ {t} : reg'[u] = reg[u]
      BY <1>0, <1>6 DEF PredecodeWord, RegRecord, Critical
    <2>2. QED
      BY <1>0, <1>6, <2>1 DEF PredecodeWord, LockDiscipline, Critical
  <1>7. ASSUME NEW t \in Registrars, Commit(t) PROVE LockDiscipline'
    BY <1>7, <1>a DEF Commit, Fail, Critical
  <1>8. ASSUME NEW s \in Simulators, Fetch(s) PROVE LockDiscipline'
    BY <1>0, <1>8 DEF Fetch, LockDiscipline, SimRecord
  <1>9. ASSUME NEW s \in Simulators, FastPath(s) PROVE LockDiscipline'
    BY <1>0, <1>9 DEF FastPath, Dispatch, LockDiscipline, SimRecord
  <1>10. ASSUME NEW s \in Simulators, SlowPath(s) PROVE LockDiscipline'
    BY <1>0, <1>10 DEF SlowPath, LockDiscipline, SimRecord
  <1>11. ASSUME NEW s \in Simulators, LockShared(s) PROVE LockDiscipline'
    BY <1>0, <1>11, ThreadAssumption DEF LockShared, LockDiscipline, SimRecord
  <1>12. ASSUME NEW s \in Simulators, Search(s) PROVE LockDiscipline'
    BY <1>0, <1>12 DEF Search, LockDiscipline, SimRecord
  <1>13. ASSUME NEW s \in Simulators, FinishSearch(s) PROVE LockDiscipline'
    <2>1. /\ sim'[s].phase \in {"aborted", "dispatch"}
          /\ \A u \in Simulators \ {s} : sim'[u] = sim[u]
      BY <1>0, <1>13 DEF FinishSearch, Dispatch, SimRecord
    <2>2. QED
      BY <1>0, <1>13, <2>1 DEF FinishSearch, LockDiscipline
  <1>14. CASE UNCHANGED vars
    BY <1>14 DEF vars, LockDiscipline
  <1>15. QED
    BY <1>1, <1>2, <1>3, <1>4, <1>5, <1>6, <1>7, <1>8, <1>9, <1>10, <1>11,
       <1>12, <1>13, <1>14
    DEF Next, RegisterCodeRange, ExecuteInstructionCached

-----------------------------------------------------------------------------
(***************************************************************************)
(* The calls under way.                                                    *)
(***************************************************************************)

\* A call that has no range in hand is sound.
LEMMA FreshCall ==
    ASSUME NEW c, c.phase \in {"idle", "returned"}, c.start = 0, c.size = 0,
           c.next = 0
    PROVE  CallSound(c)
  <1>1. 0 \div kInstructionSize = 0 /\ 0 < AddrLimit
    BY AddressAssumption DEF kInstructionSize
  <1>2. Filled(c.entries, c.start, c.next)
    BY DEF Filled
  <1>3. QED
    BY <1>1, <1>2 DEF CallSound

\* Soundness depends on these fields only.
LEMMA SameCall ==
    ASSUME NEW c, NEW d, CallSound(c), d.phase = c.phase, d.start = c.start,
           d.size = c.size, d.next = c.next, d.entries = c.entries
    PROVE  CallSound(d)
  BY DEF CallSound, Filled

LEMMA CallsInit == Init => CallsSound
  <1> SUFFICES ASSUME Init, NEW t \in Registrars PROVE CallSound(reg[t])
    BY DEF CallsSound
  <1>1. /\ reg[t].phase = "idle" /\ reg[t].start = 0 /\ reg[t].size = 0
        /\ reg[t].next = 0
    BY DEF Init
  <1>2. QED
    BY <1>1, FreshCall

LEMMA CallsStep == TypeInv /\ CallsSound /\ [Next]_vars => CallsSound'
  <1> SUFFICES ASSUME TypeInv, CallsSound, [Next]_vars
               PROVE  CallsSound'
    OBVIOUS
  <1>0. reg \in [Registrars -> RegRecord]
    BY DEF TypeInv, TypeOK, RegRecord
  <1>a. ASSUME NEW t \in Registrars, NEW status, Return(t, status)
        PROVE  CallsSound'
    <2>0. /\ reg'[t].phase = "returned" /\ reg'[t].start = 0
          /\ reg'[t].size = 0 /\ reg'[t].next = 0
      <3>1. reg'[t] = [phase |-> "returned", start |-> 0, size |-> 0,
                       entries |-> NoEntries, next |-> 0,
                       status |-> status, quiet |-> Quiet(t)]
        BY <1>a, ReturnEffect
      <3>2. QED
        BY <3>1
    <2>1. CallSound(reg'[t])
      BY <2>0, FreshCall
    <2>2. ASSUME NEW u \in Registrars \ {t} PROVE CallSound(reg'[u])
      <3>1. reg'[u] = reg[u]
        BY <1>a, ReturnEffect
      <3>2. QED
        BY <3>1 DEF CallsSound
    <2>3. QED
      BY <2>1, <2>2 DEF CallsSound
  <1>b. ASSUME NEW t \in Registrars, NEW phase, GoTo(t, phase),
               \/ /\ phase = "overlap" /\ reg[t].phase = "validate"
                  /\ WellFormedRange(reg[t].start, reg[t].size)
               \/ phase = "allocate" /\ reg[t].phase = "overlap"
               \/ phase = "predecode" /\ reg[t].phase = "allocate"
        PROVE  CallsSound'
    <2>1. CallSound(reg[t])'
      BY <1>b, GoToEffect DEF CallsSound, CallSound, Filled
    <2>2. ASSUME NEW u \in Registrars \ {t} PROVE CallSound(reg'[u])
      <3>1. reg'[u] = reg[u]
        BY <1>b, GoToEffect
      <3>2. QED
        BY <3>1 DEF CallsSound
    <2>3. QED
      BY <2>1, <2>2 DEF CallsSound
  <1>1. ASSUME NEW t \in Registrars, Call(t) PROVE CallsSound'
    <2>1. PICK req \in Requests :
             /\ reg[t].phase \in {"idle", "returned"}
             /\ reg'[t].phase = "locking"
             /\ reg'[t].start = req[1] /\ reg'[t].size = req[2]
             /\ reg'[t].next = reg[t].next
      BY <1>1, CallEffect
    <2>2. /\ req[1] \in Nat /\ req[2] \in Nat
          /\ req[1] + req[2] < AddrLimit
      BY RequestAssumption
    <2>3. CallSound(reg[t])'
      BY <2>1, <2>2 DEF CallsSound, CallSound, Filled, kInstructionSize
    <2>4. ASSUME NEW u \in Registrars \ {t} PROVE CallSound(reg'[u])
      <3>1. /\ reg'[u].phase = reg[u].phase /\ reg'[u].start = reg[u].start
            /\ reg'[u].size = reg[u].size /\ reg'[u].next = reg[u].next
            /\ reg'[u].entries = reg[u].entries
        BY <1>1, CallOthers
      <3>2. CallSound(reg[u])
        BY DEF CallsSound
      <3>3. QED
        BY <3>1, <3>2, SameCall
    <2>5. QED
      BY <2>3, <2>4 DEF CallsSound
  <1>2. ASSUME NEW t \in Registrars, LockExclusive(t) PROVE CallsSound'
    BY <1>2, LockEffect DEF CallsSound, CallSound, Filled
  <1>3. ASSUME NEW t \in Registrars, ValidateArguments(t) PROVE CallsSound'
    BY <1>3, <1>a, <1>b DEF ValidateArguments, Fail, WellFormedRange
  <1>4. ASSUME NEW t \in Registrars, CheckOverlap(t) PROVE CallsSound'
    BY <1>4, <1>a, <1>b DEF CheckOverlap, Fail
  <1>5. ASSUME NEW t \in Registrars, Allocate(t) PROVE CallsSound'
    BY <1>5, <1>a, <1>b DEF Allocate, Fail
  <1>6. ASSUME NEW t \in Registrars, PredecodeWord(t) PROVE CallsSound'
    <2> DEFINE n == reg[t].next
               start == reg[t].start
               w == Predecode(Text[Add(start, n * kInstructionSize)])
    <2>0. /\ CallSound(reg[t]) /\ n \in Nat /\ start \in Nat /\ reg[t].size \in Nat
          /\ reg[t].phase = "predecode"
      BY <1>0, <1>6 DEF CallsSound, PredecodeWord, RegRecord, Addr
    <2>1. CallSound(reg[t])'
      <3>1. CASE n < reg[t].size \div kInstructionSize
        <4>1. start + n * kInstructionSize < AddrLimit
          BY <2>0, <3>1, AddressAssumption DEF CallSound, kInstructionSize
        <4>2. Add(start, n * kInstructionSize) = start + n * kInstructionSize
          BY <2>0, <4>1, NoWrap DEF Add, kInstructionSize
        <4>3. n \in Index
          BY <2>0, <3>1, AddressAssumption DEF CallSound, Index, kInstructionSize
        <4>4. /\ reg'[t].next = n + 1
              /\ reg'[t].entries = [reg[t].entries EXCEPT ![n] = w]
              /\ reg[t].entries \in EntryArrays
          BY <1>0, <1>6, <3>1, PredecodeEffect DEF RegRecord
        <4>5. w = Predecode(Text[start + n * kInstructionSize])
          BY <4>2
        <4> HIDE DEF w
        <4>6. \A i \in 0 .. n :
                 reg'[t].entries[i] = Predecode(Text[start + i * kInstructionSize])
          BY <2>0, <4>3, <4>4, <4>5 DEF CallSound, Filled, EntryArrays
        <4>7. /\ reg'[t].start = start /\ reg'[t].size = reg[t].size
              /\ reg'[t].phase = "predecode"
          BY <1>6, <3>1, PredecodeEffect
        <4>8. Filled(reg[t].entries, reg[t].start, reg[t].next)'
          BY <2>0, <4>4, <4>6, <4>7 DEF Filled
        <4>9. reg'[t].next <= reg'[t].size \div kInstructionSize
          BY <2>0, <3>1, <4>4, <4>7 DEF kInstructionSize
        <4>10. QED
          BY <2>0, <4>7, <4>8, <4>9 DEF CallSound, WellFormedRange
      <3>2. CASE ~(n < reg[t].size \div kInstructionSize)
        <4>1. /\ reg'[t].start = start /\ reg'[t].size = reg[t].size
              /\ reg'[t].phase = "commit" /\ reg'[t].next = n
              /\ reg'[t].entries = reg[t].entries
          BY <1>6, <3>2, PredecodeEffect
        <4>2. n = reg[t].size \div kInstructionSize
          BY <2>0, <3>2 DEF CallSound, kInstructionSize
        <4>3. QED
          BY <2>0, <4>1, <4>2 DEF CallSound, Filled, WellFormedRange
      <3>3. QED
        BY <3>1, <3>2
    <2>2. ASSUME NEW u \in Registrars \ {t} PROVE CallSound(reg'[u])
      <3>1. reg'[u] = reg[u]
        BY <1>6, PredecodeEffect
      <3>2. QED
        BY <3>1 DEF CallsSound
    <2>3. QED
      BY <2>1, <2>2 DEF CallsSound
  <1>7. ASSUME NEW t \in Registrars, Commit(t) PROVE CallsSound'
    BY <1>7, <1>a DEF Commit, Fail
  <1>8. ASSUME NEW s \in Simulators, ExecuteInstructionCached(s)
        PROVE  CallsSound'
    BY <1>8
    DEF ExecuteInstructionCached, Fetch, FastPath, SlowPath, LockShared, Search,
        FinishSearch, CallsSound, CallSound, Filled
  <1>9. CASE UNCHANGED vars
    BY <1>9 DEF vars, CallsSound, CallSound, Filled
  <1>10. QED
    BY <1>1, <1>2, <1>3, <1>4, <1>5, <1>6, <1>7, <1>8, <1>9
    DEF Next, RegisterCodeRange

-----------------------------------------------------------------------------
(***************************************************************************)
(* The table.                                                              *)
(***************************************************************************)
Publish(t) ==
    /\ reg[t].phase = "commit"
    /\ ranges' = [k \in DOMAIN ranges \cup {reg[t].start} |->
                    IF k = reg[t].start
                    THEN [start |-> reg[t].start, size_bytes |-> reg[t].size,
                          entries |-> reg[t].entries]
                    ELSE ranges[k]]
    /\ Return(t, "Ok")
    /\ UNCHANGED <<last_error, sim>>

\* The table changes in one place.
LEMMA TableEffect ==
    [Next]_vars => \/ UNCHANGED ranges
                   \/ \E t \in Registrars : Publish(t)
  <1> SUFFICES ASSUME [Next]_vars
               PROVE  UNCHANGED ranges \/ \E t \in Registrars : Publish(t)
    OBVIOUS
  <1>1. ASSUME NEW t \in Registrars, RegisterCodeRange(t)
        PROVE  UNCHANGED ranges \/ Publish(t)
    BY <1>1
    DEF RegisterCodeRange, Call, LockExclusive, ValidateArguments, CheckOverlap,
        Allocate, PredecodeWord, Commit, Fail, GoTo, Publish
  <1>2. ASSUME NEW s \in Simulators, ExecuteInstructionCached(s)
        PROVE  UNCHANGED ranges
    BY <1>2
    DEF ExecuteInstructionCached, Fetch, FastPath, SlowPath, LockShared, Search,
        FinishSearch
  <1>3. QED
    BY <1>1, <1>2 DEF Next, vars

LEMMA ClearInit == Init => CandidateClear
  BY DEF Init, CandidateClear

LEMMA ClearStep ==
    TypeInv /\ LockDiscipline /\ CallsSound /\ TableSound /\ CandidateClear
      /\ [Next]_vars => CandidateClear'
  <1> SUFFICES ASSUME TypeInv, LockDiscipline, CallsSound, TableSound,
                      CandidateClear, [Next]_vars
               PROVE  CandidateClear'
    OBVIOUS
  <1>0. reg \in [Registrars -> RegRecord]
    BY DEF TypeInv, TypeOK, RegRecord
  <1>a. ASSUME UNCHANGED ranges, NEW t \in Registrars,
               \A u \in Registrars \ {t} :
                  /\ reg'[u].phase = reg[u].phase
                  /\ reg'[u].start = reg[u].start
                  /\ reg'[u].size = reg[u].size,
               reg'[t].phase \notin {"allocate", "predecode", "commit"}
        PROVE  CandidateClear'
    BY <1>a DEF CandidateClear
  <1>b. ASSUME UNCHANGED ranges, NEW t \in Registrars,
               \A u \in Registrars \ {t} : reg'[u] = reg[u],
               reg'[t].start = reg[t].start, reg'[t].size = reg[t].size,
               reg[t].phase \in {"allocate", "predecode", "commit"}
        PROVE  CandidateClear'
    BY <1>b DEF CandidateClear
  <1>c. ASSUME NEW t \in Registrars, NEW status, Return(t, status),
               UNCHANGED ranges
        PROVE  CandidateClear'
    <2>1. /\ reg'[t].phase = "returned"
          /\ \A u \in Registrars \ {t} : reg'[u] = reg[u]
      BY <1>0, <1>c DEF Return
    <2>2. QED
      BY <1>a, <1>c, <2>1
  <1>1. ASSUME NEW t \in Registrars, Call(t) PROVE CandidateClear'
    <2>1. /\ reg'[t].phase = "locking"
          /\ \A u \in Registrars \ {t} :
                /\ reg'[u].phase = reg[u].phase
                /\ reg'[u].start = reg[u].start
                /\ reg'[u].size = reg[u].size
      BY <1>1, CallMine, CallOthers
    <2>2. UNCHANGED ranges
      BY <1>1 DEF Call
    <2>3. QED
      BY <1>a, <2>1, <2>2
  <1>2. ASSUME NEW t \in Registrars, LockExclusive(t) PROVE CandidateClear'
    BY <1>a, <1>2, LockEffect DEF LockExclusive
  <1>3. ASSUME NEW t \in Registrars, ValidateArguments(t) PROVE CandidateClear'
    <2>1. CASE GoTo(t, "overlap")
      <3>1. /\ reg'[t].phase = "overlap"
            /\ \A u \in Registrars \ {t} : reg'[u] = reg[u]
        BY <2>1, GoToEffect
      <3>2. UNCHANGED ranges
        BY <2>1 DEF GoTo
      <3>3. QED
        BY <1>a, <3>1, <3>2
    <2>2. QED
      BY <1>c, <1>3, <2>1 DEF ValidateArguments, Fail
  <1>4. ASSUME NEW t \in Registrars, CheckOverlap(t) PROVE CandidateClear'
    <2>1. CASE /\ GoTo(t, "allocate")
               /\ \A k \in DOMAIN ranges :
                     ~Overlaps(reg[t].start, reg[t].size, ranges[k])
      <3>1. ASSUME NEW k \in DOMAIN ranges
            PROVE  \/ Before(reg[t].start, reg[t].size, ranges[k].start)
                   \/ Before(ranges[k].start, ranges[k].size_bytes, reg[t].start)
        <4>1. /\ reg[t].start \in Nat /\ reg[t].size \in Nat
              /\ reg[t].start + reg[t].size < AddrLimit
          BY <1>0 DEF RegRecord, Addr, CallsSound, CallSound
        <4>2. /\ ranges[k].start \in Nat /\ ranges[k].size_bytes \in Nat
              /\ ranges[k].start + ranges[k].size_bytes < AddrLimit
          BY DEF TypeInv, TypeOK, CodeRange, Addr, TableSound, RangeSound
        <4>3. /\ Add(reg[t].start, reg[t].size) = reg[t].start + reg[t].size
              /\ Add(ranges[k].start, ranges[k].size_bytes)
                    = ranges[k].start + ranges[k].size_bytes
          BY <4>1, <4>2, NoWrap DEF Add
        <4>4. ~Overlaps(reg[t].start, reg[t].size, ranges[k])
          BY <2>1
        <4>5. QED
          BY <4>1, <4>2, <4>3, <4>4 DEF Overlaps, Before
      <3>2. /\ \A u \in Registrars \ {t} : reg'[u] = reg[u]
            /\ reg'[t].start = reg[t].start /\ reg'[t].size = reg[t].size
            /\ UNCHANGED ranges
        BY <2>1, GoToEffect DEF GoTo
      <3>3. QED
        BY <3>1, <3>2 DEF CandidateClear
    <2>2. QED
      BY <1>c, <1>4, <2>1 DEF CheckOverlap, Fail
  <1>5. ASSUME NEW t \in Registrars, Allocate(t) PROVE CandidateClear'
    <2>1. CASE GoTo(t, "predecode")
      <3>1. reg[t].phase = "allocate"
        BY <1>5 DEF Allocate
      <3>2. QED
        BY <1>b, <2>1, <3>1, GoToEffect DEF GoTo
    <2>2. QED
      BY <1>c, <1>5, <2>1 DEF Allocate, Fail
  <1>6. ASSUME NEW t \in Registrars, PredecodeWord(t) PROVE CandidateClear'
    <2>1. UNCHANGED ranges
      BY <1>6 DEF PredecodeWord
    <2>2. QED
      BY <1>b, <1>6, <2>1, PredecodeEffect
  <1>7. ASSUME NEW t \in Registrars, Commit(t) PROVE CandidateClear'
    <2>1. CASE Return(t, "Ok")
      <3>1. \A u \in Registrars : reg'[u].phase \notin Critical
        <4>1. \A u \in Registrars \ {t} : reg[u].phase \notin Critical
          BY <1>7 DEF Commit, LockDiscipline, Critical
        <4>2. /\ reg'[t].phase = "returned"
              /\ \A u \in Registrars \ {t} : reg'[u] = reg[u]
          BY <1>0, <2>1 DEF Return
        <4>3. QED
          BY <4>1, <4>2 DEF Critical
      <3>2. QED
        BY <3>1 DEF CandidateClear, Critical
    <2>2. QED
      BY <1>c, <1>7, <2>1 DEF Commit, Fail
  <1>8. ASSUME NEW s \in Simulators, ExecuteInstructionCached(s)
        PROVE  CandidateClear'
    BY <1>8
    DEF ExecuteInstructionCached, Fetch, FastPath, SlowPath, LockShared, Search,
        FinishSearch, CandidateClear
  <1>9. CASE UNCHANGED vars
    BY <1>9 DEF vars, CandidateClear
  <1>10. QED
    BY <1>1, <1>2, <1>3, <1>4, <1>5, <1>6, <1>7, <1>8, <1>9
    DEF Next, RegisterCodeRange

LEMMA TableInit == Init => TableSound /\ RangesApart
  BY DEF Init, TableSound, RangesApart

\* A range is published with its array full, clear of all others.
LEMMA TableStep ==
    TypeInv /\ CallsSound /\ CandidateClear /\ TableSound /\ RangesApart
      /\ [Next]_vars => TableSound' /\ RangesApart'
  <1> SUFFICES ASSUME TypeInv, CallsSound, CandidateClear, TableSound,
                      RangesApart, [Next]_vars
               PROVE  TableSound' /\ RangesApart'
    OBVIOUS
  <1>1. CASE UNCHANGED ranges
    BY <1>1 DEF TableSound, RangesApart, RangeSound, Filled
  <1>2. ASSUME NEW t \in Registrars, Publish(t)
        PROVE  TableSound' /\ RangesApart'
    <2> DEFINE start == reg[t].start
               new == [start |-> start, size_bytes |-> reg[t].size,
                       entries |-> reg[t].entries]
    <2>1. /\ DOMAIN ranges' = DOMAIN ranges \cup {start}
          /\ ranges'[start] = new
          /\ \A k \in DOMAIN ranges : k # start => ranges'[k] = ranges[k]
      BY <1>2 DEF Publish
    <2>2. RangeSound(start, new)
      <3>1. CallSound(reg[t]) /\ reg[t].phase = "commit"
        BY <1>2 DEF CallsSound, Publish
      <3>2. QED
        BY <3>1 DEF CallSound, RangeSound, WellFormedRange
    <2>3. TableSound'
      <3>1. ASSUME NEW k \in DOMAIN ranges' PROVE RangeSound(k, ranges'[k])
        <4>1. CASE k = start
          BY <2>1, <2>2, <4>1
        <4>2. CASE k # start
          BY <2>1, <4>2 DEF TableSound
        <4>3. QED
          BY <4>1, <4>2
      <3>2. QED
        BY <3>1 DEF TableSound
    <2>4. \A k \in DOMAIN ranges :
             \/ Before(new.start, new.size_bytes, ranges[k].start)
             \/ Before(ranges[k].start, ranges[k].size_bytes, new.start)
      BY <1>2 DEF CandidateClear, Publish
    <2>5. RangesApart'
      BY <2>1, <2>4 DEF RangesApart
    <2>6. QED
      BY <2>3, <2>5
  <1>3. QED
    BY <1>1, <1>2, TableEffect

\* Everything the table's safety rests on.
SafetyInv ==
    /\ TypeInv /\ LockDiscipline /\ CallsSound /\ CandidateClear
    /\ TableSound /\ RangesApart

LEMMA SafetyAlways == Spec => []SafetyInv
  <1>1. Init => SafetyInv
    BY TypeInit, LockInit, CallsInit, ClearInit, TableInit DEF SafetyInv
  <1>2. SafetyInv /\ [Next]_vars => SafetyInv'
    BY TypeStep, LockStep, CallsStep, ClearStep, TableStep DEF SafetyInv
  <1>3. QED
    BY <1>1, <1>2, PTL DEF Spec

\* table_mutex_ admits one registration, or readers, and a thread past its
\* lock holds it, for any number of registering and executing threads.
THEOREM LockHeld == Spec => []LockDiscipline
  <1>1. SafetyInv => LockDiscipline
    BY DEF SafetyInv
  <1>2. QED
    BY <1>1, SafetyAlways, PTL

\* No address belongs to two registered ranges, whatever registrations raced
\* to commit (RegisterCodeRange's overlap check, with uintptr_t arithmetic).
THEOREM RangesDisjoint == Spec => []Disjoint
  <1>1. SafetyInv => Disjoint
    <2> SUFFICES ASSUME SafetyInv, NEW j \in DOMAIN ranges,
                        NEW k \in DOMAIN ranges, j # k, NEW a \in Addr
                 PROVE  ~(Covers(ranges[j], a) /\ Covers(ranges[k], a))
      BY DEF Disjoint
    <2>1. /\ ranges[j].start \in Nat /\ ranges[j].size_bytes \in Nat
          /\ ranges[k].start \in Nat /\ ranges[k].size_bytes \in Nat
          /\ a \in Nat
      BY DEF SafetyInv, TypeInv, TypeOK, CodeRange, Addr
    <2>2. \/ Before(ranges[j].start, ranges[j].size_bytes, ranges[k].start)
          \/ Before(ranges[k].start, ranges[k].size_bytes, ranges[j].start)
      BY DEF SafetyInv, RangesApart
    <2>3. QED
      BY <2>1, <2>2 DEF Before, Covers
  <1>2. QED
    BY <1>1, SafetyAlways, PTL

\* Every entry of every registered range names the leaf the decoder chooses
\* for that word: the array is full when emplace publishes it.
THEOREM EntriesCorrect == Spec => []EntriesMatchDecoder
  <1>1. SafetyInv => EntriesMatchDecoder
    <2> SUFFICES ASSUME SafetyInv, NEW k \in DOMAIN ranges,
                        NEW i \in 0 .. (ranges[k].size_bytes \div kInstructionSize) - 1,
                        Text[ranges[k].start + i * kInstructionSize].available
                 PROVE  LET word == Text[ranges[k].start + i * kInstructionSize]
                        IN  /\ ranges[k].entries[i].leaf = DebugLeaf(word)
                            /\ (ranges[k].entries[i].flags = 1)
                                 <=> (word.bti /\ ~word.unallocated)
      BY DEF EntriesMatchDecoder
    <2> DEFINE a == ranges[k].start + i * kInstructionSize
    <2>1. RangeSound(k, ranges[k]) /\ ranges[k] \in CodeRange
      BY DEF SafetyInv, TableSound, TypeInv, TypeOK
    <2>2. ranges[k].entries[i] = Predecode(Text[a])
      BY <2>1 DEF RangeSound, Filled
    <2>3. a \in Addr
      BY <2>1, AddressAssumption
      DEF RangeSound, WellFormedRange, CodeRange, Addr, kInstructionSize
    <2>4. Text[a] \in Word
      BY <2>3, TextAssumption DEF Addr
    <2> HIDE DEF a
    <2>5. /\ Predecode(Text[a]).leaf = DebugLeaf(Text[a])
          /\ (Predecode(Text[a]).flags = 1)
                <=> (Text[a].bti /\ ~Text[a].unallocated)
      BY <2>4, TextAssumption
      DEF Predecode, DebugLeaf, ResolvePredecodeLeaf, Word, a
    <2>6. QED
      BY <2>2, <2>5 DEF a
  <1>2. QED
    BY <1>1, SafetyAlways, PTL

\* No step changes or removes a registered range, so a cur_range_ kept
\* without a lock stays valid.
THEOREM TableAppendOnly == Spec => AppendOnly
  <1>1. SafetyInv /\ [Next]_vars
          => (\A k \in DOMAIN ranges :
                 k \in DOMAIN ranges' /\ ranges'[k] = ranges[k])
    <2> SUFFICES ASSUME SafetyInv, [Next]_vars, NEW k \in DOMAIN ranges
                 PROVE  k \in DOMAIN ranges' /\ ranges'[k] = ranges[k]
      OBVIOUS
    <2>1. ASSUME NEW t \in Registrars, Publish(t)
          PROVE  k \in DOMAIN ranges' /\ ranges'[k] = ranges[k]
      <3>1. \/ Before(reg[t].start, reg[t].size, ranges[k].start)
            \/ Before(ranges[k].start, ranges[k].size_bytes, reg[t].start)
        BY <2>1 DEF SafetyInv, CandidateClear, Publish
      <3>2. /\ ranges[k].start = k /\ ranges[k].size_bytes \in Nat \ {0}
            /\ k \in Nat
        BY DEF SafetyInv, TableSound, RangeSound, WellFormedRange, TypeInv,
               TypeOK, CodeRange, Addr
      <3>3. reg[t].start \in Nat /\ reg[t].size \in Nat \ {0}
        BY <2>1 DEF SafetyInv, CallsSound, CallSound, WellFormedRange, Publish,
                    TypeInv, TypeOK, Addr
      <3>4. k # reg[t].start
        BY <3>1, <3>2, <3>3 DEF Before
      <3>5. QED
        BY <2>1, <3>4 DEF Publish
    <2>2. QED
      BY <2>1, TableEffect
  <1>2. QED
    BY <1>1, SafetyAlways, PTL DEF Spec, AppendOnly

-----------------------------------------------------------------------------
(***************************************************************************)
(* The fetch.                                                              *)
(***************************************************************************)

\* The unsigned containment test is exact: a PC below the start wraps to a
\* difference no mapped range is as long as.
LEMMA InRangeCovers ==
    ASSUME SafetyInv, NEW k \in DOMAIN ranges, NEW pc \in Addr
    PROVE  InRange(pc, ranges[k]) <=> Covers(ranges[k], pc)
  <1>1. /\ ranges[k].start \in Nat /\ ranges[k].size_bytes \in Nat
        /\ ranges[k].start + ranges[k].size_bytes < AddrLimit
        /\ pc \in Nat /\ pc < AddrLimit /\ AddrLimit \in Nat
    BY AddressAssumption
    DEF SafetyInv, TypeInv, TypeOK, CodeRange, Addr, TableSound, RangeSound
  <1>2. CASE ranges[k].start <= pc
    <2>1. Sub(pc, ranges[k].start) = pc - ranges[k].start
      BY <1>1, <1>2, NoWrap DEF Sub
    <2>2. QED
      BY <1>1, <1>2, <2>1 DEF InRange, Covers
  <1>3. CASE pc < ranges[k].start
    <2>1. Sub(pc, ranges[k].start) = pc - ranges[k].start + AddrLimit
      BY <1>1, <1>3, WrapBelow DEF Sub
    <2>2. QED
      BY <1>1, <1>3, <2>1 DEF InRange, Covers
  <1>4. QED
    BY <1>1, <1>2, <1>3

\* Inside a range, the indexed entry is the predecoding of the word at the PC.
LEMMA EntryAtPc ==
    ASSUME SafetyInv, NEW k \in DOMAIN ranges, NEW pc \in Addr,
           pc % kInstructionSize = 0, InRange(pc, ranges[k])
    PROVE  ranges[k].entries[EntryIndex(pc, ranges[k])] = Predecode(Text[pc])
  <1> DEFINE start == ranges[k].start
             size == ranges[k].size_bytes
             i == (pc - start) \div kInstructionSize
  <1>1. /\ start \in Nat /\ size \in Nat /\ start + size < AddrLimit
        /\ start % kInstructionSize = 0 /\ size % kInstructionSize = 0
        /\ pc \in Nat /\ pc < AddrLimit /\ AddrLimit \in Nat
        /\ Filled(ranges[k].entries, start, size \div kInstructionSize)
    BY AddressAssumption
    DEF SafetyInv, TypeInv, TypeOK, CodeRange, Addr, TableSound, RangeSound,
        WellFormedRange
  <1>2. start <= pc /\ pc < start + size
    BY InRangeCovers DEF Covers
  <1> HIDE DEF start, size
  <1>3. Sub(pc, start) = pc - start
    BY <1>1, <1>2, NoWrap DEF Sub
  <1>4. EntryIndex(pc, ranges[k]) = i
    BY <1>3 DEF EntryIndex, start
  <1>5. i \in 0 .. (size \div kInstructionSize) - 1
    BY <1>1, <1>2 DEF kInstructionSize
  <1>6. start + i * kInstructionSize = pc
    BY <1>1, <1>2 DEF kInstructionSize
  <1> HIDE DEF i
  <1>7. ranges[k].entries[i] = Predecode(Text[start + i * kInstructionSize])
    BY <1>1, <1>5 DEF Filled
  <1>8. QED
    BY <1>4, <1>6, <1>7

\* FindRange is exact: if a range covers the PC it is the one with the
\* greatest start not above the PC, because the ranges are disjoint.
LEMMA FindRangeExact ==
    ASSUME SafetyInv, NEW pc \in Addr
    PROVE  IF FindRange(pc) = None
           THEN \A k \in DOMAIN ranges : ~Covers(ranges[k], pc)
           ELSE /\ FindRange(pc) \in DOMAIN ranges
                /\ InRange(pc, ranges[FindRange(pc)])
                /\ Covers(ranges[FindRange(pc)], pc)
  <1> DEFINE C == {k \in DOMAIN ranges :
                      /\ k <= pc
                      /\ \A j \in DOMAIN ranges : j <= pc => j <= k
                      /\ InRange(pc, ranges[k])}
  <1>0. \A k \in DOMAIN ranges :
           /\ k \in Nat /\ ranges[k].start = k /\ ranges[k].size_bytes \in Nat
           /\ k # None
    BY AddressAssumption
    DEF SafetyInv, TypeInv, TypeOK, CodeRange, Addr, TableSound, RangeSound
  <1>1. FindRange(pc) = IF C = {} THEN None ELSE CHOOSE k \in C : TRUE
    BY DEF FindRange
  <1>2. ASSUME NEW k \in DOMAIN ranges, Covers(ranges[k], pc)
        PROVE  k \in C
    <2>1. InRange(pc, ranges[k])
      BY <1>2, InRangeCovers
    <2>2. ASSUME NEW j \in DOMAIN ranges, j <= pc PROVE j <= k
      <3>1. CASE j # k
        <4>1. \/ Before(ranges[j].start, ranges[j].size_bytes, ranges[k].start)
              \/ Before(ranges[k].start, ranges[k].size_bytes, ranges[j].start)
          BY <3>1 DEF SafetyInv, RangesApart
        <4>2. pc \in Nat
          BY DEF Addr
        <4>3. QED
          BY <1>0, <1>2, <2>2, <4>1, <4>2 DEF Before, Covers
      <3>2. QED
        BY <1>0, <3>1
    <2>3. k <= pc
      BY <1>0, <1>2 DEF Covers
    <2>4. QED
      BY <2>1, <2>2, <2>3
  <1>3. CASE C = {}
    BY <1>1, <1>2, <1>3
  <1>4. CASE C # {}
    <2>1. FindRange(pc) \in C
      BY <1>1, <1>4
    <2>2. /\ FindRange(pc) \in DOMAIN ranges
          /\ InRange(pc, ranges[FindRange(pc)])
      BY <2>1
    <2>3. FindRange(pc) # None /\ Covers(ranges[FindRange(pc)], pc)
      BY <1>0, <2>2, InRangeCovers
    <2>4. QED
      BY <2>2, <2>3
  <1>5. QED
    BY <1>3, <1>4

FetchInv == PcAligned /\ SearchExact /\ DispatchCorrect

LEMMA FetchInit == Init => FetchInv
  BY DEF Init, FetchInv, PcAligned, SearchExact, DispatchCorrect, kInstructionSize

\* A dispatch through a range that contains the PC is correct, and other
\* Simulators do not notice it.
LEMMA DispatchSound ==
    ASSUME SafetyInv, FetchInv, NEW s \in Simulators, NEW k \in DOMAIN ranges,
           InRange(sim[s].pc, ranges[k]), Dispatch(s, k), UNCHANGED ranges
    PROVE  FetchInv'
  <1>0. sim \in [Simulators -> SimRecord]
    BY DEF SafetyInv, TypeInv, TypeOK, SimRecord
  <1> DEFINE e == ranges[k].entries[EntryIndex(sim[s].pc, ranges[k])]
  <1>1. e = Predecode(Text[sim[s].pc])
    BY <1>0, EntryAtPc DEF FetchInv, PcAligned, SimRecord
  <1>2. /\ sim'[s] = [phase |-> "dispatch", pc |-> sim[s].pc, cur_range |-> k,
                      range |-> k, entry |-> e]
        /\ \A u \in Simulators \ {s} : sim'[u] = sim[u]
    BY <1>0 DEF Dispatch
  <1> HIDE DEF e
  <1>3. PcAligned'
    BY <1>2 DEF FetchInv, PcAligned
  <1>4. SearchExact'
    BY <1>2 DEF FetchInv, SearchExact, Covers
  <1>5. DispatchCorrect'
    BY <1>1, <1>2 DEF FetchInv, DispatchCorrect
  <1>6. QED
    BY <1>3, <1>4, <1>5 DEF FetchInv

LEMMA FetchStep == SafetyInv /\ FetchInv /\ [Next]_vars => FetchInv'
  <1> SUFFICES ASSUME SafetyInv, FetchInv, [Next]_vars PROVE FetchInv'
    OBVIOUS
  <1>0. sim \in [Simulators -> SimRecord]
    BY DEF SafetyInv, TypeInv, TypeOK, SimRecord
  <1>a. ASSUME NEW s \in Simulators, UNCHANGED ranges,
               \A u \in Simulators \ {s} : sim'[u] = sim[u],
               sim'[s].pc % kInstructionSize = 0,
               sim'[s].phase \notin {"found", "dispatch"}
        PROVE  FetchInv'
    <2>1. PcAligned'
      BY <1>a DEF FetchInv, PcAligned
    <2>2. SearchExact'
      BY <1>a DEF FetchInv, SearchExact, Covers
    <2>3. DispatchCorrect'
      BY <1>a DEF FetchInv, DispatchCorrect
    <2>4. QED
      BY <2>1, <2>2, <2>3 DEF FetchInv
  <1>1. ASSUME NEW t \in Registrars, RegisterCodeRange(t) PROVE FetchInv'
    <2>0. UNCHANGED sim
      BY <1>1
      DEF RegisterCodeRange, Call, LockExclusive, ValidateArguments, CheckOverlap,
          Allocate, PredecodeWord, Commit, Fail, GoTo
    <2>1. CASE UNCHANGED ranges
      BY <2>0, <2>1 DEF FetchInv, PcAligned, SearchExact, DispatchCorrect, Covers
    \* A commit finds no reader, so no search is waiting to be trusted.
    <2>2. ASSUME NEW u \in Registrars, Publish(u) PROVE FetchInv'
      <3>1. mutex.writer = u
        BY <2>2 DEF Publish, SafetyInv, LockDiscipline
      <3>2. \A s \in Simulators : sim[s].phase # "found"
        BY <3>1, ThreadAssumption DEF SafetyInv, LockDiscipline
      <3>3. QED
        BY <2>0, <3>2 DEF FetchInv, PcAligned, SearchExact, DispatchCorrect
    <2>3. QED
      BY <2>1, <2>2, TableEffect
  <1>2. ASSUME NEW s \in Simulators, Fetch(s) PROVE FetchInv'
    <2>1. PICK pc \in Addr :
             /\ pc % kInstructionSize = 0
             /\ sim' = [sim EXCEPT ![s].phase = "fetch", ![s].pc = pc]
      BY <1>2 DEF Fetch
    <2>2. /\ sim'[s].pc = pc /\ sim'[s].phase = "fetch"
          /\ \A u \in Simulators \ {s} : sim'[u] = sim[u]
      BY <1>0, <2>1 DEF SimRecord
    <2>3. UNCHANGED ranges
      BY <1>2 DEF Fetch
    <2>4. QED
      BY <1>a, <2>1, <2>2, <2>3
  <1>3. ASSUME NEW s \in Simulators, FastPath(s) PROVE FetchInv'
    <2>1. sim[s].cur_range \in DOMAIN ranges
      BY <1>3 DEF FastPath, Hit, SafetyInv, TypeInv, PointersValid
    <2>2. QED
      BY <1>3, <2>1, DispatchSound DEF FastPath, Hit
  <1>4. ASSUME NEW s \in Simulators, SlowPath(s) \/ LockShared(s)
        PROVE  FetchInv'
    <2>1. /\ sim'[s].pc = sim[s].pc /\ sim'[s].phase \in {"locking", "search"}
          /\ \A u \in Simulators \ {s} : sim'[u] = sim[u]
          /\ UNCHANGED ranges
      BY <1>0, <1>4 DEF SlowPath, LockShared, SimRecord
    <2>2. QED
      BY <1>a, <2>1 DEF FetchInv, PcAligned
  <1>5. ASSUME NEW s \in Simulators, Search(s) PROVE FetchInv'
    <2>1. /\ sim'[s].pc = sim[s].pc /\ sim'[s].phase = "found"
          /\ sim'[s].range = FindRange(sim[s].pc)
          /\ \A u \in Simulators \ {s} : sim'[u] = sim[u]
          /\ UNCHANGED ranges
      BY <1>0, <1>5 DEF Search, SimRecord
    <2>2. sim[s].pc \in Addr
      BY <1>0 DEF SimRecord
    <2>3. IF FindRange(sim[s].pc) = None
          THEN \A k \in DOMAIN ranges : ~Covers(ranges[k], sim[s].pc)
          ELSE /\ FindRange(sim[s].pc) \in DOMAIN ranges
               /\ Covers(ranges[FindRange(sim[s].pc)], sim[s].pc)
      BY <2>2, FindRangeExact
    <2>4. PcAligned'
      BY <2>1 DEF FetchInv, PcAligned
    <2>5. SearchExact'
      BY <2>1, <2>3 DEF FetchInv, SearchExact, Covers
    <2>6. DispatchCorrect'
      BY <2>1 DEF FetchInv, DispatchCorrect
    <2>7. QED
      BY <2>4, <2>5, <2>6 DEF FetchInv
  <1>6. ASSUME NEW s \in Simulators, FinishSearch(s) PROVE FetchInv'
    <2>1. CASE sim[s].range = None
      <3>1. /\ sim'[s].pc = sim[s].pc /\ sim'[s].phase = "aborted"
            /\ \A u \in Simulators \ {s} : sim'[u] = sim[u]
            /\ UNCHANGED ranges
        BY <1>0, <1>6, <2>1 DEF FinishSearch, SimRecord
      <3>2. QED
        BY <1>a, <3>1 DEF FetchInv, PcAligned
    <2>2. CASE sim[s].range # None
      <3>1. /\ sim[s].range \in DOMAIN ranges
            /\ Covers(ranges[sim[s].range], sim[s].pc)
        BY <1>6, <2>2 DEF FinishSearch, FetchInv, SearchExact
      <3>2. InRange(sim[s].pc, ranges[sim[s].range])
        BY <1>0, <3>1, InRangeCovers DEF SimRecord
      <3>3. QED
        BY <1>6, <2>2, <3>1, <3>2, DispatchSound DEF FinishSearch
    <2>3. QED
      BY <2>1, <2>2
  <1>7. CASE UNCHANGED vars
    BY <1>7 DEF vars, FetchInv, PcAligned, SearchExact, DispatchCorrect, Covers
  <1>8. QED
    BY <1>1, <1>2, <1>3, <1>4, <1>5, <1>6, <1>7 DEF Next, ExecuteInstructionCached

LEMMA FetchAlways == Spec => [](SafetyInv /\ FetchInv)
  <1>1. Spec => []SafetyInv
    BY SafetyAlways
  <1>2. QED
    BY <1>1, FetchInit, FetchStep, PTL DEF Spec

\* Whichever path found it, the entry dispatched for a PC is the predecoding
\* of the word at that PC.
THEOREM DispatchesRight == Spec => []DispatchCorrect
  <1>1. FetchInv => DispatchCorrect
    BY DEF FetchInv
  <1>2. QED
    BY <1>1, FetchAlways, PTL

\* FindRange's answer is exact as long as its shared lock is held.
THEOREM SearchesRight == Spec => []SearchExact
  <1>1. FetchInv => SearchExact
    BY DEF FetchInv
  <1>2. QED
    BY <1>1, FetchAlways, PTL

-----------------------------------------------------------------------------
(***************************************************************************)
(* The error detail.                                                       *)
(***************************************************************************)

\* A call marked quiet has returned, and no other call is under way.
QuietAlone ==
    \A t \in Registrars :
        reg[t].quiet =>
            /\ reg[t].phase = "returned"
            /\ \A u \in Registrars : reg[u].phase \in {"idle", "returned"}

DetailInv == QuietAlone /\ ErrorDetailIsCallers

LEMMA DetailInit == Init => DetailInv
  BY DEF Init, DetailInv, QuietAlone, ErrorDetailIsCallers

LEMMA DetailStep == TypeInv /\ DetailInv /\ [Next]_vars => DetailInv'
  <1> SUFFICES ASSUME TypeInv, DetailInv, [Next]_vars PROVE DetailInv'
    OBVIOUS
  <1>0. reg \in [Registrars -> RegRecord]
    BY DEF TypeInv, TypeOK, RegRecord
  \* Any step of a call under way: nobody was quiet.
  <1>a. ASSUME NEW t \in Registrars,
               reg[t].phase \notin {"idle", "returned"}
        PROVE  \A u \in Registrars : reg[u].quiet = FALSE
    BY <1>0, <1>a DEF DetailInv, QuietAlone, RegRecord
  <1>b. ASSUME NEW t \in Registrars, NEW status, Return(t, status),
               reg[t].phase \notin {"idle", "returned"},
               status # "Ok" => last_error'.status = status
        PROVE  DetailInv'
    <2>1. /\ reg'[t].phase = "returned" /\ reg'[t].status = status
          /\ reg'[t].quiet = Quiet(t)
          /\ \A u \in Registrars \ {t} : reg'[u] = reg[u]
      BY <1>0, <1>b DEF Return
    <2>2. \A u \in Registrars \ {t} : reg'[u].quiet = FALSE
      BY <1>a, <1>b, <2>1
    <2>3. QuietAlone'
      BY <2>1, <2>2 DEF QuietAlone, Quiet
    <2>4. ErrorDetailIsCallers'
      BY <1>b, <2>1, <2>2 DEF ErrorDetailIsCallers
    <2>5. QED
      BY <2>3, <2>4 DEF DetailInv
  <1>c. ASSUME \A u \in Registrars : reg'[u].quiet = FALSE
        PROVE  DetailInv'
    BY <1>c DEF DetailInv, QuietAlone, ErrorDetailIsCallers
  <1>d. ASSUME NEW t \in Registrars, NEW phase, GoTo(t, phase),
               reg[t].phase \notin {"idle", "returned"}
        PROVE  DetailInv'
    <2>1. \A u \in Registrars : reg'[u].quiet = reg[u].quiet
      BY <1>d, GoToEffect
    <2>2. QED
      BY <1>a, <1>c, <1>d, <2>1
  <1>1. ASSUME NEW t \in Registrars, Call(t) PROVE DetailInv'
    BY <1>c, <1>1, CallEffect
  <1>2. ASSUME NEW t \in Registrars, LockExclusive(t) PROVE DetailInv'
    <2>1. /\ reg[t].phase \notin {"idle", "returned"}
          /\ \A u \in Registrars : reg'[u].quiet = reg[u].quiet
      BY <1>2, LockEffect
    <2>2. QED
      BY <1>a, <1>c, <2>1
  <1>3. ASSUME NEW t \in Registrars, ValidateArguments(t) PROVE DetailInv'
    BY <1>b, <1>d, <1>3 DEF ValidateArguments, Fail
  <1>4. ASSUME NEW t \in Registrars, CheckOverlap(t) PROVE DetailInv'
    BY <1>b, <1>d, <1>4 DEF CheckOverlap, Fail
  <1>5. ASSUME NEW t \in Registrars, Allocate(t) PROVE DetailInv'
    BY <1>b, <1>d, <1>5 DEF Allocate, Fail
  <1>6. ASSUME NEW t \in Registrars, PredecodeWord(t) PROVE DetailInv'
    <2>1. /\ reg[t].phase \notin {"idle", "returned"}
          /\ \A u \in Registrars : reg'[u].quiet = reg[u].quiet
      BY <1>6, PredecodeEffect
    <2>2. QED
      BY <1>a, <1>c, <2>1
  <1>7. ASSUME NEW t \in Registrars, Commit(t) PROVE DetailInv'
    BY <1>b, <1>7 DEF Commit, Fail
  <1>8. ASSUME NEW s \in Simulators, ExecuteInstructionCached(s) PROVE DetailInv'
    BY <1>8
    DEF ExecuteInstructionCached, Fetch, FastPath, SlowPath, LockShared, Search,
        FinishSearch, DetailInv, QuietAlone, ErrorDetailIsCallers
  <1>9. CASE UNCHANGED vars
    BY <1>9 DEF vars, DetailInv, QuietAlone, ErrorDetailIsCallers
  <1>10. QED
    BY <1>1, <1>2, <1>3, <1>4, <1>5, <1>6, <1>7, <1>8, <1>9
    DEF Next, RegisterCodeRange

\* After a failed call that no other call has followed or raced,
\* GetLastRegistrationError describes that call.
THEOREM DetailIsCallers == Spec => []ErrorDetailIsCallers
  <1>1. Spec => []SafetyInv
    BY SafetyAlways
  <1>2. SafetyInv => TypeInv
    BY DEF SafetyInv
  <1>3. DetailInv => ErrorDetailIsCallers
    BY DEF DetailInv
  <1>4. QED
    BY <1>1, <1>2, <1>3, DetailInit, DetailStep, PTL DEF Spec
=============================================================================
