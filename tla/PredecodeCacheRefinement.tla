---------------------- MODULE PredecodeCacheRefinement ----------------------
(***************************************************************************)
(* PredecodeCache implements CodeRegistry: every step of the cache is one  *)
(* step of the registry, or none.  A call to RegisterCodeRange resolves    *)
(* where it returns, a lookup where FindRange has searched or where        *)
(* cur_range_ was hit.                                                     *)
(***************************************************************************)
EXTENDS PredecodeCacheSafety

RefinementInv == SafetyInv /\ FetchInv

LEMMA IntervalsMeaning ==
    /\ \A i \in RegisteredIntervals :
          \E k \in DOMAIN ranges :
             i = <<ranges[k].start, ranges[k].size_bytes>>
    /\ \A k \in DOMAIN ranges :
          <<ranges[k].start, ranges[k].size_bytes>> \in RegisteredIntervals
  BY DEF RegisteredIntervals

\* What the registry calls a clash is an overlap of half-open intervals with
\* a registered range.
LEMMA ClashMeaning ==
    ASSUME NEW req
    PROVE  Registry!Clashes(req) <=>
             \E k \in DOMAIN ranges :
                /\ ranges[k].start < req[1] + req[2]
                /\ req[1] < ranges[k].start + ranges[k].size_bytes
  <1>1. ASSUME NEW k \in DOMAIN ranges,
               ranges[k].start < req[1] + req[2],
               req[1] < ranges[k].start + ranges[k].size_bytes
        PROVE  Registry!Clashes(req)
    <2> DEFINE i == <<ranges[k].start, ranges[k].size_bytes>>
    <2>1. i \in RegisteredIntervals
      BY IntervalsMeaning
    <2>2. i[1] < req[1] + req[2] /\ req[1] < i[1] + i[2]
      BY <1>1
    <2>3. QED
      BY <2>1, <2>2 DEF Registry!Clashes
  <1>2. ASSUME Registry!Clashes(req)
        PROVE  \E k \in DOMAIN ranges :
                  /\ ranges[k].start < req[1] + req[2]
                  /\ req[1] < ranges[k].start + ranges[k].size_bytes
    <2>1. PICK i \in RegisteredIntervals :
             i[1] < req[1] + req[2] /\ req[1] < i[1] + i[2]
      BY <1>2 DEF Registry!Clashes
    <2>2. PICK k \in DOMAIN ranges : i = <<ranges[k].start, ranges[k].size_bytes>>
      BY IntervalsMeaning
    <2>3. QED
      BY <2>1, <2>2
  <1>3. QED
    BY <1>1, <1>2

LEMMA RegisteredMeaning ==
    ASSUME NEW a
    PROVE  Registry!Registered(a) <=> \E k \in DOMAIN ranges : Covers(ranges[k], a)
  <1>1. ASSUME NEW k \in DOMAIN ranges, Covers(ranges[k], a)
        PROVE  Registry!Registered(a)
    <2> DEFINE i == <<ranges[k].start, ranges[k].size_bytes>>
    <2>1. i \in RegisteredIntervals
      BY IntervalsMeaning
    <2>2. i[1] <= a /\ a < i[1] + i[2]
      BY <1>1 DEF Covers
    <2>3. QED
      BY <2>1, <2>2 DEF Registry!Registered, Registry!Contains
  <1>2. ASSUME Registry!Registered(a)
        PROVE  \E k \in DOMAIN ranges : Covers(ranges[k], a)
    <2>1. PICK i \in RegisteredIntervals : i[1] <= a /\ a < i[1] + i[2]
      BY <1>2 DEF Registry!Registered, Registry!Contains
    <2>2. PICK k \in DOMAIN ranges : i = <<ranges[k].start, ranges[k].size_bytes>>
      BY IntervalsMeaning
    <2>3. QED
      BY <2>1, <2>2 DEF Covers
  <1>3. QED
    BY <1>1, <1>2

\* The cache starts as an empty registry with nobody waiting.
LEMMA RefineInit == Init => Registry!RegistryInit
  <1> SUFFICES ASSUME Init PROVE Registry!RegistryInit
    OBVIOUS
  <1>1. RegisteredIntervals = {}
    BY DEF Init, RegisteredIntervals
  <1>2. CallState = [t \in Registrars |-> <<"idle">>]
    BY DEF Init, CallState
  <1>3. LookupState = [s \in Simulators |-> <<"idle">>]
    BY DEF Init, LookupState
  <1>4. QED
    BY <1>1, <1>2, <1>3 DEF Registry!RegistryInit

-----------------------------------------------------------------------------
(***************************************************************************)
(* Steps of RegisterCodeRange.                                             *)
(***************************************************************************)

\* A step of one call changes the abstract state of that call only.
LEMMA CallStateMoves ==
    ASSUME NEW t \in Registrars, NEW v,
           \A u \in Registrars \ {t} :
              /\ reg'[u].phase = reg[u].phase /\ reg'[u].start = reg[u].start
              /\ reg'[u].size = reg[u].size /\ reg'[u].status = reg[u].status,
           v = IF reg'[t].phase = "idle" THEN <<"idle">>
               ELSE IF reg'[t].phase = "returned" THEN <<"done", reg'[t].status>>
               ELSE <<"pending", <<reg'[t].start, reg'[t].size>>>>
    PROVE  CallState' = [CallState EXCEPT ![t] = v]
  <1>1. CallState'[t] = v
    BY DEF CallState
  <1>2. \A u \in Registrars \ {t} : CallState'[u] = CallState[u]
    BY DEF CallState
  <1>3. /\ CallState = [u \in Registrars |-> CallState[u]]
        /\ CallState' = [u \in Registrars |-> CallState'[u]]
    BY DEF CallState
  <1> HIDE DEF CallState
  <1>4. QED
    BY <1>1, <1>2, <1>3

\* Before its return, a step past the lock is invisible.
LEMMA CallStateKept ==
    ASSUME NEW t \in Registrars,
           \A u \in Registrars \ {t} : reg'[u] = reg[u],
           reg[t].phase \notin {"idle", "returned"},
           reg'[t].phase \notin {"idle", "returned"},
           reg'[t].start = reg[t].start, reg'[t].size = reg[t].size
    PROVE  CallState' = CallState
  BY DEF CallState

Stutter == UNCHANGED <<RegisteredIntervals, CallState, LookupState>>

LEMMA BeginStep ==
    ASSUME RefinementInv, NEW t \in Registrars, Call(t)
    PROVE  Registry!Begin(t)
  <1>1. PICK req \in Requests :
           /\ reg[t].phase \in {"idle", "returned"}
           /\ reg'[t].phase = "locking"
           /\ reg'[t].start = req[1] /\ reg'[t].size = req[2]
           /\ \A u \in Registrars \ {t} :
                 /\ reg'[u].phase = reg[u].phase /\ reg'[u].start = reg[u].start
                 /\ reg'[u].size = reg[u].size /\ reg'[u].status = reg[u].status
    BY CallEffect DEF RefinementInv, SafetyInv
  <1>2. req = <<req[1], req[2]>>
    BY RequestAssumption
  <1>3. CallState[t][1] # "pending"
    BY <1>1 DEF CallState
  <1>4. CallState' = [CallState EXCEPT ![t] = <<"pending", <<req[1], req[2]>>>>]
    BY <1>1, CallStateMoves
  <1>5. RegisteredIntervals' = RegisteredIntervals /\ LookupState' = LookupState
    BY DEF Call, RegisteredIntervals, LookupState
  <1>6. QED
    BY <1>2, <1>3, <1>4, <1>5 DEF Registry!Begin

LEMMA ResolveStep ==
    ASSUME RefinementInv, NEW t \in Registrars, NEW status \in Statuses,
           reg[t].phase \in Critical, Return(t, status), UNCHANGED sim,
           (status = "InvalidArgument")
              <=> ~WellFormedRange(reg[t].start, reg[t].size),
           (status = "OverlappingRange")
              <=> (/\ WellFormedRange(reg[t].start, reg[t].size)
                   /\ Registry!Clashes(<<reg[t].start, reg[t].size>>)),
           RegisteredIntervals' =
              IF status = "Ok"
              THEN RegisteredIntervals \cup {<<reg[t].start, reg[t].size>>}
              ELSE RegisteredIntervals
    PROVE  Registry!Resolve(t)
  <1> DEFINE req == <<reg[t].start, reg[t].size>>
  <1>0. reg \in [Registrars -> RegRecord]
    BY DEF RefinementInv, SafetyInv, TypeInv, TypeOK, RegRecord
  <1>1. /\ reg'[t].phase = "returned" /\ reg'[t].status = status
        /\ \A u \in Registrars \ {t} : reg'[u] = reg[u]
    BY <1>0 DEF Return
  <1>2. CallState[t] = <<"pending", req>>
    BY DEF CallState, Critical
  <1>3. CallState' = [CallState EXCEPT ![t] = <<"done", status>>]
    BY <1>1, CallStateMoves
  <1>4. LookupState' = LookupState
    BY DEF LookupState
  <1>5. Registry!WellFormed(req) <=> WellFormedRange(reg[t].start, reg[t].size)
    BY DEF Registry!WellFormed, WellFormedRange, kInstructionSize
  <1>6. CallState[t][1] = "pending" /\ CallState[t][2] = req
    BY <1>2
  <1>7. status \in {"Ok", "InvalidArgument", "OverlappingRange", "OutOfMemory"}
    BY DEF Statuses
  <1> HIDE DEF req
  <1>8. /\ (status = "InvalidArgument") <=> ~Registry!WellFormed(req)
        /\ (status = "OverlappingRange")
              <=> (Registry!WellFormed(req) /\ Registry!Clashes(req))
        /\ RegisteredIntervals' =
              IF status = "Ok" THEN RegisteredIntervals \cup {req}
              ELSE RegisteredIntervals
    BY <1>5 DEF req
  <1>9. QED
    BY <1>3, <1>4, <1>6, <1>7, <1>8 DEF Registry!Resolve

\* A failing return resolves the call with the status it deserves.
LEMMA FailStep ==
    ASSUME RefinementInv, NEW t \in Registrars, NEW status \in Statuses \ {"Ok"},
           NEW pc, reg[t].phase \in Critical, Fail(t, status, pc),
           (status = "InvalidArgument")
              <=> ~WellFormedRange(reg[t].start, reg[t].size),
           (status = "OverlappingRange")
              <=> (/\ WellFormedRange(reg[t].start, reg[t].size)
                   /\ Registry!Clashes(<<reg[t].start, reg[t].size>>))
    PROVE  Registry!Resolve(t)
  <1>1. RegisteredIntervals' = RegisteredIntervals
    BY DEF Fail, RegisteredIntervals
  <1>2. Return(t, status) /\ UNCHANGED sim
    BY DEF Fail
  <1>3. QED
    BY <1>1, <1>2, ResolveStep

\* Past the overlap check the arguments are well formed and clash with
\* nothing, although other registrations may have come and gone before it.
LEMMA CandidateGood ==
    ASSUME RefinementInv, NEW t \in Registrars,
           reg[t].phase \in {"allocate", "predecode", "commit"}
    PROVE  /\ WellFormedRange(reg[t].start, reg[t].size)
           /\ ~Registry!Clashes(<<reg[t].start, reg[t].size>>)
  <1>1. WellFormedRange(reg[t].start, reg[t].size)
    BY DEF RefinementInv, SafetyInv, CallsSound, CallSound
  <1>2. reg[t].start \in Nat /\ reg[t].size \in Nat
    BY DEF RefinementInv, SafetyInv, TypeInv, TypeOK, Addr
  <1>3. ASSUME NEW k \in DOMAIN ranges,
               ranges[k].start < reg[t].start + reg[t].size,
               reg[t].start < ranges[k].start + ranges[k].size_bytes
        PROVE  FALSE
    <2>1. \/ Before(reg[t].start, reg[t].size, ranges[k].start)
          \/ Before(ranges[k].start, ranges[k].size_bytes, reg[t].start)
      BY DEF RefinementInv, SafetyInv, CandidateClear
    <2>2. ranges[k].start \in Nat /\ ranges[k].size_bytes \in Nat
      BY DEF RefinementInv, SafetyInv, TypeInv, TypeOK, CodeRange, Addr
    <2>3. QED
      BY <1>2, <1>3, <2>1, <2>2 DEF Before
  <1>4. QED
    BY <1>1, <1>3, ClashMeaning

LEMMA RegisterStep ==
    ASSUME RefinementInv, NEW t \in Registrars, RegisterCodeRange(t)
    PROVE  Registry!Begin(t) \/ Registry!Resolve(t) \/ Stutter
  <1>0. /\ reg \in [Registrars -> RegRecord] /\ TypeInv
        /\ CallSound(reg[t])
    BY DEF RefinementInv, SafetyInv, TypeInv, TypeOK, RegRecord, CallsSound
  <1>a. ASSUME NEW phase \in Critical, GoTo(t, phase), reg[t].phase \in Critical
        PROVE  Stutter
    <2>1. CallState' = CallState
      BY <1>0, <1>a, GoToEffect, CallStateKept DEF Critical
    <2>2. QED
      BY <1>a, <2>1 DEF GoTo, Stutter, RegisteredIntervals, LookupState
  <1>1. CASE Call(t)
    BY <1>1, BeginStep
  <1>2. CASE LockExclusive(t)
    <2>1. CallState' = CallState
      BY <1>0, <1>2, LockEffect, CallStateKept
    <2>2. QED
      BY <1>2, <2>1 DEF LockExclusive, Stutter, RegisteredIntervals, LookupState
  <1>3. CASE ValidateArguments(t)
    <2>0. reg[t].phase \in Critical
      BY <1>3 DEF ValidateArguments, Critical
    <2>1. CASE GoTo(t, "overlap")
      BY <1>a, <2>0, <2>1 DEF Critical
    <2>2. CASE ~GoTo(t, "overlap")
      <3>1. /\ \E pc : Fail(t, "InvalidArgument", pc)
            /\ ~WellFormedRange(reg[t].start, reg[t].size)
        BY <1>3, <2>2 DEF ValidateArguments, WellFormedRange
      <3>2. QED
        BY <2>0, <3>1, FailStep DEF Statuses
    <2>3. QED
      BY <2>1, <2>2
  <1>4. CASE CheckOverlap(t)
    <2>0. reg[t].phase \in Critical /\ reg[t].phase = "overlap"
      BY <1>4 DEF CheckOverlap, Critical
    <2>1. CASE GoTo(t, "allocate")
      BY <1>a, <2>0, <2>1 DEF Critical
    <2>2. CASE ~GoTo(t, "allocate")
      <3>1. /\ Fail(t, "OverlappingRange", reg[t].start)
            /\ \E k \in DOMAIN ranges :
                  Overlaps(reg[t].start, reg[t].size, ranges[k])
        BY <1>4, <2>2 DEF CheckOverlap
      <3>2. PICK k \in DOMAIN ranges :
               Overlaps(reg[t].start, reg[t].size, ranges[k])
        BY <3>1
      <3>3. /\ reg[t].start \in Nat /\ reg[t].size \in Nat
            /\ reg[t].start + reg[t].size < AddrLimit
        BY <1>0 DEF RegRecord, Addr, CallSound
      <3>4. /\ ranges[k].start \in Nat /\ ranges[k].size_bytes \in Nat
            /\ ranges[k].start + ranges[k].size_bytes < AddrLimit
        BY DEF RefinementInv, SafetyInv, TypeInv, TypeOK, CodeRange, Addr,
               TableSound, RangeSound
      <3>5. /\ Add(reg[t].start, reg[t].size) = reg[t].start + reg[t].size
            /\ Add(ranges[k].start, ranges[k].size_bytes)
                  = ranges[k].start + ranges[k].size_bytes
        BY <3>3, <3>4, NoWrap DEF Add
      <3>6. Registry!Clashes(<<reg[t].start, reg[t].size>>)
        BY <3>2, <3>5, ClashMeaning DEF Overlaps
      <3>7. WellFormedRange(reg[t].start, reg[t].size)
        BY <1>0, <2>0 DEF CallSound
      <3>8. QED
        BY <2>0, <3>1, <3>6, <3>7, FailStep DEF Statuses
    <2>3. QED
      BY <2>1, <2>2
  <1>5. CASE Allocate(t)
    <2>0. reg[t].phase \in Critical /\ reg[t].phase = "allocate"
      BY <1>5 DEF Allocate, Critical
    <2>1. CASE GoTo(t, "predecode")
      BY <1>a, <2>0, <2>1 DEF Critical
    <2>2. CASE Fail(t, "OutOfMemory", reg[t].start)
      BY <2>0, <2>2, CandidateGood, FailStep DEF Statuses
    <2>3. QED
      BY <1>5, <2>1, <2>2 DEF Allocate
  <1>6. CASE PredecodeWord(t)
    <2>1. CallState' = CallState
      BY <1>0, <1>6, PredecodeEffect, CallStateKept
    <2>2. QED
      BY <1>6, <2>1 DEF PredecodeWord, Stutter, RegisteredIntervals, LookupState
  <1>7. CASE Commit(t)
    <2>0. reg[t].phase \in Critical /\ reg[t].phase = "commit"
      BY <1>7 DEF Commit, Critical
    <2>1. CASE Fail(t, "OutOfMemory", reg[t].start)
      BY <2>0, <2>1, CandidateGood, FailStep DEF Statuses
    <2>2. CASE ~Fail(t, "OutOfMemory", reg[t].start)
      <3>1. Publish(t)
        BY <1>7, <2>2 DEF Commit, Publish
      <3>2. reg[t].start \notin DOMAIN ranges
        <4>1. ASSUME reg[t].start \in DOMAIN ranges PROVE FALSE
          <5> DEFINE k == reg[t].start
          <5>1. /\ ranges[k].start = k /\ ranges[k].size_bytes \in Nat \ {0}
                /\ k \in Nat /\ reg[t].size \in Nat \ {0}
            BY <1>0, <2>0, <4>1
            DEF RefinementInv, SafetyInv, TableSound, RangeSound, CallSound,
                WellFormedRange, TypeInv, TypeOK, CodeRange, Addr, RegRecord
          <5>2. \/ Before(k, reg[t].size, ranges[k].start)
                \/ Before(ranges[k].start, ranges[k].size_bytes, k)
            BY <2>0, <4>1 DEF RefinementInv, SafetyInv, CandidateClear
          <5>3. QED
            BY <5>1, <5>2 DEF Before
        <4>2. QED
          BY <4>1
      <3>3. RegisteredIntervals' =
               RegisteredIntervals \cup {<<reg[t].start, reg[t].size>>}
        BY <3>1, <3>2 DEF Publish, RegisteredIntervals
      <3>4. Return(t, "Ok") /\ UNCHANGED sim
        BY <3>1 DEF Publish
      <3>5. QED
        BY <2>0, <3>3, <3>4, CandidateGood, ResolveStep DEF Statuses
    <2>3. QED
      BY <2>1, <2>2
  <1>8. QED
    BY <1>1, <1>2, <1>3, <1>4, <1>5, <1>6, <1>7 DEF RegisterCodeRange

-----------------------------------------------------------------------------
(***************************************************************************)
(* Steps of a fetch.                                                       *)
(***************************************************************************)
LookupOf(f) ==
    CASE f.phase = "idle" -> <<"idle">>
      [] f.phase = "found" -> <<"answer", f.range # None>>
      [] f.phase = "dispatch" -> <<"answer", TRUE>>
      [] f.phase = "aborted" -> <<"answer", FALSE>>
      [] OTHER -> <<"pending", f.pc>>

LEMMA LookupStateMoves ==
    ASSUME NEW s \in Simulators, NEW v,
           \A u \in Simulators \ {s} : sim'[u] = sim[u],
           v = LookupOf(sim'[s])
    PROVE  LookupState' = [LookupState EXCEPT ![s] = v]
  BY DEF LookupState, LookupOf

LEMMA LookupStateAt ==
    ASSUME NEW s \in Simulators
    PROVE  LookupState[s] = LookupOf(sim[s])
  BY DEF LookupState, LookupOf

\* A fetch step that keeps its lookup pending, or its answer, is invisible.
LEMMA LookupKept ==
    ASSUME NEW s \in Simulators,
           \A u \in Simulators \ {s} : sim'[u] = sim[u],
           LookupOf(sim'[s]) = LookupOf(sim[s]),
           UNCHANGED <<ranges, reg>>
    PROVE  Stutter
  <1>1. LookupState' = LookupState
    BY DEF LookupState, LookupOf
  <1>2. QED
    BY <1>1 DEF Stutter, RegisteredIntervals, CallState

\* A fetch step that answers from the registered ranges is one atomic lookup.
LEMMA AnswerStep ==
    ASSUME NEW s \in Simulators,
           \A u \in Simulators \ {s} : sim'[u] = sim[u],
           LookupOf(sim[s]) = <<"pending", sim[s].pc>>,
           LookupOf(sim'[s]) =
              <<"answer", \E k \in DOMAIN ranges : Covers(ranges[k], sim[s].pc)>>,
           UNCHANGED <<ranges, reg>>
    PROVE  Registry!Answer(s)
  <1>1. LookupState[s][1] = "pending" /\ LookupState[s][2] = sim[s].pc
    BY LookupStateAt
  <1>2. LookupOf(sim'[s]) = <<"answer", Registry!Registered(sim[s].pc)>>
    BY RegisteredMeaning
  <1>3. LookupState' =
           [LookupState EXCEPT ![s] = <<"answer", Registry!Registered(sim[s].pc)>>]
    BY <1>2, LookupStateMoves
  <1>4. RegisteredIntervals' = RegisteredIntervals /\ CallState' = CallState
    BY DEF RegisteredIntervals, CallState
  <1>5. QED
    BY <1>1, <1>3, <1>4 DEF Registry!Answer

LEMMA LookupStep ==
    ASSUME RefinementInv, NEW s \in Simulators, ExecuteInstructionCached(s)
    PROVE  Registry!Ask(s) \/ Registry!Answer(s) \/ Stutter
  <1>0. sim \in [Simulators -> SimRecord]
    BY DEF RefinementInv, SafetyInv, TypeInv, TypeOK, SimRecord
  <1>1. CASE Fetch(s)
    <2>1. PICK pc \in {a \in Addr : a % kInstructionSize = 0} :
             sim' = [sim EXCEPT ![s].phase = "fetch", ![s].pc = pc]
      BY <1>1 DEF Fetch
    <2>2. /\ sim'[s].pc = pc /\ sim'[s].phase = "fetch"
          /\ \A u \in Simulators \ {s} : sim'[u] = sim[u]
      BY <1>0, <2>1 DEF SimRecord
    <2>3. LookupOf(sim'[s]) = <<"pending", pc>>
      BY <2>2 DEF LookupOf
    <2>4. LookupState' = [LookupState EXCEPT ![s] = <<"pending", pc>>]
      BY <2>2, <2>3, LookupStateMoves
    <2>5. LookupState[s] = <<"idle">> \/ LookupState[s] = <<"answer", TRUE>>
      <3>1. sim[s].phase \in {"idle", "dispatch"}
        BY <1>1 DEF Fetch
      <3>2. QED
        BY <3>1, LookupStateAt DEF LookupOf
    <2>6. LookupState[s][1] = "idle" \/ LookupState[s] = <<"answer", TRUE>>
      <3>1. CASE LookupState[s] = <<"idle">>
        BY <3>1
      <3>2. CASE LookupState[s] = <<"answer", TRUE>>
        BY <3>2, Zenon
      <3>3. QED
        BY <2>5, <3>1, <3>2, Zenon
    <2>7. RegisteredIntervals' = RegisteredIntervals /\ CallState' = CallState
      BY <1>1 DEF Fetch, RegisteredIntervals, CallState
    <2>8. QED
      BY <2>4, <2>6, <2>7 DEF Registry!Ask
  <1>2. CASE FastPath(s)
    <2>1. /\ sim[s].phase = "fetch"
          /\ sim[s].cur_range \in DOMAIN ranges
          /\ InRange(sim[s].pc, ranges[sim[s].cur_range])
      BY <1>2 DEF FastPath, Hit, RefinementInv, SafetyInv, TypeInv, PointersValid
    <2>2. Covers(ranges[sim[s].cur_range], sim[s].pc)
      BY <1>0, <2>1, InRangeCovers DEF RefinementInv, SimRecord
    <2>3. /\ sim'[s].phase = "dispatch"
          /\ \A u \in Simulators \ {s} : sim'[u] = sim[u]
          /\ UNCHANGED <<ranges, reg>>
      BY <1>0, <1>2 DEF FastPath, Dispatch
    <2>4. LookupOf(sim[s]) = <<"pending", sim[s].pc>>
      BY <2>1 DEF LookupOf
    <2>5. LookupOf(sim'[s]) = <<"answer", TRUE>>
      BY <2>3 DEF LookupOf
    <2>6. (\E k \in DOMAIN ranges : Covers(ranges[k], sim[s].pc)) = TRUE
      BY <2>1, <2>2
    <2>7. QED
      BY <2>3, <2>4, <2>5, <2>6, AnswerStep
  <1>3. CASE SlowPath(s) \/ LockShared(s)
    <2>1. /\ sim[s].phase \in {"fetch", "locking"}
          /\ sim'[s].phase \in {"locking", "search"}
          /\ sim'[s].pc = sim[s].pc
          /\ \A u \in Simulators \ {s} : sim'[u] = sim[u]
          /\ UNCHANGED <<ranges, reg>>
      BY <1>0, <1>3 DEF SlowPath, LockShared, SimRecord
    <2>2. LookupOf(sim'[s]) = LookupOf(sim[s])
      BY <2>1 DEF LookupOf
    <2>3. QED
      BY <2>1, <2>2, LookupKept
  <1>4. CASE Search(s)
    <2>1. /\ sim[s].phase = "search" /\ sim'[s].phase = "found"
          /\ sim'[s].range = FindRange(sim[s].pc)
          /\ \A u \in Simulators \ {s} : sim'[u] = sim[u]
          /\ UNCHANGED <<ranges, reg>>
      BY <1>0, <1>4 DEF Search, SimRecord
    <2>2. LookupOf(sim[s]) = <<"pending", sim[s].pc>>
      BY <2>1 DEF LookupOf
    <2>3. LookupOf(sim'[s]) = <<"answer", FindRange(sim[s].pc) # None>>
      BY <2>1 DEF LookupOf
    <2>4. (FindRange(sim[s].pc) # None)
             = (\E k \in DOMAIN ranges : Covers(ranges[k], sim[s].pc))
      BY <1>0, FindRangeExact DEF RefinementInv, SimRecord
    <2>5. QED
      BY <2>1, <2>2, <2>3, <2>4, AnswerStep
  <1>5. CASE FinishSearch(s)
    <2>1. /\ sim[s].phase = "found"
          /\ sim'[s].phase = IF sim[s].range = None THEN "aborted" ELSE "dispatch"
          /\ \A u \in Simulators \ {s} : sim'[u] = sim[u]
          /\ UNCHANGED <<ranges, reg>>
      BY <1>0, <1>5 DEF FinishSearch, Dispatch, SimRecord
    <2>2. LookupOf(sim'[s]) = LookupOf(sim[s])
      BY <2>1 DEF LookupOf
    <2>3. QED
      BY <2>1, <2>2, LookupKept
  <1>6. QED
    BY <1>1, <1>2, <1>3, <1>4, <1>5 DEF ExecuteInstructionCached

LEMMA RefineStep ==
    RefinementInv /\ [Next]_vars
      => [Registry!RegistryNext]_(Registry!registryVars)
  <1> SUFFICES ASSUME RefinementInv, [Next]_vars
               PROVE  Registry!RegistryNext \/ Stutter
    BY DEF Stutter, Registry!registryVars
  <1>1. ASSUME NEW t \in Registrars, RegisterCodeRange(t)
        PROVE  Registry!RegistryNext \/ Stutter
    BY <1>1, RegisterStep DEF Registry!RegistryNext
  <1>2. ASSUME NEW s \in Simulators, ExecuteInstructionCached(s)
        PROVE  Registry!RegistryNext \/ Stutter
    BY <1>2, LookupStep DEF Registry!RegistryNext
  <1>3. CASE UNCHANGED vars
    BY <1>3 DEF vars, Stutter, RegisteredIntervals, CallState, LookupState
  <1>4. QED
    BY <1>1, <1>2, <1>3 DEF Next

\* The locked, word-by-word predecoded cache with its lock-free fast path implements
\* the registry: registration is atomic and all-or-nothing, its status is
\* justified by the ranges of one instant, and so is the answer of every fetch.
THEOREM CacheImplementsRegistry == Spec => RefinesRegistry
  <1>1. Spec => []RefinementInv
    BY FetchAlways, PTL DEF RefinementInv
  <1>2. QED
    BY <1>1, RefineInit, RefineStep, PTL
    DEF Spec, RefinesRegistry, Registry!RegistrySpec
=============================================================================
