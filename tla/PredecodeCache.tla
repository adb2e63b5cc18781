--------------------------- MODULE PredecodeCache ---------------------------
(***************************************************************************)
(* The predecode / dispatch cache shared by the Simulators of a process.   *)
(*                                                                         *)
(* Registrars are threads that call PredecodeCache::RegisterCodeRange;     *)
(* Simulators are threads that execute guest code on the cache track and   *)
(* look up one PC after another (the first half of                         *)
(* Simulator::ExecuteInstructionCached).  They meet in table_mutex_ and in *)
(* the range map.  A step is what one thread does between two points at    *)
(* which another thread can see the difference.                            *)
(***************************************************************************)
EXTENDS Integers

CONSTANTS
    Registrars,   \* threads that register code ranges
    Simulators,   \* threads that execute on the cache track
    None,         \* a null pointer, and "no thread"
    AddrLimit,    \* 2^w for a w-bit uintptr_t
    Requests,     \* the <<start, size_bytes>> pairs Registrars may pass
    Text,         \* what the decoder says of the word at each address
    Forms,        \* instruction forms the decoder names
    SimulatedForms \* those with a leaf in Simulator's form-to-visitor map

kInstructionSize == 4

\* The decoder's and the auditor's verdict on one 32-bit word.
Word == [form : Forms, unallocated : BOOLEAN, available : BOOLEAN,
         bti : BOOLEAN]

ASSUME ThreadAssumption ==
    /\ Registrars \cap Simulators = {}
    /\ None \notin Registrars \cup Simulators

ASSUME AddressAssumption ==
    /\ AddrLimit \in Nat \ {0}
    /\ AddrLimit % kInstructionSize = 0
    /\ None \notin 0 .. AddrLimit

\* A request names memory the embedder has mapped, so it ends below the top
\* of the address space.
ASSUME RequestAssumption ==
    \A req \in Requests :
        /\ req \in (0 .. AddrLimit - 1) \X Nat
        /\ req[1] + req[2] < AddrLimit

ASSUME TextAssumption ==
    /\ Text \in [0 .. AddrLimit - 1 -> Word]
    /\ SimulatedForms \subseteq Forms
    /\ "VisitUnallocated" \notin Forms
    /\ "VisitUnimplemented" \notin Forms
    /\ "nullptr" \notin Forms

Addr == 0 .. AddrLimit - 1
Leaves == SimulatedForms \cup {"VisitUnallocated", "VisitUnimplemented"}
Statuses == {"Ok", "InvalidArgument", "OverlappingRange", "OutOfMemory"}

\* PredecodedEntry: 16 bytes of form hash, flags and leaf handle.
PredecodedEntry == [form_hash : Forms \cup {0}, flags : {0, 1},
                    leaf : Leaves \cup {"nullptr"}]

\* What make_unique<PredecodedEntry[]> value-initialises every entry to.
ZeroEntry == [form_hash |-> 0, flags |-> 0, leaf |-> "nullptr"]

VARIABLES
    ranges,      \* std::map keyed by start address; a node never moves
    last_error,  \* the diagnostic GetLastRegistrationError hands out
    mutex,       \* table_mutex_: its exclusive holder and shared holders
    reg,         \* per Registrar: where it is in RegisterCodeRange
    sim          \* per Simulator: where it is in a cache-track fetch

vars == <<ranges, last_error, mutex, reg, sim>>

\* An entry array; beyond the size_bytes / 4 entries that were allocated it
\* holds ZeroEntry, so that a read out of bounds shows.
Index == 0 .. (AddrLimit \div kInstructionSize) - 1
EntryArrays == [Index -> PredecodedEntry]

CodeRange == [start : Addr, size_bytes : Nat, entries : EntryArrays]

RegPhases == {"idle", "locking", "validate", "overlap", "allocate",
              "predecode", "commit", "returned"}

SimPhases == {"idle", "fetch", "locking", "search", "found", "dispatch",
              "aborted"}

NoEntries == [i \in Index |-> ZeroEntry]

Init ==
    /\ ranges = [a \in {} |-> <<>>]
    /\ last_error = [status |-> "Ok", pc |-> 0]
    /\ mutex = [writer |-> None, readers |-> {}]
    /\ reg = [t \in Registrars |->
                [phase |-> "idle", start |-> 0, size |-> 0,
                 entries |-> NoEntries, next |-> 0, status |-> "Ok",
                 quiet |-> FALSE]]
    /\ sim = [s \in Simulators |->
                [phase |-> "idle", pc |-> 0, cur_range |-> None,
                 range |-> None, entry |-> ZeroEntry]]

-----------------------------------------------------------------------------
(***************************************************************************)
(* uintptr_t arithmetic, and what one word predecodes to.                  *)
(***************************************************************************)
Add(a, b) == (a + b) % AddrLimit
Sub(a, b) == (a - b) % AddrLimit

\* Mutants: looking only at the new range's start, and letting a range with
\* the same start through.
OverlapsStartOnly(start, size, r) ==
    r.start <= start /\ start < Add(r.start, r.size_bytes)

OverlapsUnlessSameStart(start, size, r) ==
    /\ start # r.start
    /\ start < Add(r.start, r.size_bytes)
    /\ r.start < Add(start, size)

\* The overlap test of RegisterCodeRange against one registered range.
Overlaps(start, size, r) ==
    /\ start < Add(r.start, r.size_bytes)
    /\ r.start < Add(start, size)

\* Mutant: the lookup's result is used without comparing it with end(), so
\* that a form without a visitor gets a handle too.
ResolveLeafUnchecked(form) == form

\* Simulator::ResolvePredecodeLeaf: a miss in the form map is a null handle.
ResolvePredecodeLeaf(form) ==
    IF form \in SimulatedForms THEN form ELSE "nullptr"

\* Mutant: the sentinel for a form without a leaf is forgotten.
PredecodeNoSentinel(word) ==
    IF ~word.available \/ word.unallocated
    THEN [form_hash |-> 0, flags |-> 0, leaf |-> "VisitUnallocated"]
    ELSE [form_hash |-> word.form, flags |-> IF word.bti THEN 1 ELSE 0,
          leaf |-> ResolvePredecodeLeaf(word.form)]

\* One turn of the predecode loop: decode, audit, resolve the leaf.
Predecode(word) ==
    IF ~word.available \/ word.unallocated
    THEN [form_hash |-> 0, flags |-> 0, leaf |-> "VisitUnallocated"]
    ELSE [form_hash |-> word.form,
          flags |-> IF word.bti THEN 1 ELSE 0,
          leaf |-> IF ResolvePredecodeLeaf(word.form) = "nullptr"
                   THEN "VisitUnimplemented"
                   ELSE ResolvePredecodeLeaf(word.form)]

\* Mutant: one past the end counts as inside.
InRangeInclusive(pc, r) == Sub(pc, r.start) <= r.size_bytes

\* The pc - start < size containment test of the fetch and of FindRange.
InRange(pc, r) == Sub(pc, r.start) < r.size_bytes

\* upper_bound(pc), one step back, and the containment test.
FindRange(pc) ==
    LET Candidates == {k \in DOMAIN ranges :
                          /\ k <= pc
                          /\ \A j \in DOMAIN ranges : j <= pc => j <= k
                          /\ InRange(pc, ranges[k])}
    IN IF Candidates = {} THEN None ELSE CHOOSE k \in Candidates : TRUE

EntryIndex(pc, r) == Sub(pc, r.start) \div kInstructionSize

-----------------------------------------------------------------------------
(***************************************************************************)
(* RegisterCodeRange.  The exclusive lock is taken before the arguments    *)
(* are looked at and released by every return, so a return is one step     *)
(* with the SetError that precedes it.                                     *)
(***************************************************************************)
Call(t) ==
    /\ reg[t].phase \in {"idle", "returned"}
    /\ \E req \in Requests :
          reg' = [u \in Registrars |->
                    IF u = t
                    THEN [reg[u] EXCEPT !.phase = "locking",
                                        !.start = req[1], !.size = req[2],
                                        !.quiet = FALSE]
                    ELSE [reg[u] EXCEPT !.quiet = FALSE]]
    /\ UNCHANGED <<ranges, last_error, mutex, sim>>

\* Mutant: the writer does not wait for readers.
LockIgnoringReaders(t) ==
    /\ reg[t].phase = "locking"
    /\ mutex.writer = None
    /\ mutex' = [mutex EXCEPT !.writer = t]
    /\ reg' = [reg EXCEPT ![t].phase = "validate"]
    /\ UNCHANGED <<ranges, last_error, sim>>

LockExclusive(t) ==
    /\ reg[t].phase = "locking"
    /\ mutex.writer = None /\ mutex.readers = {}
    /\ mutex' = [mutex EXCEPT !.writer = t]
    /\ reg' = [reg EXCEPT ![t].phase = "validate"]
    /\ UNCHANGED <<ranges, last_error, sim>>

\* quiet: no other call to RegisterCodeRange is under way on this cache.
Quiet(t) == \A u \in Registrars \ {t} : reg[u].phase \in {"idle", "returned"}

\* Leaving the function releases the lock and destroys its locals.
Return(t, status) ==
    /\ reg' = [reg EXCEPT ![t] = [phase |-> "returned", start |-> 0, size |-> 0,
                                  entries |-> NoEntries, next |-> 0,
                                  status |-> status, quiet |-> Quiet(t)]]
    /\ mutex' = [mutex EXCEPT !.writer = None]

\* Mutant: an early return that leaves the lock held.
FailKeepsLock(t, status, pc) ==
    /\ last_error' = [status |-> status, pc |-> pc]
    /\ reg' = [reg EXCEPT ![t] = [phase |-> "returned", start |-> 0, size |-> 0,
                                  entries |-> NoEntries, next |-> 0,
                                  status |-> status, quiet |-> Quiet(t)]]
    /\ UNCHANGED <<ranges, mutex, sim>>

\* SetError, then return: the table is left as it was.
Fail(t, status, pc) ==
    /\ last_error' = [status |-> status, pc |-> pc]
    /\ Return(t, status)
    /\ UNCHANGED <<ranges, sim>>

GoTo(t, phase) ==
    /\ reg' = [reg EXCEPT ![t].phase = phase]
    /\ UNCHANGED <<ranges, last_error, mutex, sim>>

ValidateArguments(t) ==
    /\ reg[t].phase = "validate"
    /\ \/ /\ reg[t].size = 0 \/ reg[t].size % kInstructionSize # 0
          /\ Fail(t, "InvalidArgument", 0)
       \/ /\ reg[t].size # 0 /\ reg[t].size % kInstructionSize = 0
          /\ reg[t].start % kInstructionSize # 0
          /\ Fail(t, "InvalidArgument", reg[t].start)
       \/ /\ reg[t].size # 0 /\ reg[t].size % kInstructionSize = 0
          /\ reg[t].start % kInstructionSize = 0
          /\ GoTo(t, "overlap")

\* Mutant: the overlap is refused without recording the detail.
CheckOverlapSilently(t) ==
    /\ reg[t].phase = "overlap"
    /\ IF \E k \in DOMAIN ranges :
             Overlaps(reg[t].start, reg[t].size, ranges[k])
       THEN Return(t, "OverlappingRange") /\ UNCHANGED <<ranges, last_error, sim>>
       ELSE GoTo(t, "allocate")

CheckOverlap(t) ==
    /\ reg[t].phase = "overlap"
    /\ IF \E k \in DOMAIN ranges :
             Overlaps(reg[t].start, reg[t].size, ranges[k])
       THEN Fail(t, "OverlappingRange", reg[t].start)
       ELSE GoTo(t, "allocate")

\* The entry array is allocated, or operator new throws bad_alloc.
Allocate(t) ==
    /\ reg[t].phase = "allocate"
    /\ \/ Fail(t, "OutOfMemory", reg[t].start)
       \/ GoTo(t, "predecode")

PredecodeWord(t) ==
    /\ reg[t].phase = "predecode"
    /\ IF reg[t].next < reg[t].size \div kInstructionSize
       THEN LET addr == Add(reg[t].start, reg[t].next * kInstructionSize)
            IN  reg' = [reg EXCEPT ![t].entries[reg[t].next] =
                                       Predecode(Text[addr]),
                                   ![t].next = reg[t].next + 1]
       ELSE reg' = [reg EXCEPT ![t].phase = "commit"]
    /\ UNCHANGED <<ranges, last_error, mutex, sim>>

\* emplace, then the two assignments; emplace may throw bad_alloc.
Commit(t) ==
    /\ reg[t].phase = "commit"
    /\ \/ Fail(t, "OutOfMemory", reg[t].start)
       \/ /\ ranges' =
               [k \in DOMAIN ranges \cup {reg[t].start} |->
                  IF k = reg[t].start
                  THEN [start |-> reg[t].start, size_bytes |-> reg[t].size,
                        entries |-> reg[t].entries]
                  ELSE ranges[k]]
          /\ Return(t, "Ok")
          /\ UNCHANGED <<last_error, sim>>

RegisterCodeRange(t) ==
    \/ Call(t) \/ LockExclusive(t) \/ ValidateArguments(t) \/ CheckOverlap(t)
    \/ Allocate(t) \/ PredecodeWord(t) \/ Commit(t)

-----------------------------------------------------------------------------
(***************************************************************************)
(* The fetch of ExecuteInstructionCached.  cur_range_ is per Simulator and *)
(* read without a lock; a miss takes the slow path through FindRange.      *)
(***************************************************************************)
Fetch(s) ==
    /\ sim[s].phase \in {"idle", "dispatch"}
    /\ \E pc \in {a \in Addr : a % kInstructionSize = 0} :
          sim' = [sim EXCEPT ![s].phase = "fetch", ![s].pc = pc]
    /\ UNCHANGED <<ranges, last_error, mutex, reg>>

Dispatch(s, k) ==
    sim' = [sim EXCEPT ![s] =
              [phase |-> "dispatch", pc |-> sim[s].pc,
               cur_range |-> k, range |-> k,
               entry |-> ranges[k].entries[EntryIndex(sim[s].pc, ranges[k])]]]

\* The PC lies in the range this Simulator used last.
Hit(s) ==
    /\ sim[s].cur_range # None
    /\ InRange(sim[s].pc, ranges[sim[s].cur_range])

\* Mutant: the fast path waits for a registration under way.
FastPathLocking(s) ==
    /\ sim[s].phase = "fetch"
    /\ Hit(s)
    /\ mutex.writer = None
    /\ Dispatch(s, sim[s].cur_range)
    /\ UNCHANGED <<ranges, last_error, mutex, reg>>

FastPath(s) ==
    /\ sim[s].phase = "fetch"
    /\ Hit(s)
    /\ Dispatch(s, sim[s].cur_range)
    /\ UNCHANGED <<ranges, last_error, mutex, reg>>

SlowPath(s) ==
    /\ sim[s].phase = "fetch"
    /\ ~Hit(s)
    /\ sim' = [sim EXCEPT ![s].phase = "locking"]
    /\ UNCHANGED <<ranges, last_error, mutex, reg>>

\* Mutant: a reader does not wait for the writer.
LockSharedAlways(s) ==
    /\ sim[s].phase = "locking"
    /\ mutex' = [mutex EXCEPT !.readers = @ \cup {s}]
    /\ sim' = [sim EXCEPT ![s].phase = "search"]
    /\ UNCHANGED <<ranges, last_error, reg>>

LockShared(s) ==
    /\ sim[s].phase = "locking"
    /\ mutex.writer = None
    /\ mutex' = [mutex EXCEPT !.readers = @ \cup {s}]
    /\ sim' = [sim EXCEPT ![s].phase = "search"]
    /\ UNCHANGED <<ranges, last_error, reg>>

Search(s) ==
    /\ sim[s].phase = "search"
    /\ sim' = [sim EXCEPT ![s].phase = "found",
                          ![s].range = FindRange(sim[s].pc)]
    /\ UNCHANGED <<ranges, last_error, mutex, reg>>

\* FindRange returns: the shared lock goes, a null range aborts the process.
FinishSearch(s) ==
    /\ sim[s].phase = "found"
    /\ mutex' = [mutex EXCEPT !.readers = @ \ {s}]
    /\ IF sim[s].range = None
       THEN sim' = [sim EXCEPT ![s].phase = "aborted"]
       ELSE Dispatch(s, sim[s].range)
    /\ UNCHANGED <<ranges, last_error, reg>>

ExecuteInstructionCached(s) ==
    \/ Fetch(s) \/ FastPath(s) \/ SlowPath(s) \/ LockShared(s)
    \/ Search(s) \/ FinishSearch(s)

Next ==
    \/ \E t \in Registrars : RegisterCodeRange(t)
    \/ \E s \in Simulators : ExecuteInstructionCached(s)

Spec == Init /\ [][Next]_vars

\* Executing threads are scheduled again and again.  Registrars may stop at
\* any point, holding the lock or not.
LiveSpec == Spec /\ \A s \in Simulators : WF_vars(FastPath(s))

\* Every thread inside a call is scheduled again and again, and a lock it
\* waits for is granted when it keeps becoming free.  Nothing obliges a thread
\* to make another call or to fetch another instruction.
FairScheduling ==
    /\ \A t \in Registrars :
          /\ WF_vars(ValidateArguments(t)) /\ WF_vars(CheckOverlap(t))
          /\ WF_vars(Allocate(t)) /\ WF_vars(PredecodeWord(t))
          /\ WF_vars(Commit(t)) /\ SF_vars(LockExclusive(t))
    /\ \A s \in Simulators :
          /\ WF_vars(SlowPath(s))
          /\ WF_vars(Search(s)) /\ WF_vars(FinishSearch(s))
          /\ SF_vars(LockShared(s))

-----------------------------------------------------------------------------
(***************************************************************************)
(* Properties.                                                             *)
(***************************************************************************)

\* Every variable keeps its type: what each field of the cache, of a call to
\* RegisterCodeRange and of a cache-track fetch may hold.
TypeOK ==
    /\ DOMAIN ranges \subseteq Addr
    /\ \A k \in DOMAIN ranges : ranges[k] \in CodeRange
    /\ last_error \in [status : Statuses, pc : Addr]
    /\ mutex \in [writer : Registrars \cup {None},
                  readers : SUBSET Simulators]
    /\ reg \in [Registrars -> [phase : RegPhases, start : Addr, size : Nat,
                               entries : EntryArrays, next : Nat,
                               status : Statuses, quiet : BOOLEAN]]
    /\ sim \in [Simulators -> [phase : SimPhases, pc : Addr,
                               cur_range : Addr \cup {None},
                               range : Addr \cup {None},
                               entry : PredecodedEntry]]

Covers(r, a) == r.start <= a /\ a < r.start + r.size_bytes

\* No address belongs to two registered ranges, whatever registrations raced
\* to commit (the overlap check of RegisterCodeRange and the lock around it).
Disjoint ==
    \A j, k \in DOMAIN ranges :
        j # k => \A a \in Addr : ~(Covers(ranges[j], a) /\ Covers(ranges[k], a))

\* Which leaf the debug track's Simulator::Visit calls for a word.
DebugLeaf(word) ==
    IF word.unallocated THEN "VisitUnallocated"
    ELSE IF word.form \in SimulatedForms THEN word.form
         ELSE "VisitUnimplemented"

\* Every entry a Simulator can reach names the leaf the decoder would have
\* chosen for the word at that address, and never the null handle: the
\* predecode loop has filled the whole array before emplace publishes it.
EntriesMatchDecoder ==
    \A k \in DOMAIN ranges :
        \A i \in 0 .. (ranges[k].size_bytes \div kInstructionSize) - 1 :
            LET word == Text[ranges[k].start + i * kInstructionSize]
            IN  word.available =>
                  /\ ranges[k].entries[i].leaf = DebugLeaf(word)
                  /\ (ranges[k].entries[i].flags = 1)
                       <=> (word.bti /\ ~word.unallocated)

\* The slow path is exact while the shared lock is held: FindRange's result
\* contains the PC, and a null result means no registered range contains it.
\* Fails if a registration can commit under a reader.
SearchExact ==
    \A s \in Simulators :
        sim[s].phase = "found" =>
            IF sim[s].range = None
            THEN \A k \in DOMAIN ranges : ~Covers(ranges[k], sim[s].pc)
            ELSE /\ sim[s].range \in DOMAIN ranges
                 /\ Covers(ranges[sim[s].range], sim[s].pc)

\* Whichever path found it, lock-free through a cur_range_ cached long ago or
\* through FindRange, the entry dispatched for a PC is the predecoding of the
\* word at that PC.
DispatchCorrect ==
    \A s \in Simulators :
        sim[s].phase = "dispatch" => sim[s].entry = Predecode(Text[sim[s].pc])

\* table_mutex_ admits one registration, or readers, and a call past its lock
\* holds it: the exclusion every other property rests on.
LockDiscipline ==
    /\ \A t \in Registrars :
          (mutex.writer = t) <=>
              (reg[t].phase \in {"validate", "overlap", "allocate",
                                 "predecode", "commit"})
    /\ \A s \in Simulators :
          (s \in mutex.readers) <=> (sim[s].phase \in {"search", "found"})
    /\ mutex.writer # None => mutex.readers = {}

\* The cache is append-only and its records never move: a step leaves every
\* registered range exactly as it was, which is what lets a Simulator keep
\* cur_range_ without a lock.
AppendOnly ==
    [][\A k \in DOMAIN ranges :
          k \in DOMAIN ranges' /\ ranges'[k] = ranges[k]]_vars

\* A failed call that nobody's call has followed or raced: the detail
\* GetLastRegistrationError hands out is that call's own, although Ok calls
\* never clear it and validation failures are reported too.
ErrorDetailIsCallers ==
    \A t \in Registrars :
        (reg[t].phase = "returned" /\ reg[t].quiet /\ reg[t].status # "Ok")
            => last_error.status = reg[t].status

\* Under fair scheduling and a fair lock every call to RegisterCodeRange
\* returns: each of its exits releases table_mutex_.
CallReturns ==
    FairScheduling =>
        \A t \in Registrars :
            reg[t].phase = "locking" ~> reg[t].phase = "returned"

\* Under the same assumptions every fetch dispatches or aborts, whatever
\* registrations are under way.
FetchCompletes ==
    FairScheduling =>
        \A s \in Simulators :
            sim[s].phase = "fetch" ~> sim[s].phase \in {"dispatch", "aborted"}

\* Every call that takes table_mutex_ ends, the registrations and the fetches,
\* whichever of the five returns of RegisterCodeRange is taken.
EveryCallEnds == CallReturns /\ FetchCompletes

\* The per-instruction fast path is lock-free: a PC inside cur_range_ is
\* dispatched even if a registration stops for ever while it holds the lock
\* (no fairness of Registrars is assumed).
FastPathLockFree ==
    \A s \in Simulators :
        (sim[s].phase = "fetch" /\ Hit(s)) ~> sim[s].phase = "dispatch"

-----------------------------------------------------------------------------
(***************************************************************************)
(* The cache implements the registry: a call takes effect when it returns, *)
(* a slow lookup is answered at the binary search, a fast one at once.     *)
(***************************************************************************)
RegisteredIntervals ==
    {<<ranges[k].start, ranges[k].size_bytes>> : k \in DOMAIN ranges}

CallState ==
    [t \in Registrars |->
        IF reg[t].phase = "idle" THEN <<"idle">>
        ELSE IF reg[t].phase = "returned" THEN <<"done", reg[t].status>>
        ELSE <<"pending", <<reg[t].start, reg[t].size>>>>]

LookupState ==
    [s \in Simulators |->
        CASE sim[s].phase = "idle" -> <<"idle">>
          [] sim[s].phase = "found" -> <<"answer", sim[s].range # None>>
          [] sim[s].phase = "dispatch" -> <<"answer", TRUE>>
          [] sim[s].phase = "aborted" -> <<"answer", FALSE>>
          [] OTHER -> <<"pending", sim[s].pc>>]

Registry ==
    INSTANCE CodeRegistry WITH
        Pcs <- {a \in Addr : a % kInstructionSize = 0},
        intervals <- RegisteredIntervals,
        call <- CallState,
        lookup <- LookupState

\* RegisterCodeRange is all-or-nothing and linearizable, its status is
\* justified by the ranges registered at that instant, and every fetch, fast
\* or slow, is answered as one atomic lookup would be.
RefinesRegistry == Registry!RegistrySpec
=============================================================================
