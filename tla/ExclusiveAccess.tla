--------------------------- MODULE ExclusiveAccess ---------------------------
(***************************************************************************)
(* Guest memory shared by guest programs, and the instructions meant for   *)
(* sharing it: load and store exclusive, CLREX, compare-and-swap, the LSE  *)
(* atomics and the acquire and release accesses (VisitLoadStoreExclusive,  *)
(* VisitAtomicMemory and their helpers).                                   *)
(*                                                                         *)
(* A step is one memory access of one guest with the local effects before  *)
(* it; an instruction that accesses memory twice is two steps, as another  *)
(* host thread may run between them, and so may the guest that a memory-   *)
(* write observer runs after the first write.  The two halves of a pair    *)
(* are two words.  The generators of the monitors are a free choice.       *)
(*                                                                         *)
(* Every guest repeats one of the textbook read-modify-write sequences on  *)
(* the two words, each of which adds one to both.  The guests of one       *)
(* Simulator share its monitors; one of them runs when no other does, the  *)
(* others run in callbacks of those of a lower level, to any depth.        *)
(***************************************************************************)
EXTENDS Naturals, Sequences, FiniteSets

CONSTANTS
    Guests,       \* the guest programs
    SimOf,        \* the Simulator each runs on, with monitors of its own
    Level,        \* how deep in the callbacks of that Simulator each runs
    Methods,      \* per guest: the read-modify-write sequences it may use
    Iterations    \* increments per guest

ASSUME ExclusiveAssumption ==
    /\ IsFiniteSet(Guests)
    /\ DOMAIN SimOf = Guests
    /\ Level \in [Guests -> Nat]
    /\ \A g, h \in Guests : SimOf[g] = SimOf[h] /\ Level[g] = Level[h] => g = h
    /\ \A g \in Guests : Methods[g] \subseteq {"llsc", "ldadd", "casp", "cas", "swp"}
    /\ Iterations \in Nat \ {0}

VARIABLES
    mem,       \* <<low, high>>: the shared pair of words
    lock,      \* the word that the SWP method takes as a lock
    monitor,   \* per Simulator: SimExclusiveLocalMonitor's <<address, size>>
    guest,     \* per guest: where its sequence is, and its registers
    done,      \* per guest: increments completed
    exposed,   \* history: the guests whose sequence a callback laid open
    torn       \* history: the guests that have written all the same

exVars == <<mem, lock, monitor, guest, done, exposed, torn>>

Sims == {SimOf[g] : g \in Guests}
Cleared == <<"none", 0>>
Pair == <<"pair", 2>>
Fresh == [at |-> "next", low |-> 0, high |-> 0, rs |-> 0]

Init ==
    /\ mem = <<0, 0>>
    /\ lock = 0
    /\ monitor = [s \in Sims |-> Cleared]
    /\ guest = [g \in Guests |-> Fresh]
    /\ done = [g \in Guests |-> 0]
    /\ exposed = {} /\ torn = {}

At(g, where) == guest[g].at = where
Go(g, where) == guest' = [guest EXCEPT ![g].at = where]

Above(g) == {h \in Guests : SimOf[h] = SimOf[g] /\ Level[h] > Level[g]}
Below(g) == {h \in Guests : SimOf[h] = SimOf[g] /\ Level[h] < Level[g]}

\* A callback runs its guest to completion while the guests below wait.
MayRun(g) == \A h \in Above(g) : At(h, "next")

\* Where a guest waits for a callback: a branch hook at a taken branch between
\* two instructions, or the observer that MemWrite calls after each write, that
\* between the two writes of a store exclusive or compare-and-swap pair too.
AtBranch == {"next", "ldxp", "other", "stxp", "ldadd low", "ldp low", "casp",
             "ldar low", "cas low", "ldar high", "cas high", "swpa"}
HalfWritten == {"stxp high", "casp write high"}
AfterWrite == {"next", "ldadd high", "ldar high", "ldr low", "swpa", "ldr high", "stlr"}
              \cup HalfWritten
Callback == AtBranch \cup AfterWrite

\* Where a guest owns the lock.  A guest in a callback does not wait for a
\* lock whose owner waits for the callback.
Owning == {"ldr low", "str low", "ldr high", "str high", "stlr"}

\* A sequence is laid open by a guest in a callback between the two writes of
\* its pair, and between its exclusive accesses by one that updates the words
\* with LDADD or with ordinary stores, none of which must clear the monitor.
Exposes(g, method) ==
    {h \in Below(g) : \/ guest[h].at \in HalfWritten
                      \/ guest[h].at \in {"other", "stxp"} /\ method \in {"ldadd", "swp"}}

Next0(g, method, where) ==
    /\ At(g, "next") /\ done[g] < Iterations /\ method \in Methods[g]
    /\ \A h \in Below(g) : guest[h].at \in Callback
    /\ method = "swp" => \A h \in Below(g) : guest[h].at \notin Owning
    /\ Go(g, where)
    /\ exposed' = exposed \cup Exposes(g, method)
    /\ UNCHANGED <<mem, lock, monitor, done, torn>>

Begin(g) ==
    \/ Next0(g, "llsc", "ldxp")
    \/ Next0(g, "ldadd", "ldadd low")
    \/ Next0(g, "casp", "ldp low")
    \/ Next0(g, "cas", "ldar low")
    \/ Next0(g, "swp", "swpa")

-----------------------------------------------------------------------------
\* An access to one of the words, from one place of a sequence to the next.
ReadLow(g, from, to) ==
    /\ At(g, from)
    /\ guest' = [guest EXCEPT ![g].at = to, ![g].low = mem[1]]
    /\ UNCHANGED <<mem, lock, done, torn>>

ReadHigh(g, from, to) ==
    /\ At(g, from)
    /\ guest' = [guest EXCEPT ![g].at = to, ![g].high = mem[2]]
    /\ UNCHANGED <<mem, lock, done, exposed, torn>>

WriteLow(g, from, to) ==
    /\ At(g, from)
    /\ mem' = [mem EXCEPT ![1] = guest[g].low + 1]
    /\ Go(g, to)
    /\ UNCHANGED <<lock, monitor, done, exposed, torn>>

\* The sequence has ended, and its increment counts.
Complete(g) ==
    /\ done' = [done EXCEPT ![g] = @ + 1]
    /\ guest' = [guest EXCEPT ![g] = Fresh]
    /\ exposed' = exposed \ {g}

WriteHigh(g, from) ==
    /\ At(g, from)
    /\ mem' = [mem EXCEPT ![2] = guest[g].high + 1]
    /\ Complete(g)
    /\ torn' = torn \cup (exposed \cap {g})
    /\ UNCHANGED <<lock, monitor>>

SetMonitor(g, mark) == monitor' = [monitor EXCEPT ![SimOf[g]] = mark]

\* MaybeClear: by its generator.
MaybeClear(g) == UNCHANGED monitor \/ SetMonitor(g, Cleared)

-----------------------------------------------------------------------------
\* Mutant: the access is not marked.
LoadExclusiveUnmarked(g) ==
    /\ ReadLow(g, "ldxp", "ldxp high")
    /\ exposed' = exposed \ {g}
    /\ UNCHANGED monitor

\* LDXP: mark first, then the two reads.
LoadExclusive(g) ==
    /\ ReadLow(g, "ldxp", "ldxp high")
    /\ exposed' = exposed \ {g}
    /\ SetMonitor(g, Pair)

LoadExclusiveHigh(g) ==
    /\ \E to \in {"other", "stxp"} : ReadHigh(g, "ldxp high", to)
    /\ UNCHANGED monitor

\* Another access of this guest between the two: an ordinary one clears the
\* local monitor or not, by its generator; LDAR, CLREX and CAS clear it.
OtherAccess(g) ==
    /\ At(g, "other")
    /\ Go(g, "stxp")
    /\ MaybeClear(g)
    /\ UNCHANGED <<mem, lock, done, exposed, torn>>

\* Mutant: only the global monitor, which never fails for long, is asked.
IsExclusiveGlobalOnly(g, pass) == pass

\* The local monitor compares address and size, the global one passes or not.
IsExclusive(g, pass) == monitor[SimOf[g]] = Pair /\ pass

\* STXP: the status, the monitor, then the two writes if the status is 0.
StoreExclusive(g) ==
    /\ At(g, "stxp")
    /\ SetMonitor(g, Cleared)
    /\ \E pass \in {TRUE, FALSE} :
          \/ /\ IsExclusive(g, pass)
             /\ guest' = [guest EXCEPT ![g].at = "stxp high", ![g].rs = 0]
             /\ mem' = [mem EXCEPT ![1] = guest[g].low + 1]
             /\ torn' = torn \cup (exposed \cap {g})
          \/ /\ ~IsExclusive(g, pass)
             /\ guest' = [guest EXCEPT ![g].at = "ldxp", ![g].rs = 1]
             /\ UNCHANGED <<mem, torn>>
    /\ UNCHANGED <<lock, done, exposed>>

StoreExclusiveHigh(g) == WriteHigh(g, "stxp high")

-----------------------------------------------------------------------------
\* LDADD on each word: a read, the destination register, then a write.
AtomicRead(g) ==
    /\ \/ ReadLow(g, "ldadd low", "add low") /\ UNCHANGED exposed
       \/ ReadHigh(g, "ldadd high", "add high")
    /\ UNCHANGED monitor

AtomicWrite(g) == WriteLow(g, "add low", "ldadd high") \/ WriteHigh(g, "add high")

-----------------------------------------------------------------------------
\* LDP of the expected pair, then CASP.
LoadPair(g) ==
    \/ ReadLow(g, "ldp low", "ldp high") /\ UNCHANGED <<monitor, exposed>>
    \/ ReadHigh(g, "ldp high", "casp") /\ MaybeClear(g)

\* CASP clears the monitor, reads both words, compares both, and writes both
\* only if both are the expected ones.  The read of the low word:
CompareLow(g) ==
    /\ At(g, "casp")
    /\ SetMonitor(g, Cleared)
    /\ guest' = [guest EXCEPT ![g].at = "casp high",
                              ![g].rs = IF mem[1] = guest[g].low THEN 0 ELSE 1]
    /\ UNCHANGED <<mem, lock, done, exposed, torn>>

\* Mutant: the words are not compared.
SameAlways(g) == TRUE

Same(g) == guest[g].rs = 0 /\ mem[2] = guest[g].high

CompareHigh(g) ==
    /\ At(g, "casp high")
    /\ Go(g, IF Same(g) THEN "casp write" ELSE "ldp low")
    /\ UNCHANGED <<mem, lock, monitor, done, exposed, torn>>

SwapLow(g) == WriteLow(g, "casp write", "casp write high")

SwapHigh(g) == WriteHigh(g, "casp write high")

-----------------------------------------------------------------------------
\* Word by word: an acquire load of the expected word, then CAS.  LDAR clears
\* the monitor, LDAPR leaves it.
LoadAcquire(g, keep) ==
    /\ \/ ReadLow(g, "ldar low", "cas low") /\ UNCHANGED exposed
       \/ ReadHigh(g, "ldar high", "cas high")
    /\ IF keep THEN UNCHANGED monitor ELSE SetMonitor(g, Cleared)

LoadAcquireRCpcHelper(g) == LoadAcquire(g, TRUE)

\* CAS clears the monitor, reads and compares; the write is a step of its own.
CompareAndSwap(g) ==
    /\ \/ At(g, "cas low") /\ Go(g, IF mem[1] = guest[g].low THEN "cas write" ELSE "ldar low")
       \/ At(g, "cas high") /\ Go(g, IF mem[2] = guest[g].high THEN "cas write high" ELSE "ldar high")
    /\ SetMonitor(g, Cleared)
    /\ UNCHANGED <<mem, lock, done, exposed, torn>>

CompareAndSwapWrite(g) == WriteLow(g, "cas write", "ldar high") \/ WriteHigh(g, "cas write high")

-----------------------------------------------------------------------------
\* A lock taken with SWPA and given back with STLR.  SWP reads, then writes.
SwapRead(g) ==
    /\ At(g, "swpa")
    /\ guest' = [guest EXCEPT ![g].at = "swpa write", ![g].rs = lock]
    /\ UNCHANGED <<mem, lock, monitor, done, exposed, torn>>

SwapWrite(g) ==
    /\ At(g, "swpa write")
    /\ lock' = 1
    /\ Go(g, IF guest[g].rs = 0 THEN "ldr low" ELSE "swpa")
    /\ UNCHANGED <<mem, monitor, done, exposed, torn>>

\* Under the lock: LDR, ADD, STR of each word, with no branch between LDR and
\* STR.  Each ends with MaybeClear; that of STR, which follows the observer of
\* its write, is the one of the next access.
LoadOrdinary(g) ==
    /\ \/ ReadLow(g, "ldr low", "str low") /\ UNCHANGED exposed
       \/ ReadHigh(g, "ldr high", "str high")
    /\ MaybeClear(g)

StoreOrdinary(g) ==
    \/ WriteLow(g, "str low", "ldr high")
    \/ /\ At(g, "str high")
       /\ mem' = [mem EXCEPT ![2] = guest[g].high + 1]
       /\ Go(g, "stlr")
       /\ UNCHANGED <<lock, monitor, done, exposed, torn>>

\* STLR may clear the local monitor as a side effect.
Unlock(g) ==
    /\ At(g, "stlr")
    /\ lock' = 0
    /\ MaybeClear(g)
    /\ Complete(g)
    /\ UNCHANGED <<mem, torn>>

\* Every guest has made its increments.
Finished ==
    /\ \A g \in Guests : done[g] = Iterations
    /\ UNCHANGED exVars

VisitLoadStoreExclusive(g) ==
    \/ LoadExclusive(g) \/ LoadExclusiveHigh(g) \/ StoreExclusive(g) \/ StoreExclusiveHigh(g)
    \/ LoadAcquire(g, FALSE) \/ Unlock(g)
    \/ CompareAndSwap(g) \/ CompareAndSwapWrite(g)
    \/ CompareLow(g) \/ CompareHigh(g) \/ SwapLow(g) \/ SwapHigh(g)

VisitAtomicMemory(g) ==
    \/ AtomicRead(g) \/ AtomicWrite(g)
    \/ SwapRead(g) \/ SwapWrite(g)
    \/ LoadAcquireRCpcHelper(g)

Step(g) ==
    /\ MayRun(g)
    /\ \/ Begin(g)
       \/ VisitLoadStoreExclusive(g) \/ VisitAtomicMemory(g)
       \/ OtherAccess(g) \/ LoadPair(g) \/ LoadOrdinary(g) \/ StoreOrdinary(g)

Next == Finished \/ \E g \in Guests : Step(g)

Spec == Init /\ [][Next]_exVars

\* A guest keeps executing, and neither generator gives one answer for ever:
\* seed_ reaches every residue modulo 8 on its cycle, so an access between the
\* exclusive pair now and then spares the local monitor, and the global one now
\* and then passes.
FairSpec ==
    /\ Spec
    /\ \A g \in Guests :
          /\ WF_exVars(Step(g))
          /\ SF_exVars(MayRun(g) /\ OtherAccess(g) /\ UNCHANGED monitor)
          /\ SF_exVars(MayRun(g) /\ StoreExclusive(g) /\ guest'[g].rs = 0)

-----------------------------------------------------------------------------
TypeOK ==
    /\ mem \in Seq(Nat) /\ Len(mem) = 2
    /\ lock \in {0, 1}
    /\ monitor \in [Sims -> {Cleared, Pair}]
    /\ \A g \in Guests : guest[g].rs \in {0, 1}
    /\ done \in [Guests -> 0 .. Iterations]
    /\ exposed \subseteq Guests /\ torn \subseteq Guests

\* The increments that a function counts per guest, all together.
Tally(count) ==
    Cardinality({i \in Guests \X (1 .. Iterations) : i[2] <= count[i[1]]})

Total == Tally(done)

\* No update is lost and none counted twice: whenever no guest is inside its
\* sequence both words hold the number of completed increments, unless some
\* store exclusive or CASP has written although a callback had laid its sequence
\* open, between the two writes or with stores that clear no monitor.  It holds
\* for guests of one Simulator; docs/refs/baseline-benchmark-suite.md demands it
\* of several on shared memory.
NoLostUpdate ==
    /\ TypeOK
    /\ (\A g \in Guests : At(g, "next")) /\ torn = {} => mem = <<Total, Total>>

\* Each write of a read-modify-write sequence, that of either half of a pair,
\* replaces what the sequence has read, although callbacks run other guests in
\* between: of every LDADD, CAS, locked store and first write of CASP, and of a
\* store exclusive and the second write of CASP unless the sequence is exposed.
\* When the pair is first written both of its words are the ones read.
ReplacesWhatWasRead ==
    [][\A g \in Guests :
         guest'[g].at # guest[g].at =>
            /\ guest[g].at \in {"add low", "str low", "cas write"} => mem[1] = guest[g].low
            /\ guest[g].at \in {"add high", "str high", "cas write high"} => mem[2] = guest[g].high
            /\ guest[g].at = "casp write" => mem = <<guest[g].low, guest[g].high>>
            /\ guest[g].at = "stxp" /\ guest'[g].at = "stxp high" /\ g \notin exposed =>
                  mem = <<guest[g].low, guest[g].high>>
            /\ guest[g].at \in HalfWritten /\ g \notin exposed => mem[2] = guest[g].high]_exVars

\* Retry loops end although both monitors refuse at will.
AllFinish == <>(\A g \in Guests : done[g] = Iterations)
=============================================================================
