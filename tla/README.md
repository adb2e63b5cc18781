# gaby-vm: specifications, model checking and proofs

gaby-vm runs AArch64 guest code inside a host process. A `gaby_vm::Simulator`
wraps the simulator imported from VIXL and executes the same code on two tracks:
the *debug track* decodes every word as it meets it, the *cache track* dispatches
entries that a process-wide `PredecodeCache` prepared when the code was
registered. Branch hooks and memory-write observers let the embedder take part
in execution, and may themselves run guest code on the same Simulator. A third
piece, `ShadowRunner`, executes both tracks in lockstep and reports where they
part.

This directory holds TLA+ models of those pieces, of the instructions they
execute and of the process-wide stacks they share, TLC configurations for small
instances, and TLAPS proofs for every value of the constants. `PROJECT.json`
lists components, runs, mutants, the map from definitions to source lines,
hazards, findings and theorems. Paths below are relative to the repository
(`src/` in `PROJECT.json`); `gaby_vm/` abbreviates
`Sources/gaby_vm/src/gaby_vm/`, `aarch64/` abbreviates
`Sources/gaby_vm/src/aarch64/`. Line numbers without a file are those of
`aarch64/simulator-aarch64.cc` (SC), `simulator-aarch64.h` (SH) and
`logic-aarch64.cc` (LG).

## 1. Inventory

### The parts, their state and their operations

| Part | State | Operations | What makes it correct |
|---|---|---|---|
| PredecodeCache (`gaby_vm/predecode_cache.cc`) | range map, `last_error_`, `table_mutex_` | `RegisterCodeRange`, `FindRange`, `GetLastRegistrationError` | ranges disjoint and append-only; a published entry is complete and names the debug track's leaf; a call is all-or-nothing; every exit releases the lock |
| Cache-track fetch (`ExecuteInstructionCached`, first half) | `cur_range_` per Simulator | containment test without a lock, slow path through `FindRange`, entry index | the dispatched entry is the one for the word at the PC, however old `cur_range_` is |
| Simulator facade (`gaby_vm/simulator.cc`) | `busy`, configured trace mask, hook, observer | `RunFrom`, `StepOnce`, `DebugRunFrom`, `DebugStepOnce`, setters, typed register reads and writes | `ExecutionScope` makes calls re-entrant: cursor and trace mask given back level by level, progress kept by the outermost call only |
| Execution core (`aarch64/simulator-aarch64.{h,cc}`) | PC, `pc_modified_`, `form_hash_`, `last_instr_`, `btype_`, `next_btype_` | `ExecuteInstruction`, `ExecuteInstructionCached`, branches, exceptions | the state between fetch and completion survives whatever a leaf calls |
| Branch hook, memory-write observer | the installed functions | `GabyHookedWritePc`, `NotifyShadowMemoryWrite` | identity, divert, terminate, misaligned result; every write reported once, in order |
| Guarded Control Stack | per Simulator a cached pointer and a token; process-wide `GCSManager` with a mutex | push, peek, pop, GCSPOPM, GCSSS1, GCSSS2, allocate, free, reset, destroy | a stack is run by one Simulator; a token names the stack it was given for; code that returns where it was called from is not refused |
| Exclusive monitors and atomics | local monitor (address, size, generator), global monitor (generator) | LDXR/STXR and pairs, CLREX, LDAR/STLR, CAS, CASP, LSE helpers, SWP | no update lost; a store exclusive replaces what was read; retry loops end |
| Vector data path (`logic-aarch64.cc`, NEON, SVE and SVE2 visitors) | Z, P and FFR registers, NZCV | the vector functions and the visitors that call them | operands may coincide; bytes above the form are cleared; accumulators are read |
| Memory instructions, MTE | memory, tags, base registers, FFR, the report to the observer | scalar, pair, structure, predicated, first-fault, gather, scatter, tag, copy and set accesses | loads undo stores; lanes are independent; a fault half-way leaves what the instruction promises; every write reported |
| Scalar data path, pointer authentication | X and V registers, NZCV | integer, floating-point, conversion, system instructions | the results arithmetic says, at the edges of every width |
| Decoder and CPU-features auditor | visitor list; routing tables | `InsertVisitorBefore`, `RemoveVisitor`, delivery | auditor, disassembler if tracing, Simulator, in this order |
| ShadowRunner (`gaby_vm/shadow_runner.cc`) | two Simulators, two write lists | `RunFrom`, mirrored register writes, handlers | every difference reported at the instruction that made it, no false alarm |
| Typed register I/O | the register file | `Read`, `Write`, `ReadAll`, `WriteAll` | BType range; a rejected span leaves a defined prefix |
| Debugger, disassembler, assembler-side tables, bench, demos, tests | | | see "Not modelled" |

### How they interact

*Threads.* Any number of threads call `RegisterCodeRange` on one cache while
Simulators of other threads execute from it; they meet in `table_mutex_` and in
the map. A Simulator itself belongs to one thread. Simulators of several threads
meet again in the `GCSManager`, whose calls take `stacks_mtx_`, while pushes and
pops go through a cached pointer without it.

*Callbacks.* A taken branch calls the hook, a store calls the observer, each from
the middle of a leaf. The callback may start or step the same Simulator on
either track; such a call ends before the callback returns, and the leaf then
goes on with the cursor it finds.

*Shared state.* The nested calls share registers, monitors, the GCS, the trace
mask and the visitor list with the enclosing ones. The two tracks of a
ShadowRunner share the guest's memory, because guest addresses are host
addresses.

### What is hard

Registrations racing each other and racing fetches; a pointer into the table kept
without a lock; a failure after half of a registration; re-entry from the middle
of an instruction at any depth and on either track; state one instruction leaves
for the next (MOVPRFX, BTYPE, `pc_modified_`, an exclusive mark) with other code
running in between; one stack shared by nested runs, many stacks handed around
between threads; a lockstep comparison over shared memory; functions that write
a register they are still reading; accesses that fail half-way; arithmetic at
the edge of a width. Nothing is persisted, so there is no crash recovery; there
are no timers. `PROJECT.json` lists each hazard at its line, with the properties
that cover it or the reason why none does.

## 2. Modules

| Module | Models |
|---|---|
| `CodeRegistry` | abstract: what the cache promises, one atomic step per call |
| `PredecodeCache` | registrations and cache-track fetches of many threads |
| `PredecodeCacheProofs`, `PredecodeCacheSafety`, `PredecodeCacheRefinement` | types; safety; implementation of `CodeRegistry` |
| `Interpreter` | one Simulator: calls, scope, cursor, instruction step, callbacks |
| `InterpreterProofs` | re-entrancy, tracing and pending state at any depth |
| `ShadowRunner` | the lockstep loop and the comparison |
| `ShadowRunnerProofs` | the lockstep for any program |
| `StackOwnership` | abstract: private stacks with one owner each |
| `GcsManager` | slots, tokens, seals and the mutex |
| `GcsManagerProofs`, `GcsManagerRefinement` | safety; implementation of `StackOwnership` |
| `ExclusiveAccess` | monitors and atomic instructions, memory access by memory access |
| `ExclusiveAccessProofs` | one Simulator, any number of guests in its callbacks, at any depth |
| `VRegister`, `VectorLogic`, `FpVectorLogic`, `SveLogic` | vector registers and the functions of `logic-aarch64.cc` as data flow |
| `NeonVisitors`, `SveVisitors`, `Sve2Visitors` | the visitors that call them |
| `NeonForms`, `SveForms` | which forms the decoder routes to which visitor, with their formats |
| `DataPath` | one vector instruction at a time, with every overlap of its operands |
| `VectorMemory`, `MemoryVisitors`, `ScalarMemory`, `MemoryForms` | memory, the load and store functions, their visitors and forms |
| `MemoryPath` | one memory instruction at a time |
| `IntegerLogic`, `FpLogic`, `FpVisitors`, `SystemLogic`, `ScalarForms` | scalar integer and floating-point instructions, conversions, pointer authentication, flags |
| `ScalarPath` | one scalar instruction at a time |
| `LeafSemantics` | the three paths together: the leaf between two dispatches |
| `MC*` | instances for TLC |

Definitions named in a comment as *mutants* are wrong variants of the definition
that follows them. No specification uses them; each shows that one property can
tell the code from a plausible mistake (`PROJECT.json`, `mutants`).

### PredecodeCache

`ranges` is the `std::map`, a function from start address to record; `last_error`
the diagnostic slot; `mutex` the exclusive and shared holders of `table_mutex_`;
`reg[t]` where thread t is in `RegisterCodeRange` with its locals; `sim[s]` where
Simulator s is in a fetch, with `cur_range_`.

`Call`, `LockExclusive`, `ValidateArguments`, `CheckOverlap`, `Allocate`,
`PredecodeWord` (one turn of the loop) and `Commit` are the function from entry
to return; `Fail` is `SetError` with the return that follows it, and `Return`
releases the lock as the `unique_lock` does. Both allocations may throw.
`Fetch`, `FastPath`, `SlowPath`, `LockShared`, `Search` and `FinishSearch` are the
fetch; a null range is the abort. Steps inside the critical section are separate
although the lock is held, because the fast path does not take it.
`Add` and `Sub` are `uintptr_t` arithmetic modulo `AddrLimit`, and the containment
test is the code's single unsigned comparison. An entry array has a value beyond
its allocated length (`ZeroEntry`), so that a read out of bounds shows.

The text is a constant: what the decoder and the auditor say of the word at each
address (form, unallocated, available, BTI-relevant). `Predecode` is one word of
the loop with both sentinels; `DebugLeaf` is what `Simulator::Visit` would do.
`quiet` in `reg` records, for a property only, that no other call has raced or
followed; it guides no step.

### Interpreter

`cur` has the fields of `GabyInterpreterCursor`; `frames` is the stack of
`ExecutionScope`s with what the interrupted leaf keeps in locals; `busy`, `trace`,
`visitors`, `gcs`, `config` are the members of those names. Addresses count
words, and 0 is `kEndOfSimAddress`. `aborted` says which abort ended the process.

`TopLevelCall` and `NestedCall` are the public calls up to their loop (`Enter`:
the scope's constructor, and the PC seated inside it); `Leave` is the destructor.
An instruction that does not call out is one step. One that does is two:
`CallOut` leaves the frame in phase `hook` or `observer`, and `ReturnFromHook` or
`ReturnFromObserver` is the rest of the leaf with `Complete`, the common end of
both tracks' step (MOVPRFX check, `last_instr_`, `IncrementPc`, `UpdateBType`).
The leaves are reduced to what touches control state: plain, MOV between general
registers, store, the trace pseudo-instruction, the two sentinels, direct,
conditional and indirect branches with their GCS and BType effects.
`inflight` records the cursor at a call-out for the properties and guides
nothing.

The embedder keeps to the documented contract: from a callback it uses only the
calls that seat the PC, never writes PC, arranges a run to end by a null LR, and
gives LR back. What else it may do is set by constants: which hook results
(`Diverts`, `HostMarkers`), whether it writes BTYPE from callbacks
(`CallbackBType`), which masks it configures.

### ShadowRunner

`fast` and `ref` are the tracks' architectural state, `mem` the memory they share,
the write lists what the observers collected since the loop top. Both tracks share
their leaves, so a track can go wrong only by what the cache dispatches:
`fast_code` is the program as predecoded, with at most one entry replaced by one
of `WrongEntries`. `RunFrom`, `StepFast`, `StepRef` and `Compare` follow the loop;
`Compare` keeps the code's order (registers, PC, flags, then writes). Three
items stand for the 69 compared: one register, the PC, one flag register. LDADD is
the instruction whose result depends on memory it writes (`ReadsWhatItWrites`);
the second track executes it on what the first left, as it does in the code.

### GcsManager and StackOwnership

`stacks` is `GCSManager::stacks_` (a slot holds a storage or nothing), `heap` the
storages' contents, `gcs[s]` the pointer and token a Simulator has cached,
`step[s]` where it is inside an operation, with its locals. A call under
`stacks_mtx_` is one step, and every access after the lock is released is another.
GCSSS1 is `GCSSS1Activate` (the lookup), `GCSSS1Read` (`back()`), `GCSSS1Pop`
(`pop_back()`), `GCSSS1Check` (`size()`) and `GCSSS1Push`; GCSSS2 is `GCSSS2Pop`,
`GCSSS2Activate`, `GCSSS2Seal` and `GCSSS2Return`; a reset is `ResetGCSState`,
`ActivateNewGCS` and `RemoveSeal`. `AllocateStack`, `FreeStack`, `Destroy`,
`GCSPush`, `Return` and `GCSPopM` are one step each. GCSPUSHM pushes any register,
so `GCSPush` takes return addresses and the constant `PushedValues`: entries that
look like seals, and zero.

Two things are asked of hosts and guests, and nothing in the code enforces them.
A value is passed to GCSSS1 or to `FreeStack` once (SH:5930-5934 says of a token
that it "can be passed *once*", and that later arguments are fresh tokens or return
values of the instructions): `held` has the values given out and not passed yet.
And no guest makes up a switch token with GCSPUSHM. Section 5 says what happens
otherwise. A step through a pointer whose
storage was deleted ends the process as `dangling`; `ReferencesFresh` says that
this does not come about.

`StackOwnership` has no slots, tokens or seals: a stack has one owner, only the
owner changes it, and it passes on only when it was put down. `PrivateStacks` is
the refinement: the owner of a storage is the Simulator whose guest's calls are on
it (`Current`: the cached pointer, or during GCSSS2, which visits the stack it
seals, the one it goes back to), and the calls on it are its return addresses.

### ExclusiveAccess

One step is one memory access of one guest. Each guest adds one to both words of
a pair with any of the textbook sequences: LDXP/STXP retry loop (with another
access in between, which may clear the local monitor), LDADD on each word,
LDP and CASP, LDAR or LDAPR and CAS, or a lock taken by SWP and released by STLR
around ordinary loads and stores. The two linear congruential generators are a
free choice; the `MaybeClear` that ends a STR, after the observer of its write,
is taken with the next access.

Guests of one Simulator share its monitor and have a `Level`: one of level n + 1
runs to its end in a callback of those below. Callbacks come at taken branches
between two instructions (`AtBranch`) and after every write (`AfterWrite`), between
the two writes of STXP and of CASP as well (`HalfWritten`). A guest in a callback
does not take the lock if its owner waits for that callback, as it would spin for
ever. The history variable `exposed` has the guests whose sequence a callback has
laid open: by any update between the two writes of the pair, or by LDADD or a locked
update, which need not clear the monitor, between LDXP and STXP; `torn` those
that have then written. The properties say that these are the only ways to lose
an update on one Simulator.

### The leaves: three paths

`LeafSemantics` executes one instruction at a time from a state in which every
register holds something distinguishable, and every instruction in every form
the routing tables send to the modelled visitors. A state also holds what the
instructions it is compared with leave: they start with it (`runs`, `Beside`,
`FormsBeside`), or are executed after it, in a second step of the same action
(`LoadBack`, `LoadFlat`, `FormsAfter`). The properties compare these outcomes.

*Vectors* (`DataPath`). A register is an array of bytes. What a lane function
computes is an opaque term over the lane values it has read, so the result of an
instruction says from which bytes of which registers each byte was computed and
through which functions. The functions keep their loops: order of lanes, when
lanes are read, when `ClearForWrite` runs, which temporaries are used. The
destination is then made equal to each of the sources, up to renaming, and the
instruction executed twice: in place and on copies. `AliasSafe` compares the two.

*Memory* (`MemoryPath`). Memory is an array of bytes, an access outside it fails;
a machine also has base and offset registers, tags, FFR, the reports to the
observer and the set of bytes touched. Instructions are run against each other:
store then load of the same form, structures against plain loads, all lanes
against one lane at a time, copies against `memmove`.

*Scalars* (`ScalarPath`). An X register has `XBits` bits and the helpers
(`AddWithCarry`, `MultiplyHigh`, `Mul64`, `ShiftOperand`, `ExtendValue`, bitfield
masks, CRC, counts, `FPRound`, `FPToFixed`, `FixedToFP`, the fused multiply-add,
`AddPAC` and `AuthPAC`) are translated with their word-sized arithmetic and masks.
The properties state the result in unbounded integers or bit by bit.

## 3. Runs

| Run | Properties | Shows |
|---|---|---|
| `cache_safety` | `TypeOK`, `Disjoint`, `EntriesMatchDecoder`, `SearchExact`, `DispatchCorrect`, `LockDiscipline`, `ErrorDetailIsCallers`, `AppendOnly`, `RefinesRegistry` | two registrations and an executing thread over touching, overlapping, duplicate and malformed requests |
| `cache_liveness` | `EveryCallEnds`, `FastPathLockFree` | registrations return and fetches complete under fair scheduling and a fair lock; the fast path completes with no assumption on registrars |
| `interp_nesting` | `ScopesNest`, `CursorIntact`, `CacheTrackSilent`, `PendingStateKept` | three levels of nested runs and steps on both tracks from hooks and observers. `PendingStateKept` is `MovprfxChainKept` and `StagedBTypeKept` |
| `interp_forms` | `TypeOK`, `TracingConsistent`, `OutermostKeepsProgress` | every instruction form, diverting hooks, every abort. `TracingConsistent` is `TraceRestored` and `VisitorOrder` |
| `interp_calls` | `NoGcsFailure`, `LandingsMatch`, `CallsReturn` | calls three deep, with an identity hook or none, nested runs that leave by a jump; guarded pages, with landing pads that do and do not take the branch before them; every call ends if callbacks return |
| `shadow_oracle` | `LockstepInv`, `NoFalseAlarm`, `DivergenceReported`, `RunReturns` | at most one wrong entry, a program with an atomic addition. `LockstepInv` is `TypeOK`, `LoopTopAgrees` and `EndTogether` |
| `gcs_threads` | `ExclusiveStack`, `ReferencesFresh`, `PrivateStacks` | two Simulators and a host that allocates and frees; the parts of a switch interleave; `ReferencesFresh` is `TypeOK`, `CachedPointerFresh` and `ValuesHonoured` |
| `exclusive_access` | `NoLostUpdate`, `ReplacesWhatWasRead`, `AllFinish` | three guests of one Simulator, nested two deep in hooks and observers, every sequence for each |
| `leaf_semantics` | `AliasSafe`, `TailsCleared`, `AccumulatorKept`; `StoresReported`, `TransfersAgree`, `FaultContract`, `BlockTransfers`; `IntegerReference`, `FloatReference` | every instruction of the three paths |
| `host_call_documented_to_return` | `NoGcsFailure` | violation, see "Findings" |
| `accumulate_documented` | `AccumulatorRead` | violation |
| `upper_half_documented_zero` | `UpperHalfCleared` | violation |

The compound properties of `leaf_semantics` have their parts as definitions of
their own, each with a comment: `TransfersAgree` is `RoundTrip`,
`StructuresInterleave`, `LanesIndependent`, `OffsetsReadFirst`; `FaultContract` is
`FirstFaultContract`, `WritebackMatchesTransfer`, `FailedLoadKeepsRegisters`;
`BlockTransfers` is `CopyIsMemmove`, `TaggedIsUsable`, `CacheOpsExact`;
`IntegerReference` has thirteen parts from `FlagsTellOrder` (the sixteen conditions
mean the order of the exact numbers) to `PointersAuthenticate`; `FloatReference`
eight from `RoundsToNearest` to `MinMaxDual`.

### Bounds, and why they are enough

* *Cache.* Two registrars (the overlap race needs two), one Simulator (Simulators
  share nothing but the shared lock; the proofs cover any number), 20 addresses:
  five words, of which the requests use three, so that a PC below, inside, at
  both ends of, between and above every range is fetched. Requests: two
  neighbours that touch, one range over both, an empty and an unaligned one;
  duplicates arise when both threads pass the same. The text has one word of each
  kind. Registrars are interchangeable (`SYMMETRY`, in the safety run only).
  Liveness uses 16 addresses and three requests.
* *Interpreter.* `MaxDepth` 3 gives a nested call inside a nested call, the first
  depth at which a middle frame exists whose cursor is in one snapshot while its
  own snapshot holds another; the proofs have no such bound. `GcsBound` (a
  constraint, `MaxGcs` entries) cuts runs in which the stack grows without end:
  nested runs that a hook ends leave entries behind. The run with liveness needs
  no constraint. The guest programs are short but contain each form, a MOVPRFX
  pair, calls three deep, all three non-zero BTypes and an unregistered word.
* *ShadowRunner.* Values modulo 3 make the loop wrap and set flags; two cells
  make a store to the wrong address possible; two runs check that nothing is left
  over from the first; any one of ten entries may be any of nine wrong
  instructions. One start value takes the loop, another the LDADD.
* *GCS.* Two Simulators contend for a third stack; three storages let a slot be
  freed and given out again while other values are held; one entry per stack
  beside tokens and seals (`MaxDepth`) gives a seal a size of 0 and 1. GCSPUSHM pushes
  the seal of a fresh first stack, which names a stack that exists, and zero. The
  process may end at an
  abort or run out of storages, hence `CHECK_DEADLOCK FALSE`. Simulators are
  interchangeable; no property of the run is a liveness property.
* *Exclusives.* Three guests with one update each, so a callback of a callback
  exists; two updates happen inside one another, inside a third, or one after the
  other within one callback. A second update of the same guest adds nothing that
  the update of another guest on the same monitor does not; the proofs have no
  bound on either.
* *Vectors.* `VL` 32, two segments of 128 bits, the least at which a function that
  confuses segment and register shows; five vector registers, so that tables of
  four registers wrap; each lane index up to the format's last.
* *Memory.* `MemBytes` 144 holds the largest structure access (four registers of
  32 bytes) with 16 bytes beside it, so that an access at either end fails part
  way; `Wild` stands for an offset that never comes back into memory. Copies and
  sets use overlaps of both directions and every distance up to the block.
* *Scalars.* `XBits` 8 with W registers of 4 bits, H of 2 and B of 1; `TagBits` 2.
  All operands next to a boundary of a width, with a few in between. The
  formats FP64, FP32, FP16 and BF16 are (4,7), (3,3), (2,1) and (3,1) exponent
  and mantissa bits; they keep the relations the code uses, namely that a
  format's subnormal numbers lie below half the smallest number of the next
  narrower one, and that BF16 has FP32's exponents. Every encoding is converted.
  The authentication code of a pointer has the bits between a quarter of a
  register and the tag, and the hash its nibble steps on two nibbles, so that
  codes collide more often than in the program; the properties hold for every
  value of the code.

Deadlock is checked in every other run; the end of the process and of the
embedder's calls are explicit stuttering actions (`Dead`, `Done`, `Finished`).

### Fairness

* `PredecodeCache!FairScheduling`: weak fairness for each thread's steps inside a
  call (the host schedules runnable threads); strong fairness for the two lock
  acquisitions. The latter assumes a lock that does not starve a waiter for ever.
  Common implementations of `std::shared_mutex` behave so, the C++ standard does
  not promise it; `EveryCallEnds` carries the assumption in its statement. No
  thread is assumed to make another call.
* `PredecodeCache!LiveSpec` has weak fairness of the executing thread's fast path
  only, so `FastPathLockFree` allows a registrar to stop while it holds the lock.
* `Interpreter!LiveSpec`: the interpreter loop and the scope's exit go on (one
  thread), and a callback that keeps getting the chance to return does so, strong
  fairness because it may make nested calls first.
* `ShadowRunner!LiveSpec`: the loop of the one thread goes on. The guest program
  of the run terminates; `RunReturns` shows that the oracle does with it.
* `ExclusiveAccess!FairSpec`: guests keep executing, and strong fairness that the
  local monitor is now and then spared and the global one now and then passes.
  `seed_` is multiplied by 48271 in 32 bits and reduced modulo 2^31 - 1 (SH:1272-1280,
  SH:1310-1324). Computed outside the models, the sequence runs into a cycle of 79493 values, which
  has every residue modulo 8, and a retry loop that consults both monitors as the
  guest's does got through in 22041 of 200000 attempts, after 449 at worst. A guest that consulted
  the generator in step with its period is not excluded by the code, hence the
  assumption in the specification.

## 4. Proofs

All theorems hold for every value of the constants that meets the named
assumptions: `ThreadAssumption`, `AddressAssumption`, `RequestAssumption` (a
request is mapped memory that ends below the top of the address space),
`TextAssumption`; `ProgramAssumption` and `EmbedderAssumption`;
`ShadowAssumption`; `GcsAssumption` and `GuestAssumption`; `ExclusiveAssumption`.
A theorem that needs more says so in its `ASSUME`; the run that checks the same property meets that
hypothesis too, so none is empty.

**PredecodeCache.** `TypeCorrect` needs `PointersValid` beside `TypeOK`, since a
dispatch reads an entry through a range pointer. The safety invariant is

    SafetyInv == TypeInv /\ LockDiscipline /\ CallsSound /\ CandidateClear
                 /\ TableSound /\ RangesApart

* `LockDiscipline`: a call past its lock is the only holder. Everything else that
  speaks of a call in progress survives the other threads' steps because of it.
* `CallsSound`: arguments are well formed past validation, the first `next`
  entries are filled, all of them at the commit.
* `CandidateClear`: past its overlap check a candidate is clear of every
  registered range. This is the fact the commit needs and the code establishes
  three steps earlier; it is inductive only because nobody else can commit
  meanwhile.
* `TableSound`, `RangesApart`: registered ranges are well formed, filled, keyed by
  their start, and pairwise before or after one another. `Disjoint` alone is
  not inductive.

From it follow `LockHeld`, `RangesDisjoint`, `EntriesCorrect` and, as an action
property, `TableAppendOnly`. `FetchInv == PcAligned /\ SearchExact /\
DispatchCorrect` is inductive on top of it and gives `SearchesRight` and
`DispatchesRight`: the greatest start at or below the PC is the only candidate
because the ranges are apart, and the one unsigned comparison is the two-sided
test because nothing wraps. `DetailIsCallers` uses `QuietAlone`: a call marked
quiet has returned and no call is under way.

`CacheImplementsRegistry` maps the table to its set of intervals, a call to
pending until it returns, and a lookup to answered from the moment the search is
done (or `cur_range_` was hit). Every step is then `Begin`, `Resolve`, `Ask`,
`Answer` or a stutter: registration is atomic and all-or-nothing, its status is
justified by one instant's table, and the lock-free hit answers as a search at
that instant would.

**Interpreter.** Each step pushes a call, pops one, moves the topmost call on, or
leaves the calls alone (`NextKind`); most lemmas are about these four kinds only.

* `CallsInv == CallsTyped /\ PcMapped /\ RunsGoOn /\ ScopesNest` is inductive and
  gives `ScopesAlwaysNest`. `RunsGoOn` (a run is never in phase `done`) gives
  `OutermostProgress`: a run returns at the sentinel and nowhere else, and the
  outermost scope restores nothing. With `RestTyped` and the visitor order it
  gives `TypeCorrect`.
* `CursorRestored` (`CursorIntact`) adds that a push from a callback saves exactly
  the cursor the leaf left, and that a pop puts it back; it assumes
  `CallbackBType = FALSE`, which is needed (section 5).
* The masks: `TraceOf(d)` is the mask call `d` goes on with once the calls above
  it have returned. `TracingStaysConsistent` needs that it is empty below the
  outermost call (`NoTraceBelow`) and the order of the visitor list
  (`VisitorOrder`): inserted before the Simulator, there once at most.
  `CacheTrackIsSilent` needs `SilentCalls`, that it is empty for every call on
  the cache track. It assumes `QuietGuest`: the trace pseudo-instruction sets the
  mask on either track, so a guest that switches tracing on is heard.
* `LandingsAlwaysMatch` (`LandingsMatch`): an instruction is refused exactly if the
  instruction before it was an indirect branch that it does not take by the
  architecture's table, whatever the branch's hook executed in between. That needs
  the route of the BType: `LandingInv` says that in a callback of the outermost call
  the BType of its instruction is the staged one (`next_btype_`), also while nested
  calls have the cursor in a scope, and that between two instructions it is the one
  in force. It assumes that callbacks do not write BTYPE. It is about outermost
  calls, and on the cache track about the instructions that the track checks; both
  limits are real (section 5).
* `PendingStateSurvives` rests on `PendingInv`: the call that executes is at the
  instruction a MOVPRFX prefixes, if its last one was a MOVPRFX, and no call that
  waits in a callback was interrupted inside such a pair. It assumes that
  callbacks do not write BTYPE, that the guest follows every MOVPRFX with an
  instruction that takes it (`Paired`; another program is rightly refused), and
  that the outermost calls are runs (a step may stop between the two
  instructions, after which the embedder is free to enter anywhere).

* `ReturnsMatchCalls` (`NoGcsFailure`) is about guests, so it has a hypothesis about
  the guest, `CallingConvention(c)`: static facts about its code, with no mention of
  runs. `c` names the code of top-level runs, the register each of its instructions
  finds the function's return address in, the registers its callers keep theirs in,
  the code of nested runs, and the values each register may hold. A function starts
  with its return address in LR, moves it elsewhere before it calls, and returns
  through the register it is in. Nested runs neither call nor return; the hook lets
  branches go on (`Diverts` and `HostMarkers` empty). All three restrictions are
  needed: a nested run that returns, a diverted return and a host call each fail the
  check, or leave an entry that a later return meets (section 5). `MCInterpreter`
  assumes `CallsConventionKept`, so that TLC evaluates the convention on the guest of
  `interp_calls`: a guest with calls three deep satisfies it. The invariant is
  `ReturnInv(c)`: `Chained`, every entry of the stack is the address where a function
  goes on whose own return address, in a register no function called since may
  write, is the entry below; and `OnCourse` for every call, also those that wait in
  a callback: the outermost call is at an instruction whose home register holds the
  topmost entry, where LR is the one its callback will give back, and the nested
  ones stay in their code. TLC has checked it on the instance of `interp_calls`.

**ShadowRunner.** `ShadowInv == Typed /\ Rest /\ Together /\ LoopTop /\ Clean`.
`Together` is the lockstep: the tracks are at the same instruction before each
step, a finished track writes nothing, and both finish in the same step. `Clean`
says of a correctly predecoded program that the cache track is exactly one
instruction ahead of the decoder track: executing the instruction on the decoder
track, on the memory that the cache track has already written, gives the same
registers, writes and memory. That is a fact about instructions (lemma by lemma
per kind of instruction), true only of those that can be repeated. So
`NeverFalseAlarm` says that such a program is reported only at an instruction
that reads what it writes, and `RepeatableNeverReported` that a program without
one is not reported at all. `NeverFalseAlarm` and `LockstepHolds` assume that the
embedder does not run on after a report
(`~Rerun`): the tracks then start unequal, and their equality is not restored.
Both exceptions are real (section 5). `DivergencesReported` needs neither.

**GcsManager.** `ExclusiveStack` alone is not inductive: that nobody else runs the
stack which GCSSS1 takes over follows from who may still come to it, and through
what. The invariant is

    GcsInv == Typed /\ Table /\ Quiet /\ Locals /\ ValuesHonoured /\ \E h : Tracked(h)

* `Tracked(h)` gives each slot at most one *claim* `h[slot]`: it is run by a
  Simulator, it is the other stack of a Simulator inside a switch, a switch token at
  some place of some stack names it, or a value in `held` does. Every reference of
  these kinds is the claim of its slot (`RunsTracked`, `OthersTracked`,
  `TokensTracked`, `ValuesTracked`), so no two references meet in one slot, and a
  slot that is freed has none. An operation hands claims on: GCSSS1 turns a
  value into a run and a run into an other, its push the other into a token, GCSSS2
  the token into an other and that into a value.
* A claim by a value says that the stack ends with the seal the value names, at the
  depth it names. Entries that merely look like seals claim nothing, which is why
  GCSPUSHM of one does no harm; a made-up switch token would be a second claim.
* `Locals`: between `back()` and `pop_back()`, and between that and the check, what a
  Simulator has read of the incoming stack is still so.
* `Table`, `Quiet`: a storage is in one slot; a Simulator without a stack is at no
  step.

It gives `StacksAreExclusive` and `ReferencesStayFresh`: passed once, a value is
never refused, no lookup fails, no pointer dangles and nothing is freed twice.
`StacksArePrivate` is the refinement: under `GcsInv` every step maps to a step of
`StackOwnership` or to a stutter, a switch to a take-over at the lookup. The
lemmas on `ReturnAddresses` (what a push, a pop, a token or a seal does to it) carry
most of it.

**ExclusiveAccess**, for one Simulator (`OneSimulator`), any number of guests in
callbacks of callbacks, each with every sequence. For several Simulators the
property fails (section 5). `AccessInv` has

* `RunsAlone`: while a guest is inside a sequence, those below wait at a callback
  point, and are exposed wherever what it does may be lost on them;
* `Coherent` for each guest: where a register holds what was read, the word still
  has that value. Between LDXP and STXP this is claimed only while the guest is
  `Marked` (the monitor is marked, and no guest above is between its own exclusive
  accesses) and not exposed. That is the point of the proof: a monitor does not say
  whose mark it has, so a nested LDXP suspends the claim of those below, and every
  way out of the nested sequence clears the monitor (`Released`) before the claim
  would be back;
* `Counted`: unless something is torn, each word is the number of increments
  written to it, by completed sequences and by those past the write.

Every step of a guest is a *move*, shown action by action; moves preserve the
invariant of all guests. `NoUpdateLost` and `ReplacesOnlyRead` follow.

**Only model-checked**: all liveness (out of the prover's reach), and the properties
of the leaves. `DataPath` and `ScalarPath` use recursive operators and `Bitwise`,
which the prover does not take; in `MemoryPath` an instruction is a loop over lanes
or bytes, whose result for every length is an induction over data. Their properties
are about finitely many forms, which the run enumerates. Where a proof needs the
least number or the finiteness of a set, it uses that `<` is well founded on the
naturals and the theorems on finite sets; nothing is proved by induction over data.

## 5. Findings

### With a run of their own

Each has a run whose single property states what a document or comment says, and
which the code violates.

1. `host_call_documented_to_return`. BL pushes on the GCS; a hook that serves the
   call by returning LR executes no RET, so the entry stays and the RET of the
   calling guest function is refused. The demo's text (`demos/cli/main.cc:29-36`)
   presents the pattern as general.
2. `accumulate_documented`. The SVE2 forms of SADALP and UADALP (SC:3335) add into
   a cleared temporary: the accumulator is lost in every active lane.
3. `upper_half_documented_zero`. MOVK of a W register (SC:5633) reads the old value
   sign-extended and writes an X register: with bit 31 set the upper half becomes
   ones, where SH:1957-1958 says that a W write is zero-extended.

### Met while modelling, without a run

Control:

* A nested run that ends with RET to a null LR pops an entry of the enclosing run
  (SC:4063), whose own RET is then refused; the scope saves the cursor but not the
  GCS, against `simulator.cc:68-70` and the specification of the Simulator under
  `openspec` (aarch64-simulator, 1086-1091). Add an entry that returns to
  `NestedEntries` of `MCInterpreterCalls.cfg`: `NoGcsFailure` fails.
* `RegistrationError::pc` holds the range's start after a misaligned, overlapping
  or out-of-memory registration (`predecode_cache.cc:235`); the header
  (`predecode_cache.h:74-75`) says 0 unless the status is `UnsupportedFeature`.
* `VIXL_UNIMPLEMENTED()` is empty in a release build (`globals-vixl.h:156`), so a
  form without a leaf is printed and skipped (SC:3914), where the comment at the
  sentinel (`predecode_cache.cc:48-52`) says it aborts. `ReleaseBuild` chooses.
* The second track of a ShadowRunner executes LDADD on memory the first has
  already changed (`shadow_runner.cc:112`), and a divergence is reported although
  both tracks run the same leaf; `docs/testing.md:118-121` and `simulator.h:26-28`
  promise equivalence without that exception. `NoFalseAlarm` names it as the only
  cause of a false alarm; without its second conjunct it fails.
* The exclusive and atomic instructions are plain reads and writes and the
  monitors are per Simulator (SC:5291): between Simulators of two threads updates
  are lost. `docs/refs/baseline-benchmark-suite.md:280-296` asks for atomicity
  across instances. Two Simulators in `SimOf`: `NoLostUpdate` fails.
* On one Simulator an update is lost when the memory-write observer, which may
  re-enter (`simulator.h:203-211`), runs a guest that updates the pair between the
  two writes of STXP (SC:5259-5272) or of CASP (SC:4939-4940): the second write
  replaces a word nobody has compared. So it is when a callback between LDXP and
  STXP uses LDADD or ordinary stores, after which the monitor may still be marked.
  Drop `torn = {}` from `NoLostUpdate` and it fails.
* A hook that writes BTYPE, which `simulator.h:272` allows, drops the BType its
  branch staged (`CallbackBType = TRUE` in `MCInterpreter.cfg`: `PendingStateKept`
  and `CursorIntact` fail); the comment at `simulator.cc:400-402` assumes that
  nothing is staged.
* The guest's own trace pseudo-instruction turns tracing on inside a cache-track
  call (`CacheTrackSilent` under `MCInterpreterForms.cfg`), where
  `simulator.cc:522-524` says that no trace output leaks into the cache track.
* The cache track makes the guarded-page check only for entries with flag bit 0, the
  forms that can pass it, although the comment there (SH:1567-1568) speaks of an
  exception on any other instruction: an indirect branch to such a one is refused on
  the debug track and accepted on this one. Drop
  the last conjunct of its condition from `LandingsMatch` and it fails. And
  `GabySaveCursor` does not reset `next_btype_`, so the BType staged by an indirect
  branch is in force at the second instruction of a run nested in its hook (drop
  `Depth = 1`). Guarded pages are off and the gaby API cannot turn them on.
* A second `ShadowRunner::RunFrom` after a divergence that a custom handler
  survived starts from tracks that differ (`Rerun = TRUE`: `LockstepInv` fails),
  against the comment at `shadow_runner.cc:105-107`.
* `docs/testing.md:178-180` says that a range with an unallocated data word is
  rejected; it is registered with a sentinel entry.
* GCSSS1 reads and pops the incoming seal after `stacks_mtx_` is released
  (SC:7290-7300), and nothing enforces that a value is passed once: two guests that
  present the same value can both read the seal before either pops it, and if the
  sizes agree both run the stack; or the storage is deleted between the lookup and
  the switch. Leave `held` unchanged in `GCSSS1Activate` and `ExclusiveStack` fails.
* GCSPUSHM can push an entry that GCSSS2 takes for a switch token (SC:7301-7302), of a
  stack that another Simulator runs; GCSSS2 then seals that stack under it.

Vectors. `ReadAfterWrite` in `DataPath` lists the instructions that read an operand
again after they have overwritten it when destination and source are one
register; `AliasSafe` covers all others.

* NEON: the narrowing "2" forms (XTN2, SQXTN2, UQXTN2, SQXTUN2) with Vd = Vn
  (LG:2233 copies the reference, not the register; the comment at LG:954 shows that
  such overlaps are meant to work); FMUL, FMLA, FMLS, FMULX by element with
  Vm = Vd and an element beyond the bytes of the form; FMLAL, FMLSL with Vd among
  the sources, and by element; FCMLA by element with Vm = Vd.
* SVE: floating-point and integer compares, MATCH and the flag-setting predicate
  operations (logical, BRKA/BRKB, BRKPA/BRKPB, RDFFR) with Pd = Pg test the flags
  under a mask that is already overwritten; shifts by wide elements with
  Zd = Zm.
* `Mul64` (SC:1160) negates the halves of a product one by one and leaves out the
  carry when the low half is zero: the 64-bit lanes of SQRDMLAH and SQRDMLSH are
  off by two then (100 + 0 * -1 gives 98; 100 + 2^62 * -4 gives 96 for 98), where
  the comment at LG:4154-4157 describes the exact sum. `NegatedWithoutCarry`
  excepts these operands from `WideResults`.
* The comment at SC:6383 (FMOV Vd.D[1]) speaks of zeroing beyond the Q register,
  which is what the code does; the low half is kept.

Memory.

* Without `VIXL_ENABLE_IMPLICIT_CHECKS` a refused access is the host's signal; with
  it, `MemRead` and `MemWrite` answer false. The model follows the second, which
  stops at the same point.
* LD1R* of SVE, LD1RQ and LD1RO read memory regardless of the predicate.
* `CanReadMemory` distinguishes `-EPERM` by comparing with the result -1, which
  works because EPERM is 1; any other errno, EINTR too, counts as unreadable.
* STZG and STZ2G fill with zeros under the old tag; a tag check looks at the first
  granule only; the observer is given the tagged address.
* A pre- or post-indexed scalar access writes its base back before the access.
* Gathers from vectors of 32-bit addresses plus an immediate (SC:12559), and the
  first-fault forms of 64-bit ones, are unimplemented.
* A copy that is restarted after a fault copies its first bytes again.

System.

* `GenerateRandomTag` replaces an empty exclude mask by a random one of tags 0 to 3.
* Authenticating loads (SC:4495) and branches treat a genuine pointer of the upper
  half of the address space as failed.
* A SYS instruction switches MTE through a static member (SC:7072), for every
  Simulator of the process.

## 6. Not modelled, and why

* The value a vector lane function computes: `DataPath` is about which bytes reach
  it. AES, SHA, SM3, SM4 rounds, table estimates (FRECPE, FRSQRTE) and the like are
  such functions. The scalar counterparts of most are in `ScalarPath`.
* Prefetches and hints (no effect); the guard regions of `SimStack` (an access
  there is a refused access); register and memory printing; the runtime-call and
  configuration pseudo-instructions.
* The bit tests of the decode tree: generated tables; what they say of a word is a
  constant, where they route a form is in the form modules.
* Self-modifying guest code: `Text` is constant, as the API requires.
* Object lifetime (a callback that replaces itself while it runs), the unlocked
  read in `GetLastRegistrationError` during a registration, a bare write of PC from
  a callback (the API forbids it).
* Typed register I/O beyond LR, PC and BType: one assignment each.
* A branch hook on a ShadowRunner, which is called once per track.
* Debugger, disassembler text, bench, demos, test drivers: no state of the
  product.
* A range that ends exactly at the top of the address space.

## 7. Plan

Done: the cache, the interpreter, the oracle, the Guarded Control Stacks and the
exclusive accesses, each modelled, checked and proved, the first and the fourth
with a refinement; the leaves, modelled and checked. Left, in this order:

1. `ExclusiveAccess`: several Simulators whose guests use the lock only, with
   SWP taken as one access, to say what would be enough.
2. The leaves: the loops (`For`) as functions over a set of machines, so that one
   lemma about loops, from the well-foundedness of `<`, serves all of them and
   `StoresReported` and `TailsCleared` can be proved for every length.
3. `Interpreter`: the convention extended to nested runs that call and return, with
   a Guarded Control Stack that the callback empties.
