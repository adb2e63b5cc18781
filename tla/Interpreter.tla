---------------------------- MODULE Interpreter ----------------------------
(***************************************************************************)
(* One gaby_vm::Simulator: the execution calls of both tracks, the         *)
(* ExecutionScope that makes them re-entrant, the interpreter cursor, the  *)
(* instruction step, the branch hook, the memory-write observer, BTYPE and *)
(* the Guarded Control Stack.                                              *)
(*                                                                         *)
(* A call is a frame.  A frame runs instructions until one of them calls   *)
(* out to the embedder (a taken branch with a hook installed, a store with *)
(* an observer set); the embedder may then make further calls on the same  *)
(* Simulator, each a frame on top, before it lets the leaf go on.  An      *)
(* instruction that does not call out is one step, and so is each half of  *)
(* one that does.  Addresses count 4-byte words; 0 is the end-of-simulation *)
(* sentinel.                                                               *)
(***************************************************************************)
EXTENDS Integers, SequencesExt

CONSTANTS
    Code,         \* the instruction at each mapped word address
    RangeOf,      \* the registered range of each mapped address, or None
    None,         \* no range; no entry_pc argument
    Regs,         \* guest general registers the program uses
    InitRegs,     \* what the embedder wrote into them before the first call
    Entries,      \* entry_pc values the embedder uses at top level
    NestedEntries,\* and in its callbacks
    TopCalls,     \* {"run", "step"}: the calls it makes at top level
    Tracks,       \* {"cache", "debug"}: the tracks it uses
    TraceMasks,   \* trace masks it configures
    HookWanted,   \* whether it installs a branch hook
    Diverts,      \* PCs the hook may return instead of the target
    HostMarkers,  \* branch targets the hook serves with a host function
    BTypeWrites,  \* BTYPE values it writes
    CallbackBType,\* whether its callbacks write BTYPE
    GuardedPages, \* SetGuardedPages of the imported Simulator
    ReleaseBuild, \* VIXL_UNIMPLEMENTED() is a no-op
    MaxDepth      \* bound on nested execution calls

kEndOfSimAddress == 0
kTraceLength == 3

\* The BType enumeration.
DefaultBType == 0
BranchFromUnguardedOrToIP == 1
BranchAndLink == 2
BranchFromGuardedNotToIP == 3
BTypes == 0 .. 3

BtiOps == {"bti", "bti_c", "bti_j", "bti_jc"}
PlainOps == {"alu", "sve", "movprfx", "paciasp", "autiasp"} \cup BtiOps
Ops == PlainOps \cup {"mov", "store", "trace", "data", "unimplemented",
                      "b", "bl", "bcond", "br", "blr", "ret"}

Misaligned == -1
Words == 0 .. Cardinality(DOMAIN Code) + kTraceLength
Insn == [op : Ops, rd : Regs, rn : Regs, target : Words, auth : BOOLEAN,
         params : SUBSET {"LOG_DISASM", "LOG_REGS"}, enable : BOOLEAN]

ASSUME ProgramAssumption ==
    /\ IsFiniteSet(DOMAIN Code)
    /\ DOMAIN Code = 1 .. Cardinality(DOMAIN Code)
    /\ Code \in [DOMAIN Code -> Insn]
    /\ DOMAIN RangeOf = DOMAIN Code
    /\ "lr" \in Regs
    /\ InitRegs \in [Regs -> Words]

ASSUME EmbedderAssumption ==
    /\ Entries \cup NestedEntries \subseteq DOMAIN Code
    /\ None \notin Words
    /\ TopCalls \subseteq {"run", "step"}
    /\ Tracks \subseteq {"cache", "debug"}
    /\ TraceMasks \subseteq SUBSET {"LOG_DISASM", "LOG_REGS"}
    /\ Diverts \subseteq Words \cup {Misaligned}
    /\ HostMarkers \subseteq Words
    /\ BTypeWrites \subseteq BTypes
    /\ {HookWanted, CallbackBType, GuardedPages, ReleaseBuild} \subseteq BOOLEAN
    /\ MaxDepth \in Nat \ {0}

VARIABLES
    cur,       \* the interpreter cursor: GabyInterpreterCursor's fields
    regs,      \* the guest registers
    gcs,       \* the Guarded Control Stack
    trace,     \* the imported Simulator's trace_parameters_
    visitors,  \* the decoder's visitor list
    config,    \* what the embedder configured: cache, hook, observer, trace
    busy,      \* Impl::busy
    frames,    \* the execution calls in progress, outermost first
    aborted    \* why the process aborted, or "no"

vars == <<cur, regs, gcs, trace, visitors, config, busy, frames, aborted>>

Cursor == [pc : Words, cur_range : {RangeOf[a] : a \in DOMAIN Code} \cup {None},
           form_hash : Ops \cup {"zero"}, last_instr : Words,
           pc_modified : BOOLEAN, btype : BTypes, next_btype : BTypes]

ZeroCursor == [pc |-> kEndOfSimAddress, cur_range |-> None,
               form_hash |-> "zero", last_instr |-> 0, pc_modified |-> FALSE,
               btype |-> DefaultBType, next_btype |-> DefaultBType]

\* A call: the ExecutionScope's fields, how far the call is, and, while a
\* leaf is calling out, the locals it will go on with.  inflight, the cursor
\* at the call-out, and previous, the instruction this call completed last,
\* are history and guide nothing.
Frame == [track : {"cache", "debug"}, kind : {"run", "step"},
          nested : BOOLEAN, saved_trace : SUBSET {"LOG_DISASM", "LOG_REGS"},
          saved_cursor : Cursor,
          phase : {"ready", "hook", "observer", "done"},
          last_instr_was_movprfx : BOOLEAN, target : Words, lr : Words,
          inflight : Cursor, previous : Words]

Init ==
    /\ cur = ZeroCursor
    /\ regs = InitRegs
    /\ gcs = <<>>
    /\ trace = {}
    /\ visitors = <<"auditor", "simulator">>
    /\ config \in [cache : BOOLEAN, hook : {FALSE}, observer : {FALSE},
                   trace_parameters : {{}}]
    /\ busy = FALSE
    /\ frames = <<>>
    /\ aborted = "no"

Abort(why) ==
    /\ aborted' = why
    /\ UNCHANGED <<cur, regs, gcs, trace, visitors, config, busy, frames>>

Depth == Len(frames)
Top == frames[Depth]
Idle == aborted = "no" /\ frames = <<>>
InCallback ==
    aborted = "no" /\ frames # <<>> /\ Top.phase \in {"hook", "observer"}

-----------------------------------------------------------------------------
(***************************************************************************)
(* The decoder's visitor list and the trace mask.                          *)
(***************************************************************************)
InsertVisitorBefore(list, new, registered) ==
    InsertAt(list, SelectInSeq(list, LAMBDA v : v = registered), new)

\* Each visitor is in the list once at most.
RemoveVisitor(list, visitor) == RemoveFirst(list, visitor)

\* Mutant: the disassembler goes to the end of the list.
SetTraceAppending(parameters) ==
    /\ trace' = parameters
    /\ visitors' =
         CASE "LOG_DISASM" \in parameters \ trace -> Append(visitors, "disasm")
           [] "LOG_DISASM" \in trace \ parameters -> RemoveVisitor(visitors, "disasm")
           [] OTHER -> visitors

SetTraceParameters(parameters) ==
    /\ trace' = parameters
    /\ visitors' =
         CASE "LOG_DISASM" \in parameters \ trace ->
                InsertVisitorBefore(visitors, "disasm", "simulator")
           [] "LOG_DISASM" \in trace \ parameters ->
                RemoveVisitor(visitors, "disasm")
           [] OTHER -> visitors

-----------------------------------------------------------------------------
(***************************************************************************)
(* Cursor operations.                                                      *)
(***************************************************************************)
WritePc(c, pc) == [c EXCEPT !.pc = pc, !.pc_modified = TRUE]

\* Mutant: four words instead of four bytes.
IncrementPcScaled(c) == IF c.pc_modified THEN c ELSE [c EXCEPT !.pc = @ + 4]

IncrementPc(c) == IF c.pc_modified THEN c ELSE [c EXCEPT !.pc = @ + 1]

UpdateBType(c) == [c EXCEPT !.btype = c.next_btype, !.next_btype = DefaultBType]

GabySaveCursor(c) == c

\* Mutants: a field of the cursor the restore leaves out.
RestoreWithoutFormHash(cursor) == [cursor EXCEPT !.form_hash = cur.form_hash]

RestoreWithoutNextBType(cursor) == [cursor EXCEPT !.next_btype = cur.next_btype]

RestoreWithoutPcModified(cursor) ==
    [cursor EXCEPT !.pc_modified = cur.pc_modified]

GabyRestoreCursor(cursor) == cursor

-----------------------------------------------------------------------------
(***************************************************************************)
(* Execution calls: the ExecutionScope constructor with the PC seated      *)
(* inside it, and the destructor.                                          *)
(***************************************************************************)
NewFrame(track, kind) ==
    [track |-> track, kind |-> kind, nested |-> busy, saved_trace |-> trace,
     saved_cursor |-> IF busy THEN GabySaveCursor(cur) ELSE ZeroCursor,
     phase |-> "ready", last_instr_was_movprfx |-> FALSE, target |-> 0,
     lr |-> 0, inflight |-> ZeroCursor, previous |-> 0]

\* Mutant: the cache track keeps whatever mask is in force.
EnterKeepingTrace(track, kind, entry_pc) ==
    IF track = "cache" /\ ~config.cache
    THEN Abort("no cache")
    ELSE /\ frames' = Append(frames, NewFrame(track, kind))
         /\ busy' = TRUE
         /\ IF track = "debug" THEN SetTraceParameters(config.trace_parameters)
            ELSE UNCHANGED <<trace, visitors>>
         /\ cur' = IF entry_pc = None THEN cur ELSE WritePc(cur, entry_pc)
         /\ UNCHANGED <<regs, gcs, config, aborted>>

\* RunFrom, StepOnce, DebugRunFrom and DebugStepOnce up to their loop.
Enter(track, kind, entry_pc) ==
    IF track = "cache" /\ ~config.cache
    THEN Abort("no cache")
    ELSE /\ frames' = Append(frames, NewFrame(track, kind))
         /\ busy' = TRUE
         /\ SetTraceParameters(IF track = "debug" THEN config.trace_parameters
                               ELSE {})
         /\ cur' = IF entry_pc = None THEN cur ELSE WritePc(cur, entry_pc)
         /\ UNCHANGED <<regs, gcs, config, aborted>>

\* A run is arranged to end: LR is null, so that the code's last RET leads to
\* the sentinel.
Arranged(kind) == kind = "run" => regs["lr"] = 0

TopLevelCall(track, kind) ==
    /\ Idle /\ Arranged(kind)
    /\ \/ \E entry_pc \in Entries : Enter(track, kind, entry_pc)
       \/ kind = "step" /\ Enter(track, kind, None)

\* From a hook or an observer only the forms that seat the PC inside the
\* guard are allowed.
NestedCall(track, kind) ==
    /\ InCallback /\ Arranged(kind)
    /\ Depth < MaxDepth
    /\ \E entry_pc \in NestedEntries : Enter(track, kind, entry_pc)

\* Mutant: the outermost call restores the cursor it found, too.
LeaveRestoringAlways ==
    /\ aborted = "no" /\ frames # <<>>
    /\ Top.phase = "done" \/ (Top.phase = "ready" /\ cur.pc = kEndOfSimAddress)
    /\ SetTraceParameters(Top.saved_trace)
    /\ cur' = GabyRestoreCursor(Top.saved_cursor)
    /\ busy' = Top.nested
    /\ frames' = Front(frames)
    /\ UNCHANGED <<regs, gcs, config, aborted>>

\* Mutant: every call clears busy on its way out.
LeaveClearingBusy ==
    /\ aborted = "no" /\ frames # <<>>
    /\ Top.phase = "done" \/ (Top.phase = "ready" /\ cur.pc = kEndOfSimAddress)
    /\ SetTraceParameters(Top.saved_trace)
    /\ cur' = IF Top.nested THEN GabyRestoreCursor(Top.saved_cursor) ELSE cur
    /\ busy' = FALSE
    /\ frames' = Front(frames)
    /\ UNCHANGED <<regs, gcs, config, aborted>>

\* A step that has been made, or a call that finds the simulation finished.
Leave ==
    /\ aborted = "no" /\ frames # <<>>
    /\ Top.phase = "done" \/ (Top.phase = "ready" /\ cur.pc = kEndOfSimAddress)
    /\ SetTraceParameters(Top.saved_trace)
    /\ cur' = IF Top.nested THEN GabyRestoreCursor(Top.saved_cursor) ELSE cur
    /\ busy' = Top.nested
    /\ frames' = Front(frames)
    /\ UNCHANGED <<regs, gcs, config, aborted>>

-----------------------------------------------------------------------------
(***************************************************************************)
(* One instruction: ExecuteInstruction on the debug track,                 *)
(* ExecuteInstructionCached on the cache track.                            *)
(***************************************************************************)
Stepping ==
    /\ aborted = "no" /\ frames # <<>>
    /\ Top.phase = "ready" /\ cur.pc # kEndOfSimAddress

\* The cache track insists on a registered range; the debug track reads what
\* the host has mapped.
Mapped ==
    /\ cur.pc \in DOMAIN Code
    /\ Top.track = "cache" => RangeOf[cur.pc] # None

\* Where an indirect branch may land on a guarded page: BTI, PACI[AB]SP and
\* exceptions (HLT is how the trace pseudo-instruction is encoded).
LandingPads == BtiOps \cup {"paciasp", "trace"}

\* IsBtiRelevant: the forms whose entry carries flag bit 0.
BtiRelevant == BtiOps \cup {"paciasp", "autiasp", "trace"}

\* The BType / guarded-page check.
BTypeFault ==
    /\ GuardedPages /\ cur.btype # DefaultBType
    /\ Top.track = "cache" => Code[cur.pc].op \in BtiRelevant
    /\ Code[cur.pc].op \notin LandingPads

\* A BTI that does not take the branch it was reached by.
WrongBType ==
    /\ GuardedPages
    /\ \/ Code[cur.pc].op = "bti" /\ cur.btype # DefaultBType
       \/ Code[cur.pc].op = "bti_c" /\ cur.btype = BranchFromGuardedNotToIP
       \/ Code[cur.pc].op = "bti_j" /\ cur.btype = BranchAndLink

FetchFault == Stepping /\ ~Mapped /\ Abort("unmapped")

LandingFault == Stepping /\ Mapped /\ BTypeFault /\ Abort("btype")

Executing(ops) ==
    Stepping /\ Mapped /\ ~BTypeFault /\ Code[cur.pc].op \in ops

\* Mutant: pc_modified_ is not cleared before the leaf.
FetchedKeepingFlag ==
    [cur EXCEPT !.cur_range = IF Top.track = "cache" THEN RangeOf[cur.pc] ELSE @,
                !.form_hash = Code[cur.pc].op]

\* The cursor as the leaf finds it.
Fetched ==
    [cur EXCEPT !.pc_modified = FALSE,
                !.cur_range = IF Top.track = "cache" THEN RangeOf[cur.pc] ELSE @,
                !.form_hash = Code[cur.pc].op]

WasMovprfx == cur.form_hash = "movprfx"
CanTakeSVEMovprfx(form_hash) == form_hash = "sve"

\* What follows the leaf.  last_instr_ is read from pc_ before IncrementPc
\* and after a branch's WritePc.
Complete(c, last_instr_was_movprfx) ==
    IF last_instr_was_movprfx /\ ~CanTakeSVEMovprfx(c.form_hash)
    THEN aborted' = "movprfx" /\ UNCHANGED <<cur, frames>>
    ELSE /\ cur' = UpdateBType(IncrementPc([c EXCEPT !.last_instr = c.pc]))
         /\ frames' = [frames EXCEPT ![Depth] =
                         [@ EXCEPT !.phase = IF Top.kind = "step" THEN "done"
                                             ELSE "ready",
                                   !.previous = cur.pc]]
         /\ UNCHANGED aborted

\* The leaf calls the embedder.
CallOut(c, phase, target, link) ==
    /\ cur' = c
    /\ frames' = [frames EXCEPT ![Depth] =
                    [@ EXCEPT !.phase = phase, !.target = target, !.lr = link,
                              !.last_instr_was_movprfx = WasMovprfx,
                              !.inflight = c]]
    /\ UNCHANGED aborted

GabyHookedWritePc(c, target, link) ==
    IF config.hook THEN CallOut(c, "hook", target, link)
    ELSE Complete(WritePc(c, target), WasMovprfx)

\* VisitSystem's cases for BTI.
BtiFault == Executing(BtiOps) /\ WrongBType /\ Abort("btype")

ExecutePlain ==
    /\ Executing(PlainOps) /\ ~WrongBType
    /\ Complete(Fetched, WasMovprfx)
    /\ UNCHANGED <<regs, gcs, trace, visitors, config, busy>>

ExecuteMov ==
    /\ Executing({"mov"})
    /\ Complete(Fetched, WasMovprfx)
    /\ regs' = [regs EXCEPT ![Code[cur.pc].rd] = regs[Code[cur.pc].rn]]
    /\ UNCHANGED <<gcs, trace, visitors, config, busy>>

\* A store reports to the write sink from inside its leaf.
ExecuteStore ==
    /\ Executing({"store"})
    /\ IF config.observer THEN CallOut(Fetched, "observer", 0, regs["lr"])
       ELSE Complete(Fetched, WasMovprfx)
    /\ UNCHANGED <<regs, gcs, trace, visitors, config, busy>>

\* HLT kTraceOpcode: the guest changes the trace mask of the running call.
DoTrace ==
    /\ Executing({"trace"})
    /\ SetTraceParameters(IF Code[cur.pc].enable
                          THEN trace \cup Code[cur.pc].params
                          ELSE trace \ Code[cur.pc].params)
    /\ Complete(WritePc(Fetched, cur.pc + kTraceLength), WasMovprfx)
    /\ UNCHANGED <<regs, gcs, config, busy>>

VisitUnallocated == Executing({"data"}) /\ Abort("unallocated")

\* A named form without a leaf.
VisitUnimplemented ==
    /\ Executing({"unimplemented"})
    /\ IF ReleaseBuild
       THEN /\ Complete(Fetched, WasMovprfx)
            /\ UNCHANGED <<regs, gcs, trace, visitors, config, busy>>
       ELSE Abort("unimplemented")

VisitUnconditionalBranch ==
    /\ Executing({"b", "bl"})
    /\ LET link == Code[cur.pc].op = "bl"
           lr == IF link THEN cur.pc + 1 ELSE regs["lr"]
       IN  /\ regs' = [regs EXCEPT !["lr"] = lr]
           /\ gcs' = IF link THEN Append(gcs, lr) ELSE gcs
           /\ GabyHookedWritePc(Fetched, Code[cur.pc].target, lr)
    /\ UNCHANGED <<trace, visitors, config, busy>>

\* B.cond, TBZ/TBNZ and CBZ/CBNZ; the condition depends on data that is
\* abstracted away.
VisitConditionalBranch ==
    /\ Executing({"bcond"})
    /\ \/ Complete(Fetched, WasMovprfx)
       \/ GabyHookedWritePc(Fetched, Code[cur.pc].target, regs["lr"])
    /\ UNCHANGED <<regs, gcs, trace, visitors, config, busy>>

\* BR through x16 or x17 counts as a branch from an unguarded page.
GetBTypeFromInstruction(insn) ==
    CASE insn.op = "blr" -> BranchAndLink
      [] insn.op = "br" -> IF insn.rn \in {"x16", "x17"} \/ ~GuardedPages
                           THEN BranchFromUnguardedOrToIP
                           ELSE BranchFromGuardedNotToIP
      [] OTHER -> DefaultBType

GCSPeek == IF gcs = <<>> THEN 0 ELSE Last(gcs)

\* Mutant: a matching return leaves its entry on the stack.
GcsAfterKeeping(insn, lr) == IF insn.op = "blr" THEN Append(gcs, lr) ELSE gcs

\* RET pops its entry, BLR pushes one.
GcsAfter(insn, lr) ==
    CASE insn.op = "ret" /\ gcs # <<>> -> Front(gcs)
      [] insn.op = "blr" -> Append(gcs, lr)
      [] OTHER -> gcs

\* BR, BLR, RET and their authenticating forms.  AuthPAC may refuse the
\* pointer.
VisitUnconditionalBranchToRegister ==
    /\ Executing({"br", "blr", "ret"})
    /\ LET insn == Code[cur.pc]
           addr == regs[insn.rn]
           lr == IF insn.op = "blr" THEN cur.pc + 1 ELSE regs["lr"]
           mismatch == /\ insn.op = "ret" /\ GCSPeek # 0
                       /\ addr # 0 /\ addr # GCSPeek
       IN  \/ insn.auth /\ Abort("authentication")
           \/ mismatch /\ Abort("gcs")
           \/ /\ ~mismatch
              /\ regs' = [regs EXCEPT !["lr"] = lr]
              /\ gcs' = GcsAfter(insn, lr)
              /\ GabyHookedWritePc(
                   [Fetched EXCEPT !.next_btype = GetBTypeFromInstruction(insn)],
                   addr, lr)
              /\ UNCHANGED <<trace, visitors, config, busy>>

ExecuteInstruction ==
    \/ FetchFault \/ LandingFault \/ BtiFault
    \/ ExecutePlain \/ ExecuteMov \/ ExecuteStore \/ DoTrace
    \/ VisitUnallocated \/ VisitUnimplemented
    \/ VisitUnconditionalBranch \/ VisitConditionalBranch
    \/ VisitUnconditionalBranchToRegister

-----------------------------------------------------------------------------
(***************************************************************************)
(* The embedder: its callbacks and what it does between calls.             *)
(***************************************************************************)
\* A hook serving a host function returns the guest's LR, any other hook the
\* target, or a PC of its own.
HookResults(target) ==
    IF target \in HostMarkers THEN {Top.lr} ELSE {target} \cup Diverts

\* A callback gives LR back as it found it.
RestoreLr == regs' = [regs EXCEPT !["lr"] = Top.lr]

\* The second half of GabyHookedWritePc and of the instruction.
ReturnFromHook(depth) ==
    /\ InCallback /\ Depth = depth /\ Top.phase = "hook"
    /\ \E next_pc \in HookResults(Top.target) :
          \/ next_pc = Misaligned /\ Abort("misaligned")
          \/ /\ next_pc # Misaligned
             /\ RestoreLr
             /\ Complete(WritePc(cur, next_pc), Top.last_instr_was_movprfx)
             /\ UNCHANGED <<gcs, trace, visitors, config, busy>>

ReturnFromObserver(depth) ==
    /\ InCallback /\ Depth = depth /\ Top.phase = "observer"
    /\ RestoreLr
    /\ Complete(cur, Top.last_instr_was_movprfx)
    /\ UNCHANGED <<gcs, trace, visitors, config, busy>>

\* Write(GpRegister::LR, 0), so that the code about to be called ends its run
\* when it returns.
WriteLr ==
    /\ Idle \/ InCallback
    /\ regs' = [regs EXCEPT !["lr"] = 0]
    /\ UNCHANGED <<cur, gcs, trace, visitors, config, busy, frames, aborted>>

\* Write(GpRegister::PC), at top level only.
WritePcRegister ==
    /\ Idle
    /\ \E pc \in Entries : cur' = WritePc(cur, pc)
    /\ UNCHANGED <<regs, gcs, trace, visitors, config, busy, frames, aborted>>

\* Write(SysRegister::BType): WriteNextBType, then UpdateBType.
WriteBType ==
    /\ Idle \/ (CallbackBType /\ InCallback)
    /\ \E b \in BTypeWrites :
          cur' = UpdateBType([cur EXCEPT !.next_btype = b])
    /\ UNCHANGED <<regs, gcs, trace, visitors, config, busy, frames, aborted>>

Configure ==
    /\ \/ /\ Idle \/ InCallback
          /\ \E mask \in TraceMasks : config' = [config EXCEPT !.trace_parameters = mask]
       \/ /\ Idle
          /\ \E b \in {FALSE, HookWanted} : config' = [config EXCEPT !.hook = b]
       \/ /\ Idle
          /\ \E b \in BOOLEAN : config' = [config EXCEPT !.observer = b]
    /\ UNCHANGED <<cur, regs, gcs, trace, visitors, busy, frames, aborted>>

\* The process is gone.
Dead == aborted # "no" /\ UNCHANGED vars

Next ==
    \/ \E track \in Tracks :
          \/ \E kind \in TopCalls : TopLevelCall(track, kind)
          \/ \E kind \in {"run", "step"} : NestedCall(track, kind)
    \/ Leave
    \/ ExecuteInstruction
    \/ \E depth \in 1 .. MaxDepth :
          ReturnFromHook(depth) \/ ReturnFromObserver(depth)
    \/ WriteLr \/ WritePcRegister \/ WriteBType \/ Configure
    \/ Dead

Spec == Init /\ [][Next]_vars

\* The interpreter loop goes on, and every callback returns in the end,
\* however many nested calls it makes first.
LiveSpec ==
    /\ Spec
    /\ WF_vars(ExecuteInstruction) /\ WF_vars(Leave)
    /\ \A depth \in 1 .. MaxDepth :
          /\ SF_vars(ReturnFromHook(depth))
          /\ SF_vars(ReturnFromObserver(depth))

-----------------------------------------------------------------------------
(***************************************************************************)
(* Properties.                                                             *)
(***************************************************************************)
\* Every variable keeps its type: the fields of the cursor, of the calls in
\* progress and of the embedder's configuration.
TypeOK ==
    /\ cur \in Cursor
    /\ regs \in [Regs -> Words]
    /\ gcs \in Seq(Words)
    /\ trace \in SUBSET {"LOG_DISASM", "LOG_REGS"}
    /\ visitors \in Seq({"auditor", "disasm", "simulator"})
    /\ config \in [cache : BOOLEAN, hook : BOOLEAN, observer : BOOLEAN,
                   trace_parameters : SUBSET {"LOG_DISASM", "LOG_REGS"}]
    /\ busy \in BOOLEAN
    /\ frames \in Seq(Frame)
    /\ aborted \in {"no", "no cache", "unmapped", "btype", "movprfx",
                    "unallocated", "unimplemented", "authentication", "gcs",
                    "misaligned"}

\* busy says whether a call is in progress, and every call but the outermost
\* knows that it is nested, whatever callbacks nested in one another.
ScopesNest ==
    /\ busy = (frames # <<>>)
    /\ \A d \in 1 .. Depth : frames[d].nested = (d # 1)

\* Where the cursor of the d-th call is: in the Simulator, or in the
\* snapshot of the call above it.
CursorOf(d) == IF d = Depth THEN cur ELSE frames[d + 1].saved_cursor

\* While a leaf is calling out, and through any nested runs and steps on
\* either track, the cursor it will resume with is the one it left: PC,
\* range, form hash, last instruction, the pending IncrementPc and both
\* BTypes.
CursorIntact ==
    \A d \in 1 .. Depth :
        frames[d].phase \in {"hook", "observer"} =>
            CursorOf(d) = frames[d].inflight

\* The mask in force is given back level by level, so that no tracing is
\* left behind once no call is in progress, even if the guest changed it.
TraceRestored == (aborted = "no" /\ frames = <<>>) => trace = {}

\* The decoder calls the auditor first, then the disassembler if and only if
\* LOG_DISASM is in force, then the Simulator.
VisitorOrder ==
    visitors = IF "LOG_DISASM" \in trace
               THEN <<"auditor", "disasm", "simulator">>
               ELSE <<"auditor", "simulator">>

\* Tracing is consistent at every depth: the visitor list follows the mask in
\* force, and the outermost call gives back the mask it found.
TracingConsistent == TraceRestored /\ VisitorOrder

\* A cache-track call produces no trace output, whatever the embedder
\* configures and whichever track encloses it.
CacheTrackSilent ==
    (aborted = "no" /\ frames # <<>> /\ Top.track = "cache") => trace = {}

\* The outermost call leaves the cursor where its last instruction put it,
\* so that a stepping loop advances and a run ends at the sentinel.
OutermostKeepsProgress ==
    [][(Depth = 1 /\ frames' = <<>>) =>
          /\ cur' = cur
          /\ frames[1].kind = "run" => cur'.pc = kEndOfSimAddress]_vars

\* A program that follows every MOVPRFX with an instruction that takes it is
\* never refused, although nested steps may stop right after a MOVPRFX.
MovprfxChainKept == aborted # "movprfx"

\* While a hook runs, the BType its branch staged for the target is pending.
StagedBTypeKept ==
    \A d \in 1 .. Depth :
        /\ frames[d].phase = "hook"
        /\ Code[frames[d].inflight.pc].op \in {"br", "blr", "ret"}
        => CursorOf(d).next_btype =
              GetBTypeFromInstruction(Code[frames[d].inflight.pc])

\* What an instruction leaves pending for the next one, a MOVPRFX chain or the
\* BType of its target, survives whatever a callback executes in between.
PendingStateKept == MovprfxChainKept /\ StagedBTypeKept

\* Guest code that returns where it was called from is never refused by the
\* Guarded Control Stack.
NoGcsFailure == aborted # "gcs"

\* A guest whose calls and returns match, by static facts about its code.  In
\* c.main, the code of top-level runs, c.home[a] is the register that holds, at
\* a, the return address of the function a belongs to, and c.keep[a] are the
\* registers with its callers' return addresses.  c.side is the code of nested
\* runs, and c.may[r] are the values register r may hold.
Follows(c, a) ==
    CASE Code[a].op \in PlainOps \cup {"mov", "store", "unimplemented"} -> {a + 1}
      [] Code[a].op = "trace" -> {a + kTraceLength}
      [] Code[a].op = "b" -> {Code[a].target}
      [] Code[a].op = "bcond" -> {a + 1, Code[a].target}
      [] Code[a].op = "br" -> c.may[Code[a].rn]
      [] OTHER -> {}

Callees(c, a) ==
    CASE Code[a].op = "bl" -> {Code[a].target}
      [] Code[a].op = "blr" -> c.may[Code[a].rn]
      [] OTHER -> {}

\* Within a function its return address stays in its home register, or moves
\* with it.
StaysHome(c, a, b) ==
    b \in DOMAIN Code =>
        /\ b \in c.main /\ c.keep[a] \subseteq c.keep[b]
        /\ c.home[a] = IF Code[a].op = "mov" /\ c.home[b] = Code[a].rd
                       THEN Code[a].rn ELSE c.home[b]

\* A function finds its return address in LR and writes no register in which a
\* caller keeps its own.
Called(c, a, t) ==
    t \in DOMAIN Code =>
        t \in c.main /\ c.home[t] = "lr" /\ c.keep[a + 1] \cup {c.home[a + 1]} \subseteq c.keep[t]

MainCode(c) ==
    \A a \in c.main :
        /\ "lr" \notin c.keep[a]
        /\ \A b \in Follows(c, a) : b # 0 /\ StaysHome(c, a, b)
        /\ \A t \in Callees(c, a) : t # 0 /\ Called(c, a, t)
        /\ Code[a].op \in {"bl", "blr"} =>
              /\ a + 1 \in c.main /\ StaysHome(c, a, a + 1) /\ c.home[a] # "lr"
        /\ Code[a].op = "mov" => Code[a].rd \notin c.keep[a]
        /\ Code[a].op = "ret" => Code[a].rn = c.home[a]

\* A nested run neither calls nor returns, and writes no register that holds a
\* return address but LR, which its callback gives back.
SideCode(c) ==
    \A a \in c.side :
        /\ Code[a].op \notin {"bl", "blr", "ret"}
        /\ \A b \in Follows(c, a) : b \in DOMAIN Code => b \in c.side
        /\ Code[a].op = "mov" =>
              \A m \in c.main : c.home[m] # "lr" => Code[a].rd # c.home[m]

RegisterValues(c) ==
    /\ 0 \in c.may["lr"] /\ \A r \in Regs : InitRegs[r] \in c.may[r]
    /\ \A a \in c.main \cup c.side :
          /\ Code[a].op = "mov" => c.may[Code[a].rn] \subseteq c.may[Code[a].rd]
          /\ Code[a].op \in {"bl", "blr"} => a + 1 \in c.may["lr"]

\* The embedder enters functions at top level, and its hook lets every branch
\* go where it goes.
PlainEmbedder(c) ==
    /\ TopCalls \subseteq {"run"} /\ Diverts = {} /\ HostMarkers = {}
    /\ NestedEntries \subseteq c.side
    /\ Entries \subseteq c.main /\ \A a \in Entries : c.home[a] = "lr"

CallingConvention(c) ==
    /\ c \in [main : SUBSET DOMAIN Code, side : SUBSET DOMAIN Code,
              home : [DOMAIN Code -> Regs], keep : [DOMAIN Code -> SUBSET Regs],
              may : [Regs -> SUBSET Words]]
    /\ MainCode(c) /\ SideCode(c) /\ RegisterValues(c) /\ PlainEmbedder(c)

\* The branches that the instruction at a takes, by the architecture's table
\* of landing pads: BTI c those of BLR and of BR through x16 or x17, BTI j
\* those of BR, BTI jc, PACI[AB]SP and exceptions all, anything else none.
Takes(a, branch) ==
    \/ Code[a].op \in {"bti_jc", "paciasp", "trace"}
    \/ Code[a].op = "bti_c" /\ (branch.op = "blr" \/ branch.rn \in {"x16", "x17"})
    \/ Code[a].op = "bti_j" /\ branch.op = "br"

\* On guarded pages an instruction of an outermost call is refused exactly if
\* the instruction before it was a BR or BLR that it does not take, whatever
\* the branch's hook executed in between.  Both tracks, but the cache track
\* asks only at the instructions that BtiRelevant marks.
LandingsMatch ==
    [][(ExecuteInstruction /\ GuardedPages /\ Depth = 1 /\ Top.previous # 0
        /\ Mapped /\ (Top.track = "cache" => Code[cur.pc].op \in BtiRelevant))
          => (aborted' = "btype" <=>
                LET branch == Code[Top.previous]
                IN  branch.op \in {"br", "blr"} /\ ~Takes(cur.pc, branch))]_vars

\* Every execution call ends, by returning or by an abort.
CallsReturn == frames # <<>> ~> (frames = <<>> \/ aborted # "no")
=============================================================================
