-------------------------- MODULE InterpreterProofs --------------------------
(***************************************************************************)
(* Re-entrancy of the Simulator, for any guest program, any embedder and   *)
(* any depth of nested calls: the calls in progress form a stack, and a    *)
(* leaf that calls the embedder gets its cursor back.                      *)
(*                                                                         *)
(* Every step of the Simulator is one of four kinds: it pushes a call,     *)
(* pops one, moves the topmost call on, or leaves the calls alone.  The    *)
(* properties are invariants of the four kinds.                            *)
(***************************************************************************)
EXTENDS Interpreter, TLAPS, FiniteSetTheorems, SequenceTheorems

Masks == SUBSET {"LOG_DISASM", "LOG_REGS"}
Callout == {"hook", "observer"}

\* The types of everything but the decoder's visitor list and the Guarded
\* Control Stack, which no call reads from its frame.
CallsTyped ==
    /\ cur \in Cursor
    /\ regs \in [Regs -> Words]
    /\ trace \in Masks
    /\ config \in [cache : BOOLEAN, hook : BOOLEAN, observer : BOOLEAN,
                   trace_parameters : Masks]
    /\ busy \in BOOLEAN
    /\ frames \in Seq(Frame)

\* A leaf that is calling out is at an instruction.
PcMapped ==
    \A d \in 1 .. Depth :
        frames[d].phase \in Callout => CursorOf(d).pc \in DOMAIN Code

\* Only a step is done after one instruction.
RunsGoOn ==
    \A d \in 1 .. Depth : frames[d].kind = "run" => frames[d].phase # "done"

CallsInv == CallsTyped /\ PcMapped /\ RunsGoOn /\ ScopesNest

\* No instruction of the guest switches tracing on.
QuietGuest == \A a \in DOMAIN Code : Code[a].op = "trace" => ~Code[a].enable

\* A call in progress changes the trace mask only at the guest's request.
GuestTraces ==
    trace' = trace \/ (frames # <<>> /\ (QuietGuest => trace' \subseteq trace))

Push ==
    /\ frames = <<>> \/ Top.phase \in Callout
    /\ \E f \in Frame :
          /\ frames' = Append(frames, f)
          /\ f.phase = "ready" /\ f.nested = busy
          /\ f.saved_trace = trace /\ (f.track = "cache" => trace' = {})
          /\ busy => f.saved_cursor = cur
    /\ busy' = TRUE

Pop ==
    /\ frames # <<>> /\ Top.phase \notin Callout
    /\ Top.phase = "done" \/ cur.pc = kEndOfSimAddress
    /\ frames' = Front(frames)
    /\ trace' = Top.saved_trace
    /\ busy' = Top.nested
    /\ cur' = IF Top.nested THEN Top.saved_cursor ELSE cur

Move ==
    /\ frames # <<>>
    /\ \E f \in Frame :
          /\ frames' = [frames EXCEPT ![Depth] = f]
          /\ f.nested = Top.nested /\ f.saved_cursor = Top.saved_cursor
          /\ f.kind = Top.kind /\ f.track = Top.track
          /\ f.saved_trace = Top.saved_trace
          /\ f.phase = "done" => f.kind = "step"
          /\ f.phase \in Callout => f.inflight = cur' /\ cur'.pc \in DOMAIN Code
    /\ busy' = busy
    /\ GuestTraces

Keep ==
    /\ UNCHANGED <<frames, busy>>
    /\ GuestTraces
    /\ \/ UNCHANGED cur
       \/ frames = <<>>
       \/ CallbackBType /\ cur'.pc = cur.pc

-----------------------------------------------------------------------------
(***************************************************************************)
(* Types of the parts of a step.                                           *)
(***************************************************************************)

\* Addresses of instructions are words, and so are those that follow them.
LEMMA CodeWords ==
    /\ 0 \in Words
    /\ \A a \in DOMAIN Code :
          /\ a \in Words /\ a + 1 \in Words /\ a + kTraceLength \in Words
          /\ Code[a] \in Insn /\ a \in Nat \ {0}
  <1>1. Cardinality(DOMAIN Code) \in Nat
    BY ProgramAssumption, FS_CardinalityType
  <1>2. QED
    BY <1>1, ProgramAssumption DEF Words, kTraceLength

LEMMA ZeroCursorType == ZeroCursor \in Cursor
  BY CodeWords
  DEF ZeroCursor, Cursor, kEndOfSimAddress, DefaultBType, BTypes

LEMMA TopType ==
    ASSUME CallsTyped, frames # <<>>
    PROVE  Depth \in Nat \ {0} /\ Top \in Frame /\ Depth \in DOMAIN frames
  BY DEF CallsTyped, Depth, Top

\* Replacing the topmost call, adding one and dropping it.
LEMMA ReplaceTop ==
    ASSUME CallsTyped, frames # <<>>, NEW f \in Frame
    PROVE  LET new == [frames EXCEPT ![Depth] = f]
           IN  /\ new \in Seq(Frame) /\ Len(new) = Depth
               /\ new[Depth] = f
               /\ \A d \in 1 .. Depth - 1 : new[d] = frames[d]
  <1>1. Depth \in 1 .. Len(frames) /\ frames \in Seq(Frame)
    BY TopType DEF CallsTyped, Depth
  <1>2. QED
    BY <1>1, ExceptSeq DEF Depth

LEMMA AddTop ==
    ASSUME CallsTyped, NEW f \in Frame
    PROVE  LET new == Append(frames, f)
           IN  /\ new \in Seq(Frame) /\ Len(new) = Depth + 1
               /\ new[Depth + 1] = f
               /\ \A d \in 1 .. Depth : new[d] = frames[d]
  BY AppendProperties DEF CallsTyped, Depth

LEMMA DropTop ==
    ASSUME CallsTyped, frames # <<>>
    PROVE  LET new == Front(frames)
           IN  /\ new \in Seq(Frame) /\ Len(new) = Depth - 1
               /\ \A d \in 1 .. Depth - 1 : new[d] = frames[d]
  <1>1. /\ Len(frames) \in Nat \ {0}
        /\ \A i \in 1 .. Len(frames) - 1 : frames[i] \in Frame
    BY DEF CallsTyped
  <1> DEFINE n == Len(frames) - 1
  <1>2. n \in Int /\ 0 <= n
    BY <1>1
  <1>3. /\ SubSeq(frames, 1, n) \in Seq(Frame)
        /\ Len(SubSeq(frames, 1, n)) = IF 1 <= n THEN n - 1 + 1 ELSE 0
        /\ \A i \in 1 .. n - 1 + 1 : SubSeq(frames, 1, n)[i] = frames[1 + i - 1]
    <2> HIDE DEF n
    <2>1. \A i \in 1 .. n : frames[i] \in Frame
      BY <1>1 DEF n
    <2>2. QED
      BY <1>2, <2>1, SubSeqProperties
  <1>4. /\ Len(SubSeq(frames, 1, n)) = n
        /\ \A i \in 1 .. n : SubSeq(frames, 1, n)[i] = frames[i]
    <2> HIDE DEF n
    <2>1. QED
      BY <1>2, <1>3
  <1>5. Front(frames) = SubSeq(frames, 1, n) /\ n = Depth - 1
    BY DEF Front, Depth
  <1> HIDE DEF n
  <1>6. QED
    BY <1>3, <1>4, <1>5

LEMMA WritePcType ==
    ASSUME NEW c \in Cursor, NEW pc \in Words
    PROVE  WritePc(c, pc) \in Cursor /\ WritePc(c, pc).pc_modified = TRUE
  BY DEF WritePc, Cursor

LEMMA UpdateBTypeType ==
    ASSUME NEW c \in Cursor
    PROVE  UpdateBType(c) \in Cursor /\ UpdateBType(c).pc = c.pc
  <1>1. c.next_btype \in BTypes /\ DefaultBType \in BTypes
    BY DEF Cursor, DefaultBType, BTypes
  <1>2. QED
    BY <1>1 DEF UpdateBType, Cursor

LEMMA FetchedType ==
    ASSUME CallsTyped, cur.pc \in DOMAIN Code
    PROVE  Fetched \in Cursor /\ Fetched.pc = cur.pc
  BY CodeWords DEF CallsTyped, Fetched, Cursor, Insn

\* The end of an instruction moves the topmost call on.
LEMMA CompleteMoves ==
    ASSUME CallsTyped, frames # <<>>, NEW c \in Cursor, NEW m \in BOOLEAN,
           c.pc_modified = TRUE \/ c.pc \in DOMAIN Code,
           Complete(c, m), busy' = busy, GuestTraces
    PROVE  /\ cur' \in Cursor /\ frames' \in Seq(Frame)
           /\ Move \/ (UNCHANGED <<cur, frames>>)
  <1>1. CASE UNCHANGED <<cur, frames>>
    BY <1>1 DEF CallsTyped
  <1>2. CASE ~UNCHANGED <<cur, frames>>
    <2> DEFINE p == IF Top.kind = "step" THEN "done" ELSE "ready"
               f == [Top EXCEPT !.phase = p, !.previous = cur.pc]
               i == [c EXCEPT !.last_instr = c.pc]
    <2>1. /\ cur' = UpdateBType(IncrementPc(i))
          /\ frames' = [frames EXCEPT ![Depth] = [@ EXCEPT !.phase = p, !.previous = cur.pc]]
      BY <1>2 DEF Complete
    <2>2. i \in Cursor /\ i.pc = c.pc /\ i.pc_modified = c.pc_modified
      BY DEF Cursor
    <2>3. IncrementPc(i) \in Cursor
      <3>1. CASE c.pc_modified = TRUE
        BY <2>2, <3>1 DEF IncrementPc
      <3>2. CASE c.pc \in DOMAIN Code
        BY <2>2, <3>2, CodeWords DEF IncrementPc, Cursor
      <3>3. QED
        BY <3>1, <3>2
    <2>4. cur' \in Cursor
      BY <2>1, <2>3, UpdateBTypeType
    <2>5. /\ f \in Frame /\ f.nested = Top.nested
          /\ f.kind = Top.kind /\ f.track = Top.track
          /\ f.saved_trace = Top.saved_trace
          /\ f.saved_cursor = Top.saved_cursor /\ f.phase \notin Callout
          /\ f.phase = "done" => f.kind = "step"
      <3>1. Top \in Frame /\ cur.pc \in Words
        BY TopType DEF CallsTyped, Cursor
      <3>2. p \in {"done", "ready"} /\ (p = "done" => Top.kind = "step")
        OBVIOUS
      <3> HIDE DEF p
      <3>3. QED
        BY <3>1, <3>2 DEF Frame, Callout
    <2>6. frames' = [frames EXCEPT ![Depth] = f]
      BY <2>1, TopType DEF Top
    <2>7. frames' \in Seq(Frame)
      BY <2>5, <2>6, ReplaceTop
    <2>8. Move
      BY <2>5, <2>6 DEF Move
    <2>9. QED
      BY <2>4, <2>7, <2>8
  <1>3. QED
    BY <1>1, <1>2

\* A leaf that calls out leaves its cursor in place and records it.
LEMMA CallOutMoves ==
    ASSUME CallsTyped, frames # <<>>, NEW c \in Cursor, c.pc \in DOMAIN Code,
           NEW phase \in Callout, NEW target \in Words, NEW link \in Words,
           CallOut(c, phase, target, link), busy' = busy, GuestTraces
    PROVE  cur' \in Cursor /\ frames' \in Seq(Frame) /\ Move
  <1> DEFINE f == [Top EXCEPT !.phase = phase, !.target = target, !.lr = link,
                              !.last_instr_was_movprfx = WasMovprfx,
                              !.inflight = c]
  <1>1. WasMovprfx \in BOOLEAN
    BY DEF WasMovprfx
  <1>2. /\ f \in Frame /\ f.nested = Top.nested /\ f.phase # "done"
        /\ f.kind = Top.kind /\ f.track = Top.track
        /\ f.saved_trace = Top.saved_trace
        /\ f.saved_cursor = Top.saved_cursor /\ f.inflight = c
    <2>1. Top \in Frame
      BY TopType
    <2>2. phase \in {"ready", "hook", "observer", "done"} /\ phase # "done"
      BY DEF Callout
    <2>3. QED
      BY <1>1, <2>1, <2>2 DEF Frame
  <1>3. cur' = c /\ frames' = [frames EXCEPT ![Depth] = f]
    BY TopType DEF CallOut, Top
  <1> HIDE DEF f
  <1>4. QED
    BY <1>2, <1>3, ReplaceTop DEF Move

-----------------------------------------------------------------------------
(***************************************************************************)
(* Every step is of one of the four kinds.                                 *)
(***************************************************************************)
StepKind == CallsTyped' /\ (Push \/ Pop \/ Move \/ Keep)
MoveKind == CallsTyped' /\ (Move \/ Keep)

LEMMA AbortKind ==
    ASSUME CallsTyped, NEW why, Abort(why)
    PROVE  MoveKind
  BY DEF Abort, CallsTyped, MoveKind, Keep, GuestTraces

LEMMA CompleteKind ==
    ASSUME CallsTyped, frames # <<>>, NEW c \in Cursor, NEW m \in BOOLEAN,
           c.pc_modified = TRUE \/ c.pc \in DOMAIN Code, Complete(c, m),
           regs' \in [Regs -> Words], trace' \in Masks, GuestTraces,
           UNCHANGED <<config, busy>>
    PROVE  MoveKind
  <1>1. /\ cur' \in Cursor /\ frames' \in Seq(Frame)
        /\ Move \/ UNCHANGED <<cur, frames>>
    BY CompleteMoves
  <1>2. QED
    BY <1>1 DEF CallsTyped, MoveKind, Keep,
          GuestTraces

LEMMA CallOutKind ==
    ASSUME CallsTyped, frames # <<>>, NEW c \in Cursor, c.pc \in DOMAIN Code,
           NEW phase \in Callout, NEW target \in Words, NEW link \in Words,
           CallOut(c, phase, target, link),
           regs' \in [Regs -> Words], trace' \in Masks, GuestTraces,
           UNCHANGED <<config, busy>>
    PROVE  MoveKind
  <1>1. cur' \in Cursor /\ frames' \in Seq(Frame) /\ Move
    BY CallOutMoves
  <1>2. QED
    BY <1>1 DEF CallsTyped, MoveKind

LEMMA MovprfxType == WasMovprfx \in BOOLEAN
  BY DEF WasMovprfx

\* A taken branch completes, or calls the hook first.
LEMMA BranchKind ==
    ASSUME CallsTyped, frames # <<>>, NEW c \in Cursor, c.pc \in DOMAIN Code,
           NEW target \in Words, NEW link \in Words,
           GabyHookedWritePc(c, target, link),
           regs' \in [Regs -> Words], trace' \in Masks, GuestTraces,
           UNCHANGED <<config, busy>>
    PROVE  MoveKind
  <1>1. CASE config.hook
    BY <1>1, CallOutKind DEF GabyHookedWritePc, Callout
  <1>2. CASE ~config.hook
    <2>1. Complete(WritePc(c, target), WasMovprfx)
      BY <1>2 DEF GabyHookedWritePc
    <2>2. QED
      BY <2>1, WritePcType, MovprfxType, CompleteKind
  <1>3. QED
    BY <1>1, <1>2

\* What an instruction step finds.
LEMMA ExecutingFinds ==
    ASSUME CallsTyped, NEW ops, Executing(ops)
    PROVE  /\ frames # <<>> /\ cur.pc \in DOMAIN Code
           /\ Fetched \in Cursor /\ Fetched.pc = cur.pc
           /\ Code[cur.pc] \in Insn
  BY FetchedType, CodeWords DEF Executing, Stepping, Mapped

LEMMA InstructionKind ==
    ASSUME CallsTyped, ExecuteInstruction
    PROVE  MoveKind
  <1>0. regs \in [Regs -> Words] /\ trace \in Masks /\ "lr" \in Regs
    BY ProgramAssumption DEF CallsTyped
  <1>1. CASE FetchFault \/ LandingFault \/ BtiFault \/ VisitUnallocated
    BY <1>1, AbortKind DEF FetchFault, LandingFault, BtiFault, VisitUnallocated
  <1>2. CASE ExecutePlain
    BY <1>0, <1>2, ExecutingFinds, CompleteKind, MovprfxType
    DEF ExecutePlain, GuestTraces
  <1>3. CASE ExecuteMov
    <2>1. Code[cur.pc].rd \in Regs /\ Code[cur.pc].rn \in Regs
      BY <1>3, ExecutingFinds DEF ExecuteMov, Insn
    <2>2. regs' \in [Regs -> Words]
      BY <1>0, <1>3, <2>1 DEF ExecuteMov
    <2>3. QED
      BY <1>0, <1>3, <2>2, ExecutingFinds, CompleteKind, MovprfxType
      DEF ExecuteMov, GuestTraces
  <1>4. CASE ExecuteStore
    <2>1. CASE config.observer
      <3>1. CallOut(Fetched, "observer", 0, regs["lr"])
        BY <1>4, <2>1 DEF ExecuteStore
      <3>2. regs["lr"] \in Words /\ 0 \in Words
        BY <1>0, CodeWords
      <3>3. QED
        BY <1>0, <1>4, <3>1, <3>2, ExecutingFinds, CallOutKind
        DEF ExecuteStore, Callout, GuestTraces
    <2>2. CASE ~config.observer
      BY <1>0, <1>4, <2>2, ExecutingFinds, CompleteKind, MovprfxType
      DEF ExecuteStore, GuestTraces
    <2>3. QED
      BY <2>1, <2>2
  <1>5. CASE DoTrace
    <2>1. /\ Fetched \in Cursor /\ cur.pc + kTraceLength \in Words
          /\ frames # <<>> /\ Code[cur.pc].params \in Masks
      BY <1>5, ExecutingFinds, CodeWords DEF DoTrace, Insn, Masks
    <2>2. trace' \in Masks
      BY <1>0, <1>5, <2>1 DEF DoTrace, SetTraceParameters, Masks
    <2>3. GuestTraces
      BY <1>5, <2>1
      DEF DoTrace, SetTraceParameters, GuestTraces, QuietGuest, Executing,
          Stepping, Mapped
    <2>4. QED
      BY <1>0, <1>5, <2>1, <2>2, <2>3, WritePcType, CompleteKind, MovprfxType DEF DoTrace
  <1>6. CASE VisitUnimplemented
    <2>1. CASE ReleaseBuild
      BY <1>0, <1>6, <2>1, ExecutingFinds, CompleteKind, MovprfxType
      DEF VisitUnimplemented, GuestTraces
    <2>2. CASE ~ReleaseBuild
      BY <1>6, <2>2, AbortKind DEF VisitUnimplemented
    <2>3. QED
      BY <2>1, <2>2
  <1>7. CASE VisitUnconditionalBranch
    <2> DEFINE lr == IF Code[cur.pc].op = "bl" THEN cur.pc + 1 ELSE regs["lr"]
    <2>0. /\ Fetched \in Cursor /\ Fetched.pc \in DOMAIN Code /\ frames # <<>>
          /\ cur.pc \in DOMAIN Code /\ Code[cur.pc].target \in Words
      BY <1>7, ExecutingFinds DEF VisitUnconditionalBranch, Insn
    <2>1. lr \in Words
      BY <1>0, <2>0, CodeWords
    <2>2. /\ regs' = [regs EXCEPT !["lr"] = lr]
          /\ GabyHookedWritePc(Fetched, Code[cur.pc].target, lr)
          /\ UNCHANGED <<trace, config, busy>>
      BY <1>7 DEF VisitUnconditionalBranch
    <2> HIDE DEF lr
    <2>3. regs' \in [Regs -> Words]
      BY <1>0, <2>1, <2>2
    <2>4. QED
      BY <1>0, <2>0, <2>1, <2>2, <2>3, BranchKind DEF GuestTraces
  <1>8. CASE VisitConditionalBranch
    <2>0. /\ Fetched \in Cursor /\ Fetched.pc \in DOMAIN Code /\ frames # <<>>
          /\ Code[cur.pc].target \in Words /\ regs["lr"] \in Words
      BY <1>0, <1>8, ExecutingFinds DEF VisitConditionalBranch, Insn
    <2>1. UNCHANGED <<regs, trace, config, busy>>
      BY <1>8 DEF VisitConditionalBranch
    <2>2. CASE Complete(Fetched, WasMovprfx)
      BY <1>0, <2>0, <2>1, <2>2, CompleteKind, MovprfxType DEF GuestTraces
    <2>3. CASE GabyHookedWritePc(Fetched, Code[cur.pc].target, regs["lr"])
      BY <1>0, <2>0, <2>1, <2>3, BranchKind DEF GuestTraces
    <2>4. QED
      BY <1>8, <2>2, <2>3 DEF VisitConditionalBranch
  <1>9. CASE VisitUnconditionalBranchToRegister
    <2> DEFINE insn == Code[cur.pc]
               addr == regs[insn.rn]
               lr == IF insn.op = "blr" THEN cur.pc + 1 ELSE regs["lr"]
               c == [Fetched EXCEPT !.next_btype = GetBTypeFromInstruction(insn)]
    <2>0. /\ Fetched \in Cursor /\ Fetched.pc \in DOMAIN Code /\ frames # <<>>
          /\ cur.pc \in DOMAIN Code /\ insn.rn \in Regs
      BY <1>9, ExecutingFinds DEF VisitUnconditionalBranchToRegister, Insn
    <2>1. lr \in Words /\ addr \in Words
      BY <1>0, <2>0, CodeWords
    <2>2. c \in Cursor /\ c.pc \in DOMAIN Code
      <3>1. GetBTypeFromInstruction(insn) \in BTypes
        BY DEF GetBTypeFromInstruction, BTypes, BranchAndLink, DefaultBType,
               BranchFromUnguardedOrToIP, BranchFromGuardedNotToIP
      <3>2. QED
        BY <2>0, <3>1 DEF Cursor
    <2>3. CASE \E why : Abort(why)
      BY <2>3, AbortKind
    <2>4. CASE ~\E why : Abort(why)
      <3>1. /\ regs' = [regs EXCEPT !["lr"] = lr]
            /\ GabyHookedWritePc(c, addr, lr)
            /\ UNCHANGED <<trace, config, busy>>
        BY <1>9, <2>4 DEF VisitUnconditionalBranchToRegister
      <3> HIDE DEF lr, addr, c, insn
      <3>2. regs' \in [Regs -> Words]
        BY <1>0, <2>1, <3>1
      <3>3. QED
        BY <1>0, <2>0, <2>1, <2>2, <3>1, <3>2, BranchKind DEF GuestTraces
    <2>5. QED
      BY <2>3, <2>4
  <1>10. QED
    BY <1>1, <1>2, <1>3, <1>4, <1>5, <1>6, <1>7, <1>8, <1>9 DEF ExecuteInstruction

LEMMA EnterKind ==
    ASSUME CallsTyped, NEW track \in {"cache", "debug"},
           NEW kind \in {"run", "step"}, NEW entry_pc \in Words \cup {None},
           frames = <<>> \/ Top.phase \in Callout,
           Enter(track, kind, entry_pc)
    PROVE  StepKind
  <1> DEFINE f == NewFrame(track, kind)
  <1>1. /\ f \in Frame /\ f.phase = "ready" /\ f.nested = busy
        /\ f.saved_trace = trace /\ f.track = track
        /\ busy => f.saved_cursor = cur
    BY ZeroCursorType, CodeWords
    DEF NewFrame, Frame, CallsTyped, GabySaveCursor, Masks
  <1>2. CASE track = "cache" /\ ~config.cache
    BY <1>2, AbortKind DEF Enter, StepKind, MoveKind
  <1>3. CASE ~(track = "cache" /\ ~config.cache)
    <2>1. /\ frames' = Append(frames, f) /\ busy' = TRUE
          /\ SetTraceParameters(IF track = "debug" THEN config.trace_parameters
                                ELSE {})
          /\ cur' = IF entry_pc = None THEN cur ELSE WritePc(cur, entry_pc)
          /\ UNCHANGED <<regs, config>>
      BY <1>3 DEF Enter
    <2> HIDE DEF f
    <2>2. cur' \in Cursor
      BY <2>1, WritePcType DEF CallsTyped
    <2>3. trace' \in Masks
      BY <2>1 DEF SetTraceParameters, CallsTyped, Masks
    <2>4. frames' \in Seq(Frame)
      BY <1>1, <2>1, AddTop
    <2>5. f.track = "cache" => trace' = {}
      BY <1>1, <2>1 DEF SetTraceParameters
    <2>6. Push
      BY <1>1, <2>1, <2>5 DEF Push
    <2>7. QED
      BY <2>1, <2>2, <2>3, <2>4, <2>6 DEF StepKind, CallsTyped
  <1>4. QED
    BY <1>2, <1>3

LEMMA LeaveKind ==
    ASSUME CallsTyped, Leave
    PROVE  StepKind
  <1>1. frames # <<>> /\ Top \in Frame
    BY TopType DEF Leave
  <1>2. /\ frames' = Front(frames) /\ busy' = Top.nested
        /\ SetTraceParameters(Top.saved_trace)
        /\ cur' = IF Top.nested THEN Top.saved_cursor ELSE cur
        /\ UNCHANGED <<regs, config>> /\ Top.phase \in {"done", "ready"}
        /\ Top.phase = "done" \/ cur.pc = kEndOfSimAddress
    BY DEF Leave, GabyRestoreCursor
  <1>3. cur' \in Cursor /\ busy' \in BOOLEAN /\ trace' \in Masks
    BY <1>1, <1>2 DEF CallsTyped, Frame, SetTraceParameters, Masks
  <1>4. frames' \in Seq(Frame)
    BY <1>1, <1>2, DropTop
  <1>5. Pop
    BY <1>1, <1>2 DEF Pop, Callout, SetTraceParameters
  <1>6. QED
    BY <1>2, <1>3, <1>4, <1>5 DEF StepKind, CallsTyped

\* A callback returns into the leaf, which completes.
LEMMA ReturnKind ==
    ASSUME CallsInv, NEW depth, ReturnFromHook(depth) \/ ReturnFromObserver(depth)
    PROVE  MoveKind
  <1>0. /\ CallsTyped /\ frames # <<>> /\ Top \in Frame /\ "lr" \in Regs
        /\ regs \in [Regs -> Words] /\ trace \in Masks /\ cur \in Cursor
    BY TopType, ProgramAssumption
    DEF CallsInv, CallsTyped, ReturnFromHook, ReturnFromObserver, InCallback
  <1>1. /\ Top.lr \in Words /\ Top.target \in Words
        /\ Top.last_instr_was_movprfx \in BOOLEAN
    BY <1>0 DEF Frame
  <1>2. CASE ReturnFromObserver(depth)
    <2>1. cur.pc \in DOMAIN Code
      <3>1. Depth \in 1 .. Depth /\ frames[Depth].phase \in Callout
        BY <1>0, <1>2, TopType DEF ReturnFromObserver, Callout, Top
      <3>2. CursorOf(Depth) = cur
        BY DEF CursorOf
      <3>3. QED
        BY <3>1, <3>2 DEF CallsInv, PcMapped
    <2>2. regs' \in [Regs -> Words]
      BY <1>0, <1>1, <1>2 DEF ReturnFromObserver, RestoreLr
    <2>3. QED
      BY <1>0, <1>1, <1>2, <2>1, <2>2, CompleteKind
      DEF ReturnFromObserver, GuestTraces
  <1>3. CASE ReturnFromHook(depth)
    <2>1. CASE \E why : Abort(why)
      BY <1>0, <2>1, AbortKind
    <2>2. CASE ~\E why : Abort(why)
      <3>1. PICK next_pc \in HookResults(Top.target) :
               /\ next_pc # Misaligned /\ RestoreLr
               /\ Complete(WritePc(cur, next_pc), Top.last_instr_was_movprfx)
               /\ UNCHANGED <<trace, config, busy>>
        BY <1>3, <2>2 DEF ReturnFromHook
      <3>2. next_pc \in Words
        BY <1>1, <3>1, EmbedderAssumption DEF HookResults
      <3>3. regs' \in [Regs -> Words]
        BY <1>0, <1>1, <3>1 DEF RestoreLr
      <3>4. QED
        BY <1>0, <1>1, <3>1, <3>2, <3>3, WritePcType, CompleteKind DEF GuestTraces
    <2>3. QED
      BY <2>1, <2>2
  <1>4. QED
    BY <1>2, <1>3

\* The embedder's configuration, one field at a time.
LEMMA ConfigType ==
    ASSUME NEW B, NEW M, NEW b \in B, NEW m \in M,
           NEW c \in [cache : B, hook : B, observer : B, trace_parameters : M]
    PROVE  /\ [c EXCEPT !.hook = b] \in
                [cache : B, hook : B, observer : B, trace_parameters : M]
           /\ [c EXCEPT !.observer = b] \in
                [cache : B, hook : B, observer : B, trace_parameters : M]
           /\ [c EXCEPT !.trace_parameters = m] \in
                [cache : B, hook : B, observer : B, trace_parameters : M]
  OBVIOUS

LEMMA NextKind == CallsInv /\ [Next]_vars => StepKind
  <1> SUFFICES ASSUME CallsInv, [Next]_vars PROVE StepKind
    OBVIOUS
  <1>0. /\ CallsTyped /\ regs \in [Regs -> Words] /\ cur \in Cursor
        /\ "lr" \in Regs
    BY ProgramAssumption DEF CallsInv, CallsTyped
  <1>1. ASSUME NEW track \in Tracks, NEW kind \in TopCalls,
               TopLevelCall(track, kind)
        PROVE  StepKind
    <2>1. PICK entry_pc \in Entries \cup {None} : Enter(track, kind, entry_pc)
      BY <1>1 DEF TopLevelCall
    <2>2. /\ track \in {"cache", "debug"} /\ kind \in {"run", "step"}
          /\ entry_pc \in Words \cup {None} /\ frames = <<>>
      BY <1>1, EmbedderAssumption, CodeWords DEF TopLevelCall, Idle
    <2>3. QED
      BY <1>0, <2>1, <2>2, EnterKind
  <1>2. ASSUME NEW track \in Tracks, NEW kind \in {"run", "step"},
               NestedCall(track, kind)
        PROVE  StepKind
    <2>1. PICK entry_pc \in NestedEntries : Enter(track, kind, entry_pc)
      BY <1>2 DEF NestedCall
    <2>2. /\ track \in {"cache", "debug"} /\ entry_pc \in Words \cup {None}
          /\ Top.phase \in Callout
      BY <1>2, EmbedderAssumption, CodeWords DEF NestedCall, InCallback, Callout
    <2>3. QED
      BY <1>0, <2>1, <2>2, EnterKind
  <1>3. CASE Leave
    BY <1>0, <1>3, LeaveKind
  <1>4. CASE ExecuteInstruction
    BY <1>0, <1>4, InstructionKind DEF StepKind, MoveKind
  <1>5. ASSUME NEW depth \in 1 .. MaxDepth,
               ReturnFromHook(depth) \/ ReturnFromObserver(depth)
        PROVE  StepKind
    BY <1>5, ReturnKind DEF StepKind, MoveKind
  <1>6. CASE WriteLr
    <2>1. regs' \in [Regs -> Words]
      BY <1>0, <1>6, CodeWords DEF WriteLr
    <2>2. QED
      BY <1>0, <1>6, <2>1 DEF WriteLr, CallsTyped, StepKind, Keep,
          GuestTraces
  <1>7. CASE WritePcRegister
    <2>0. PICK pc \in Entries : cur' = WritePc(cur, pc)
      BY <1>7 DEF WritePcRegister
    <2>a. pc \in Words
      BY EmbedderAssumption, CodeWords
    <2>1. cur' \in Cursor
      BY <1>0, <2>0, <2>a, WritePcType
    <2>2. QED
      BY <1>0, <1>7, <2>1 DEF WritePcRegister, Idle, CallsTyped, StepKind, Keep,
          GuestTraces
  <1>8. CASE WriteBType
    <2>1. PICK b \in BTypes : cur' = UpdateBType([cur EXCEPT !.next_btype = b])
      BY <1>8, EmbedderAssumption DEF WriteBType
    <2>2. [cur EXCEPT !.next_btype = b] \in Cursor
          /\ [cur EXCEPT !.next_btype = b].pc = cur.pc
      BY <1>0 DEF Cursor
    <2>3. cur' \in Cursor /\ cur'.pc = cur.pc
      BY <2>1, <2>2, UpdateBTypeType
    <2>4. QED
      BY <1>0, <1>8, <2>3 DEF WriteBType, Idle, CallsTyped, StepKind, Keep,
          GuestTraces
  <1>9. CASE Configure
    <2> DEFINE C == [cache : BOOLEAN, hook : BOOLEAN, observer : BOOLEAN,
                     trace_parameters : Masks]
    <2>0. /\ config \in C /\ {FALSE, HookWanted} \subseteq BOOLEAN
          /\ TraceMasks \subseteq Masks /\ {} \in Masks /\ FALSE \in BOOLEAN
      BY <1>0, EmbedderAssumption DEF CallsTyped, Masks
    <2>a. /\ \A b \in BOOLEAN : /\ [config EXCEPT !.hook = b] \in C
                                /\ [config EXCEPT !.observer = b] \in C
          /\ \A m \in Masks : [config EXCEPT !.trace_parameters = m] \in C
      BY <2>0, ConfigType
    <2>b. \/ \E m \in Masks : config' = [config EXCEPT !.trace_parameters = m]
          \/ \E b \in BOOLEAN : \/ config' = [config EXCEPT !.hook = b]
                               \/ config' = [config EXCEPT !.observer = b]
      BY <1>9, <2>0, Zenon DEF Configure
    <2> HIDE DEF C
    <2>c. config' \in C
      BY <2>a, <2>b, Zenon
    <2>1. config' \in [cache : BOOLEAN, hook : BOOLEAN, observer : BOOLEAN,
                       trace_parameters : Masks]
      BY <2>c DEF C
    <2>2. QED
      BY <1>0, <1>9, <2>1 DEF Configure, CallsTyped, StepKind, Keep,
          GuestTraces
  <1>10. CASE Dead \/ UNCHANGED vars
    BY <1>0, <1>10 DEF Dead, vars, CallsTyped, StepKind, Keep,
          GuestTraces
  <1>11. QED
    BY <1>1, <1>2, <1>3, <1>4, <1>5, <1>6, <1>7, <1>8, <1>9, <1>10 DEF Next

-----------------------------------------------------------------------------
(***************************************************************************)
(* What the four kinds of step preserve.                                   *)
(***************************************************************************)
LEMMA CallsInit == Init => CallsInv
  <1> SUFFICES ASSUME Init PROVE CallsInv
    OBVIOUS
  <1>1. config \in [cache : BOOLEAN, hook : BOOLEAN, observer : BOOLEAN,
                    trace_parameters : Masks]
    BY DEF Init, Masks
  <1>2. /\ cur \in Cursor /\ regs \in [Regs -> Words] /\ trace \in Masks
        /\ busy = FALSE /\ frames = <<>>
    BY ZeroCursorType, ProgramAssumption DEF Init, Masks
  <1>3. frames \in Seq(Frame) /\ Depth = 0
    BY <1>2 DEF Depth
  <1>4. CallsTyped
    BY <1>1, <1>2, <1>3 DEF CallsTyped
  <1>5. PcMapped /\ RunsGoOn
    BY <1>3 DEF PcMapped, RunsGoOn
  <1>6. busy = (frames # <<>>)
    BY <1>2, Zenon
  <1>7. ScopesNest
    BY <1>3, <1>6 DEF ScopesNest
  <1>8. QED
    BY <1>4, <1>5, <1>7 DEF CallsInv

\* The calls in progress are numbered from 1.
LEMMA DepthType ==
    ASSUME CallsTyped
    PROVE  Depth \in Nat /\ (frames = <<>> <=> Depth = 0)
  BY DEF CallsTyped, Depth

\* A new call leaves the ones in progress as they are and holds the cursor
\* of the one below it.
LEMMA PushKeeps ==
    ASSUME CallsInv, Push
    PROVE  /\ Depth' = Depth + 1
           /\ \A d \in 1 .. Depth : frames'[d] = frames[d] /\ CursorOf(d)' = CursorOf(d)
           /\ frames'[Depth + 1].phase = "ready"
           /\ frames'[Depth + 1].nested = (Depth # 0)
  <1>0. CallsTyped /\ Depth \in Nat /\ (frames = <<>> <=> Depth = 0)
    BY DepthType DEF CallsInv
  <1>1. PICK f \in Frame : /\ frames' = Append(frames, f)
                           /\ f.phase = "ready" /\ f.nested = busy
                           /\ busy => f.saved_cursor = cur
    BY DEF Push
  <1>2. /\ Len(frames') = Depth + 1 /\ frames'[Depth + 1] = f
        /\ \A d \in 1 .. Depth : frames'[d] = frames[d]
    BY <1>0, <1>1, AddTop
  <1>3. busy = (frames # <<>>)
    BY DEF CallsInv, ScopesNest
  <1>4. ASSUME NEW d \in 1 .. Depth
        PROVE  CursorOf(d)' = CursorOf(d)
    <2>1. Depth' = Depth + 1
      BY <1>2 DEF Depth
    <2>0. Depth # 0
      BY <1>0
    <2>2. busy = TRUE
      BY <1>0, <1>3, <2>0, Zenon
    <2>3. CASE d = Depth
      <3>1. CursorOf(d)' = frames'[d + 1].saved_cursor
        BY <1>0, <2>1, <2>3 DEF CursorOf
      <3>2. frames'[d + 1] = f
        BY <1>2, <2>3
      <3>3. CursorOf(d) = cur
        BY <2>3 DEF CursorOf
      <3>4. f.saved_cursor = cur
        BY <1>1, <2>2
      <3>5. QED
        BY <3>1, <3>2, <3>3, <3>4
    <2>4. CASE d # Depth
      BY <1>0, <1>2, <2>1, <2>4 DEF CursorOf
    <2>5. QED
      BY <2>3, <2>4
  <1>5. QED
    BY <1>0, <1>1, <1>2, <1>3, <1>4 DEF Depth

\* A call that ends gives the one below it its cursor back.
LEMMA PopKeeps ==
    ASSUME CallsInv, Pop
    PROVE  /\ Depth' = Depth - 1 /\ Depth \in Nat \ {0}
           /\ \A d \in 1 .. Depth - 1 :
                 frames'[d] = frames[d] /\ CursorOf(d)' = CursorOf(d)
  <1>0. CallsTyped /\ frames # <<>> /\ Depth \in Nat \ {0}
    BY TopType DEF CallsInv, Pop
  <1>1. /\ Len(frames') = Depth - 1
        /\ \A d \in 1 .. Depth - 1 : frames'[d] = frames[d]
    BY <1>0, DropTop DEF Pop
  <1>2. Top.nested = (Depth # 1)
    BY <1>0 DEF CallsInv, ScopesNest, Top
  <1>3. ASSUME NEW d \in 1 .. Depth - 1
        PROVE  CursorOf(d)' = CursorOf(d)
    <2>1. Depth' = Depth - 1
      BY <1>1 DEF Depth
    <2>2. CASE d = Depth - 1
      <3>0. Depth # 1
        BY <1>0, <2>2
      <3>1. cur' = Top.saved_cursor
        BY <1>2, <3>0 DEF Pop
      <3>2. CursorOf(d)' = cur' /\ CursorOf(d) = frames[Depth].saved_cursor
        BY <1>0, <2>1, <2>2 DEF CursorOf
      <3>3. QED
        BY <3>1, <3>2 DEF Top
    <2>3. CASE d # Depth - 1
      BY <1>0, <1>1, <2>1, <2>3 DEF CursorOf
    <2>4. QED
      BY <2>2, <2>3
  <1>4. QED
    BY <1>0, <1>1, <1>3 DEF Depth

\* A call that moves on leaves the ones below it as they are.
LEMMA MoveKeeps ==
    ASSUME CallsInv, Move
    PROVE  /\ Depth' = Depth /\ Depth \in Nat \ {0}
           /\ \A d \in 1 .. Depth - 1 :
                 frames'[d] = frames[d] /\ CursorOf(d)' = CursorOf(d)
           /\ frames'[Depth].nested = frames[Depth].nested
           /\ frames'[Depth].kind = frames[Depth].kind
           /\ frames'[Depth].track = frames[Depth].track
           /\ frames'[Depth].saved_trace = frames[Depth].saved_trace
           /\ frames'[Depth].phase = "done" => frames'[Depth].kind = "step"
           /\ CursorOf(Depth)' = cur'
           /\ frames'[Depth].phase \in Callout =>
                 frames'[Depth].inflight = cur' /\ cur'.pc \in DOMAIN Code
  <1>0. CallsTyped /\ frames # <<>> /\ Depth \in Nat \ {0}
    BY TopType DEF CallsInv, Move
  <1>1. PICK f \in Frame :
          /\ frames' = [frames EXCEPT ![Depth] = f]
          /\ f.nested = Top.nested /\ f.saved_cursor = Top.saved_cursor
          /\ f.kind = Top.kind /\ f.track = Top.track
          /\ f.saved_trace = Top.saved_trace
          /\ f.phase = "done" => f.kind = "step"
          /\ f.phase \in Callout => f.inflight = cur' /\ cur'.pc \in DOMAIN Code
    BY DEF Move
  <1>2. /\ Len(frames') = Depth /\ frames'[Depth] = f
        /\ \A d \in 1 .. Depth - 1 : frames'[d] = frames[d]
    BY <1>0, <1>1, ReplaceTop
  <1>3. Depth' = Depth
    BY <1>2 DEF Depth
  <1>4. ASSUME NEW d \in 1 .. Depth - 1
        PROVE  CursorOf(d)' = CursorOf(d)
    <2>1. CursorOf(d)' = frames'[d + 1].saved_cursor
      BY <1>0, <1>3 DEF CursorOf
    <2>2. CursorOf(d) = frames[d + 1].saved_cursor
      BY <1>0 DEF CursorOf
    <2>3. frames'[d + 1].saved_cursor = frames[d + 1].saved_cursor
      <3>1. CASE d + 1 = Depth
        BY <1>1, <1>2, <3>1 DEF Top
      <3>2. CASE d + 1 # Depth
        BY <1>0, <1>2, <3>2
      <3>3. QED
        BY <3>1, <3>2
    <2>4. QED
      BY <2>1, <2>2, <2>3
  <1>5. CursorOf(Depth)' = cur'
    BY <1>3 DEF CursorOf
  <1>6. QED
    BY <1>0, <1>1, <1>2, <1>3, <1>4, <1>5 DEF Top

LEMMA CallsStep == CallsInv /\ [Next]_vars => CallsInv'
  <1> SUFFICES ASSUME CallsInv, [Next]_vars PROVE CallsInv'
    OBVIOUS
  <1>0. CallsTyped' /\ (Push \/ Pop \/ Move \/ Keep)
    BY NextKind DEF StepKind
  <1>a. /\ Depth \in Nat /\ (frames = <<>> <=> Depth = 0)
        /\ Depth' \in Nat /\ (frames' = <<>> <=> Depth' = 0)
    <2>1. Depth \in Nat /\ (frames = <<>> <=> Depth = 0)
      BY DepthType DEF CallsInv
    <2>2. Depth' \in Nat /\ (frames' = <<>> <=> Depth' = 0)
      BY <1>0 DEF CallsTyped, Depth
    <2>3. QED
      BY <2>1, <2>2
  <1>b. /\ busy = (frames # <<>>)
        /\ \A d \in 1 .. Depth : frames[d].nested = (d # 1)
        /\ \A d \in 1 .. Depth :
              frames[d].phase \in Callout => CursorOf(d).pc \in DOMAIN Code
        /\ \A d \in 1 .. Depth :
              frames[d].kind = "run" => frames[d].phase # "done"
    BY DEF CallsInv, ScopesNest, PcMapped, RunsGoOn
  <1>1. CASE Push
    <2>1. /\ Depth' = Depth + 1
          /\ \A d \in 1 .. Depth : frames'[d] = frames[d] /\ CursorOf(d)' = CursorOf(d)
          /\ frames'[Depth + 1].phase = "ready"
          /\ frames'[Depth + 1].nested = (Depth # 0)
      BY <1>1, PushKeeps
    <2>2. PcMapped'
      <3> SUFFICES ASSUME NEW d \in 1 .. Depth', frames'[d].phase \in Callout
                   PROVE  CursorOf(d)'.pc \in DOMAIN Code
        BY DEF PcMapped
      <3>1. d # Depth + 1
        BY <2>1 DEF Callout
      <3>2. d \in 1 .. Depth
        BY <1>a, <2>1, <3>1
      <3>3. QED
        BY <1>b, <2>1, <3>2
    <2>3. busy' = (frames' # <<>>)
      <3>1. Depth' # 0
        BY <1>a, <2>1
      <3>2. QED
        BY <1>1, <1>a, <3>1, Zenon DEF Push
    <2>4. ASSUME NEW d \in 1 .. Depth' PROVE frames'[d].nested = (d # 1)
      <3>1. CASE d = Depth + 1
        <4>1. (d # 1) <=> (Depth # 0)
          BY <1>a, <3>1
        <4>2. frames'[d].nested = (Depth # 0)
          BY <2>1, <3>1
        <4>3. QED
          BY <4>1, <4>2
      <3>2. CASE d # Depth + 1
        <4>1. d \in 1 .. Depth
          BY <1>a, <2>1, <3>2
        <4>2. QED
          BY <1>b, <2>1, <4>1
      <3>3. QED
        BY <3>1, <3>2
    <2>5. RunsGoOn'
      <3> SUFFICES ASSUME NEW d \in 1 .. Depth', frames'[d].kind = "run"
                   PROVE  frames'[d].phase # "done"
        BY DEF RunsGoOn
      <3>1. d = Depth + 1 \/ d \in 1 .. Depth
        BY <1>a, <2>1
      <3>2. QED
        BY <1>b, <2>1, <3>1
    <2>6. QED
      BY <1>0, <2>2, <2>3, <2>4, <2>5 DEF CallsInv, ScopesNest
  <1>2. CASE Pop
    <2>1. /\ Depth' = Depth - 1 /\ Depth \in Nat \ {0}
          /\ \A d \in 1 .. Depth - 1 :
                frames'[d] = frames[d] /\ CursorOf(d)' = CursorOf(d)
      BY <1>2, PopKeeps
    <2>2. PcMapped'
      <3> SUFFICES ASSUME NEW d \in 1 .. Depth', frames'[d].phase \in Callout
                   PROVE  CursorOf(d)'.pc \in DOMAIN Code
        BY DEF PcMapped
      <3>1. d \in 1 .. Depth /\ d \in 1 .. Depth - 1
        BY <1>a, <2>1
      <3>2. QED
        BY <1>b, <2>1, <3>1
    <2>3. busy' = (frames' # <<>>)
      <3>1. frames[Depth].nested = (Depth # 1)
        BY <1>b, <2>1
      <3>2. (Depth # 1) <=> (Depth' # 0)
        BY <2>1
      <3>3. QED
        BY <1>2, <1>a, <3>1, <3>2, Zenon DEF Pop, Top
    <2>4. ASSUME NEW d \in 1 .. Depth' PROVE frames'[d].nested = (d # 1)
      <3>1. d \in 1 .. Depth /\ d \in 1 .. Depth - 1
        BY <1>a, <2>1
      <3>2. QED
        BY <1>b, <2>1, <3>1
    <2>5. RunsGoOn'
      <3> SUFFICES ASSUME NEW d \in 1 .. Depth', frames'[d].kind = "run"
                   PROVE  frames'[d].phase # "done"
        BY DEF RunsGoOn
      <3>1. d \in 1 .. Depth /\ d \in 1 .. Depth - 1
        BY <1>a, <2>1
      <3>2. QED
        BY <1>b, <2>1, <3>1
    <2>6. QED
      BY <1>0, <2>2, <2>3, <2>4, <2>5 DEF CallsInv, ScopesNest
  <1>3. CASE Move
    <2>1. /\ Depth' = Depth /\ Depth \in Nat \ {0}
          /\ \A d \in 1 .. Depth - 1 :
                frames'[d] = frames[d] /\ CursorOf(d)' = CursorOf(d)
          /\ frames'[Depth].nested = frames[Depth].nested
          /\ frames'[Depth].phase = "done" => frames'[Depth].kind = "step"
          /\ CursorOf(Depth)' = cur'
          /\ frames'[Depth].phase \in Callout =>
                frames'[Depth].inflight = cur' /\ cur'.pc \in DOMAIN Code
      BY <1>3, MoveKeeps
    <2>2. ASSUME NEW d \in 1 .. Depth'
          PROVE  d = Depth \/ (d \in 1 .. Depth /\ d \in 1 .. Depth - 1)
      BY <2>1
    <2>3. PcMapped'
      <3> SUFFICES ASSUME NEW d \in 1 .. Depth', frames'[d].phase \in Callout
                   PROVE  CursorOf(d)'.pc \in DOMAIN Code
        BY DEF PcMapped
      <3>1. CASE d = Depth
        <4>1. CursorOf(d)' = cur'
          BY <2>1, <3>1 DEF CursorOf
        <4>2. QED
          BY <2>1, <3>1, <4>1
      <3>2. CASE d \in 1 .. Depth /\ d \in 1 .. Depth - 1
        BY <1>b, <2>1, <3>2
      <3>3. QED
        BY <2>2, <3>1, <3>2
    <2>4. busy' = (frames' # <<>>)
      BY <1>3, <1>a, <1>b, <2>1, Zenon DEF Move
    <2>5. ASSUME NEW d \in 1 .. Depth' PROVE frames'[d].nested = (d # 1)
      BY <1>b, <2>1, <2>2
    <2>6. RunsGoOn'
      <3> SUFFICES ASSUME NEW d \in 1 .. Depth', frames'[d].kind = "run"
                   PROVE  frames'[d].phase # "done"
        BY DEF RunsGoOn
      <3>1. QED
        BY <1>b, <2>1, <2>2
    <2>7. QED
      BY <1>0, <2>3, <2>4, <2>5, <2>6 DEF CallsInv, ScopesNest
  <1>4. CASE Keep
    <2>1. frames' = frames /\ busy' = busy /\ Depth' = Depth
      BY <1>4 DEF Keep, Depth
    <2>2. ScopesNest' /\ RunsGoOn'
      BY <2>1 DEF CallsInv, ScopesNest, RunsGoOn
    <2>3. cur'.pc = cur.pc \/ Depth = 0
      BY <1>4, <1>a DEF Keep
    <2>4. PcMapped'
      <3> SUFFICES ASSUME NEW d \in 1 .. Depth, frames[d].phase \in Callout
                   PROVE  CursorOf(d)'.pc \in DOMAIN Code
        BY <2>1 DEF PcMapped
      <3>1. CursorOf(d).pc \in DOMAIN Code
        BY <1>b
      <3>2. CASE d = Depth
        <4>1. CursorOf(d)' = cur' /\ CursorOf(d) = cur
          BY <2>1, <3>2 DEF CursorOf
        <4>2. QED
          BY <1>a, <2>3, <3>1, <3>2, <4>1
      <3>3. CASE d # Depth
        BY <2>1, <3>1, <3>3 DEF CursorOf
      <3>4. QED
        BY <3>2, <3>3
    <2>5. QED
      BY <1>0, <2>2, <2>4 DEF CallsInv
  <1>5. QED
    BY <1>0, <1>1, <1>2, <1>3, <1>4

\* ExecutionScope: busy and the nested flags of the calls in progress say
\* the same as the stack of calls, at any depth of nesting, on either track,
\* whatever the guest program and the embedder's callbacks do.
THEOREM ScopesAlwaysNest == Spec => []ScopesNest
  <1>1. CallsInv => ScopesNest
    BY DEF CallsInv
  <1>2. QED
    BY <1>1, CallsInit, CallsStep, PTL DEF Spec

-----------------------------------------------------------------------------
(***************************************************************************)
(* The cursor of a leaf that is calling out.                               *)
(***************************************************************************)
LEMMA CursorInit == Init => CursorIntact
  BY DEF Init, CursorIntact, Depth

LEMMA CursorStep ==
    ASSUME CallbackBType = FALSE
    PROVE  CallsInv /\ CursorIntact /\ [Next]_vars => CursorIntact'
  <1> SUFFICES ASSUME CallsInv, CursorIntact, [Next]_vars
               PROVE  CursorIntact'
    OBVIOUS
  <1>0. Push \/ Pop \/ Move \/ Keep
    BY NextKind DEF StepKind
  <1>a. Depth \in Nat /\ (frames = <<>> <=> Depth = 0)
    BY DepthType DEF CallsInv
  <1>b. \A d \in 1 .. Depth :
           frames[d].phase \in Callout => CursorOf(d) = frames[d].inflight
    BY DEF CursorIntact, Callout
  <1> SUFFICES ASSUME NEW d \in 1 .. Depth', frames'[d].phase \in Callout
               PROVE  CursorOf(d)' = frames'[d].inflight
    BY DEF CursorIntact, Callout
  <1>1. CASE Push
    <2>1. /\ Depth' = Depth + 1
          /\ \A e \in 1 .. Depth : frames'[e] = frames[e] /\ CursorOf(e)' = CursorOf(e)
          /\ frames'[Depth + 1].phase = "ready"
      BY <1>1, PushKeeps
    <2>2. d # Depth + 1
      BY <2>1 DEF Callout
    <2>3. d \in 1 .. Depth
      BY <1>a, <2>1, <2>2
    <2>4. QED
      BY <1>b, <2>1, <2>3
  <1>2. CASE Pop
    <2>1. /\ Depth' = Depth - 1
          /\ \A e \in 1 .. Depth - 1 :
                frames'[e] = frames[e] /\ CursorOf(e)' = CursorOf(e)
      BY <1>2, PopKeeps
    <2>2. d \in 1 .. Depth /\ d \in 1 .. Depth - 1
      BY <1>a, <2>1
    <2>3. QED
      BY <1>b, <2>1, <2>2
  <1>3. CASE Move
    <2>1. /\ Depth' = Depth
          /\ \A e \in 1 .. Depth - 1 :
                frames'[e] = frames[e] /\ CursorOf(e)' = CursorOf(e)
          /\ frames'[Depth].phase \in Callout => frames'[Depth].inflight = cur'
      BY <1>3, MoveKeeps
    <2>2. CASE d = Depth
      <3>1. CursorOf(d)' = cur'
        BY <2>1, <2>2 DEF CursorOf
      <3>2. QED
        BY <2>1, <2>2, <3>1
    <2>3. CASE d # Depth
      <3>1. d \in 1 .. Depth /\ d \in 1 .. Depth - 1
        BY <1>a, <2>1, <2>3
      <3>2. QED
        BY <1>b, <2>1, <3>1
    <2>4. QED
      BY <2>2, <2>3
  <1>4. CASE Keep
    <2>1. frames' = frames /\ Depth' = Depth
      BY <1>4 DEF Keep, Depth
    <2>2. cur' = cur
      BY <1>4, <1>a, <2>1 DEF Keep
    <2>3. CursorOf(d)' = CursorOf(d)
      BY <2>1, <2>2 DEF CursorOf
    <2>4. QED
      BY <1>b, <2>1, <2>3
  <1>5. QED
    BY <1>0, <1>1, <1>2, <1>3, <1>4

\* GabySaveCursor and GabyRestoreCursor: as long as its callbacks do not write
\* BTYPE, a leaf that calls a hook or an observer resumes with the PC, range,
\* form hash, last instruction, pending increment and BTypes it left, at any
\* depth of nested runs and steps and for any guest program.
THEOREM CursorRestored ==
    ASSUME CallbackBType = FALSE
    PROVE  Spec => []CursorIntact
  <1>1. CallsInv /\ CursorIntact /\ [Next]_vars => (CallsInv /\ CursorIntact)'
    BY CallsStep, CursorStep
  <1>2. Init => CallsInv /\ CursorIntact
    BY CallsInit, CursorInit
  <1>3. QED
    BY <1>1, <1>2, PTL DEF Spec

-----------------------------------------------------------------------------
(***************************************************************************)
(* The outermost call.                                                     *)
(***************************************************************************)
\* Only the end of a call takes one away, and the outermost call is not
\* nested.
LEMMA OutermostStep ==
    ASSUME CallsInv, [Next]_vars, Depth = 1, frames' = <<>>
    PROVE  /\ cur' = cur
           /\ frames[1].kind = "run" => cur'.pc = kEndOfSimAddress
  <1>0. StepKind /\ CallsTyped /\ CallsTyped'
    BY NextKind DEF CallsInv, StepKind
  <1>1. Depth' = 0
    BY <1>0 DEF CallsTyped, Depth
  <1>2. Pop
    <2>1. ~Push
      BY <1>1, PushKeeps
    <2>2. ~Move
      BY <1>1, MoveKeeps
    <2>3. ~Keep
      BY <1>1 DEF Keep, Depth
    <2>4. QED
      BY <1>0, <2>1, <2>2, <2>3 DEF StepKind
  <1>3. 1 \in 1 .. Depth
    OBVIOUS
  <1>4. Top.nested = (1 # 1)
    BY <1>3 DEF Top, CallsInv, ScopesNest
  <1>5. cur' = cur
    BY <1>2, <1>4 DEF Pop
  <1>6. frames[1].kind = "run" => frames[1].phase # "done"
    BY <1>3 DEF CallsInv, RunsGoOn
  <1>7. QED
    BY <1>2, <1>5, <1>6 DEF Pop, Top

\* ExecutionScope's destructor: the outermost call leaves the cursor where its
\* last instruction put it, and a run ends at the sentinel, whatever nested
\* calls its callbacks made.
THEOREM OutermostProgress == Spec => OutermostKeepsProgress
  <1>1. CallsInv /\ [Next]_vars =>
          [(Depth = 1 /\ frames' = <<>>) =>
              /\ cur' = cur
              /\ frames[1].kind = "run" => cur'.pc = kEndOfSimAddress]_vars
    BY OutermostStep
  <1>2. QED
    BY <1>1, CallsInit, CallsStep, PTL DEF Spec, OutermostKeepsProgress

-----------------------------------------------------------------------------
(***************************************************************************)
(* The trace mask: each call holds the mask of the one below it.           *)
(***************************************************************************)

\* The mask of the d-th call, and of no call if d is 0: in the Simulator, or
\* in the scope of the call above it.
TraceOf(d) == IF d = Depth THEN trace ELSE frames[d + 1].saved_trace

LEMMA PushTraces ==
    ASSUME CallsInv, Push
    PROVE  /\ \A d \in 0 .. Depth : TraceOf(d)' = TraceOf(d)
           /\ frames'[Depth + 1].track = "cache" => trace' = {}
  <1>0. CallsTyped /\ Depth \in Nat
    BY DepthType DEF CallsInv
  <1>1. PICK f \in Frame :
          /\ frames' = Append(frames, f)
          /\ f.saved_trace = trace /\ (f.track = "cache" => trace' = {})
    BY DEF Push
  <1>2. /\ Len(frames') = Depth + 1 /\ frames'[Depth + 1] = f
        /\ \A d \in 1 .. Depth : frames'[d] = frames[d]
    BY <1>0, <1>1, AddTop
  <1>3. Depth' = Depth + 1
    BY <1>2 DEF Depth
  <1>4. ASSUME NEW d \in 0 .. Depth
        PROVE  TraceOf(d)' = TraceOf(d)
    <2>1. TraceOf(d)' = frames'[d + 1].saved_trace
      BY <1>0, <1>3 DEF TraceOf
    <2>2. CASE d = Depth
      BY <1>1, <1>2, <2>1, <2>2 DEF TraceOf
    <2>3. CASE d # Depth
      <3>1. d + 1 \in 1 .. Depth
        BY <1>0, <2>3
      <3>2. QED
        BY <1>2, <2>1, <2>3, <3>1 DEF TraceOf
    <2>4. QED
      BY <2>2, <2>3
  <1>5. QED
    BY <1>1, <1>2, <1>4

LEMMA PopTraces ==
    ASSUME CallsInv, Pop
    PROVE  \A d \in 0 .. Depth - 1 : TraceOf(d)' = TraceOf(d)
  <1>0. CallsTyped /\ frames # <<>> /\ Depth \in Nat \ {0}
    BY TopType DEF CallsInv, Pop
  <1>1. /\ Len(frames') = Depth - 1
        /\ \A d \in 1 .. Depth - 1 : frames'[d] = frames[d]
    BY <1>0, DropTop DEF Pop
  <1>2. Depth' = Depth - 1
    BY <1>1 DEF Depth
  <1>3. ASSUME NEW d \in 0 .. Depth - 1
        PROVE  TraceOf(d)' = TraceOf(d)
    <2>1. TraceOf(d) = frames[d + 1].saved_trace
      BY <1>0 DEF TraceOf
    <2>2. CASE d = Depth - 1
      <3>1. TraceOf(d)' = trace' /\ d + 1 = Depth
        BY <1>0, <1>2, <2>2 DEF TraceOf
      <3>2. QED
        BY <2>1, <3>1 DEF Pop, Top
    <2>3. CASE d # Depth - 1
      <3>1. TraceOf(d)' = frames'[d + 1].saved_trace
        BY <1>2, <2>3 DEF TraceOf
      <3>2. d + 1 \in 1 .. Depth - 1
        BY <1>0, <2>3
      <3>3. QED
        BY <1>1, <2>1, <3>1, <3>2
    <2>4. QED
      BY <2>2, <2>3
  <1>4. QED
    BY <1>3

LEMMA MoveTraces ==
    ASSUME CallsInv, Move
    PROVE  \A d \in 0 .. Depth - 1 : TraceOf(d)' = TraceOf(d)
  <1>0. /\ Depth' = Depth /\ Depth \in Nat \ {0}
        /\ \A d \in 1 .. Depth - 1 : frames'[d] = frames[d]
        /\ frames'[Depth].saved_trace = frames[Depth].saved_trace
    BY MoveKeeps
  <1>1. ASSUME NEW d \in 0 .. Depth - 1
        PROVE  TraceOf(d)' = TraceOf(d)
    <2>1. /\ TraceOf(d) = frames[d + 1].saved_trace
          /\ TraceOf(d)' = frames'[d + 1].saved_trace
      BY <1>0 DEF TraceOf
    <2>2. d + 1 = Depth \/ d + 1 \in 1 .. Depth - 1
      BY <1>0
    <2>3. QED
      BY <1>0, <2>1, <2>2
  <1>2. QED
    BY <1>1

LEMMA KeepTraces ==
    ASSUME CallsInv, Keep
    PROVE  /\ Depth' = Depth /\ Depth \in Nat
           /\ \A d \in 0 .. Depth - 1 : TraceOf(d)' = TraceOf(d)
           /\ Depth = 0 => TraceOf(0)' = TraceOf(0)
  <1>0. frames' = frames /\ Depth' = Depth /\ Depth \in Nat /\ (frames = <<>> <=> Depth = 0)
    BY DepthType DEF Keep, Depth, CallsInv
  <1>1. \A d \in 0 .. Depth - 1 : TraceOf(d)' = TraceOf(d)
    BY <1>0 DEF TraceOf
  <1>2. Depth = 0 => trace' = trace
    BY <1>0 DEF Keep, GuestTraces
  <1>3. Depth = 0 => TraceOf(0)' = TraceOf(0)
    BY <1>0, <1>2 DEF TraceOf
  <1>4. QED
    BY <1>0, <1>1, <1>3

\* No mask is in force below the outermost call.
NoTraceBelow == TraceOf(0) = {}

LEMMA NoTraceInit == Init => NoTraceBelow
  BY DEF Init, NoTraceBelow, TraceOf, Depth

LEMMA NoTraceStep == CallsInv /\ NoTraceBelow /\ [Next]_vars => NoTraceBelow'
  <1> SUFFICES ASSUME CallsInv, NoTraceBelow, [Next]_vars
               PROVE  TraceOf(0)' = TraceOf(0)
    BY DEF NoTraceBelow
  <1>0. Push \/ Pop \/ Move \/ Keep
    BY NextKind DEF StepKind
  <1>1. CASE Push
    <2>1. Depth \in Nat
      BY DepthType DEF CallsInv
    <2>2. QED
      BY <1>1, <2>1, PushTraces
  <1>2. CASE Pop
    BY <1>2, PopTraces, PopKeeps
  <1>3. CASE Move
    BY <1>3, MoveTraces, MoveKeeps
  <1>4. CASE Keep
    BY <1>4, KeepTraces
  <1>5. QED
    BY <1>0, <1>1, <1>2, <1>3, <1>4

\* The mask of every call on the cache track is empty.
SilentCalls == \A d \in 1 .. Depth : frames[d].track = "cache" => TraceOf(d) = {}

LEMMA SilentStep ==
    ASSUME QuietGuest
    PROVE  CallsInv /\ SilentCalls /\ [Next]_vars => SilentCalls'
  <1> SUFFICES ASSUME CallsInv, SilentCalls, [Next]_vars,
                      NEW d \in 1 .. Depth', frames'[d].track = "cache"
               PROVE  TraceOf(d)' = {}
    BY DEF SilentCalls
  <1>0. (Push \/ Pop \/ Move \/ Keep) /\ Depth \in Nat
    BY NextKind, DepthType DEF StepKind, CallsInv
  <1>1. CASE Push
    <2>1. /\ Depth' = Depth + 1
          /\ \A e \in 1 .. Depth : frames'[e] = frames[e]
      BY <1>1, PushKeeps
    <2>2. CASE d = Depth + 1
      <3>1. TraceOf(d)' = trace'
        BY <2>1, <2>2 DEF TraceOf
      <3>2. QED
        BY <1>1, <2>2, <3>1, PushTraces
    <2>3. CASE d # Depth + 1
      <3>1. d \in 1 .. Depth /\ d \in 0 .. Depth
        BY <1>0, <2>1, <2>3
      <3>2. QED
        BY <1>1, <2>1, <3>1, PushTraces DEF SilentCalls
    <2>4. QED
      BY <2>2, <2>3
  <1>2. CASE Pop
    <2>1. /\ Depth' = Depth - 1
          /\ \A e \in 1 .. Depth - 1 : frames'[e] = frames[e]
      BY <1>2, PopKeeps
    <2>2. d \in 1 .. Depth /\ d \in 1 .. Depth - 1 /\ d \in 0 .. Depth - 1
      BY <1>0, <2>1
    <2>3. QED
      BY <1>2, <2>1, <2>2, PopTraces DEF SilentCalls
  <1>3. CASE Move
    <2>1. /\ Depth' = Depth
          /\ \A e \in 1 .. Depth - 1 : frames'[e] = frames[e]
          /\ frames'[Depth].track = frames[Depth].track
      BY <1>3, MoveKeeps
    <2>2. CASE d = Depth
      <3>1. TraceOf(d) = trace /\ TraceOf(d)' = trace' /\ trace' \subseteq trace
        BY <1>3, <2>1, <2>2 DEF TraceOf, Move, GuestTraces
      <3>2. QED
        BY <2>1, <2>2, <3>1 DEF SilentCalls
    <2>3. CASE d # Depth
      <3>1. d \in 1 .. Depth /\ d \in 1 .. Depth - 1 /\ d \in 0 .. Depth - 1
        BY <1>0, <2>1, <2>3
      <3>2. QED
        BY <1>3, <2>1, <3>1, MoveTraces DEF SilentCalls
    <2>4. QED
      BY <2>2, <2>3
  <1>4. CASE Keep
    <2>1. frames' = frames /\ Depth' = Depth
      BY <1>4 DEF Keep, Depth
    <2>2. CASE d = Depth
      <3>1. TraceOf(d) = trace /\ TraceOf(d)' = trace' /\ trace' \subseteq trace
        BY <1>4, <2>1, <2>2 DEF TraceOf, Keep, GuestTraces
      <3>2. QED
        BY <2>1, <2>2, <3>1 DEF SilentCalls
    <2>3. CASE d # Depth
      <3>1. d \in 1 .. Depth /\ d \in 0 .. Depth - 1
        BY <1>0, <2>1, <2>3
      <3>2. QED
        BY <1>4, <2>1, <3>1, KeepTraces DEF SilentCalls
    <2>4. QED
      BY <2>2, <2>3
  <1>5. QED
    BY <1>0, <1>1, <1>2, <1>3, <1>4

\* ExecutionScope's choice of the mask: if no instruction of the guest
\* switches tracing on, a call on the cache track produces no trace output,
\* whatever mask is configured meanwhile, whichever track encloses it, and
\* when it goes on after a call on the debug track nested in it.
THEOREM CacheTrackIsSilent ==
    ASSUME QuietGuest
    PROVE  Spec => []CacheTrackSilent
  <1>1. Init => CallsInv /\ SilentCalls
    <2>1. Init => SilentCalls
      BY DEF Init, SilentCalls, Depth
    <2>2. QED
      BY <2>1, CallsInit
  <1>2. CallsInv /\ SilentCalls /\ [Next]_vars => (CallsInv /\ SilentCalls)'
    BY CallsStep, SilentStep
  <1>3. CallsInv /\ SilentCalls => CacheTrackSilent
    <2> SUFFICES ASSUME CallsInv, SilentCalls, frames # <<>>, Top.track = "cache"
                 PROVE  trace = {}
      BY DEF CacheTrackSilent
    <2>1. Depth \in 1 .. Depth
      BY TopType DEF CallsInv
    <2>2. QED
      BY <2>1 DEF SilentCalls, TraceOf, Top
  <1>4. QED
    BY <1>1, <1>2, <1>3, PTL DEF Spec

-----------------------------------------------------------------------------
(***************************************************************************)
(* The visitor list follows the mask.                                      *)
(***************************************************************************)
Visitors == {"auditor", "disasm", "simulator"}
Quiet == <<"auditor", "simulator">>
Loud == <<"auditor", "disasm", "simulator">>

LEMMA Lists ==
    /\ Quiet \in Seq(Visitors) /\ Len(Quiet) = 2
    /\ Quiet[1] = "auditor" /\ Quiet[2] = "simulator"
    /\ Loud \in Seq(Visitors) /\ Len(Loud) = 3
    /\ Loud[1] = "auditor" /\ Loud[2] = "disasm" /\ Loud[3] = "simulator"
  BY DEF Quiet, Loud, Visitors

\* One element of a list, as a list.
LEMMA Single ==
    ASSUME NEW list \in Seq(Visitors), NEW k \in 1 .. Len(list)
    PROVE  /\ SubSeq(list, k, k) \in Seq(Visitors) /\ Len(SubSeq(list, k, k)) = 1
           /\ SubSeq(list, k, k)[1] = list[k]
  <1>1. k \in Int /\ \A i \in k .. k : list[i] \in Visitors
    OBVIOUS
  <1>2. 1 \in 1 .. k - k + 1 /\ k - k + 1 = 1 /\ k + 1 - 1 = k
    BY <1>1
  <1>3. /\ SubSeq(list, k, k) \in Seq(Visitors)
        /\ Len(SubSeq(list, k, k)) = IF k <= k THEN k - k + 1 ELSE 0
        /\ \A i \in 1 .. k - k + 1 : SubSeq(list, k, k)[i] = list[k + i - 1]
    BY <1>1, SubSeqProperties
  <1>4. QED
    BY <1>1, <1>2, <1>3

\* Two lists of length 1, one after the other.
LEMMA Couple ==
    ASSUME NEW a \in Seq(Visitors), NEW b \in Seq(Visitors), Len(a) \in 1 .. 2, Len(b) = 1
    PROVE  /\ a \o b \in Seq(Visitors) /\ Len(a \o b) = Len(a) + 1
           /\ (a \o b)[1] = a[1] /\ (a \o b)[Len(a) + 1] = b[1]
           /\ Len(a) = 2 => (a \o b)[2] = a[2]
  <1>1. /\ a \o b \in Seq(Visitors) /\ Len(a \o b) = Len(a) + Len(b)
        /\ \A i \in 1 .. Len(a) + Len(b) :
              (a \o b)[i] = IF i <= Len(a) THEN a[i] ELSE b[i - Len(a)]
    BY ConcatProperties
  <1>2. QED
    BY <1>1

LEMMA Removed == RemoveVisitor(Loud, "disasm") = Quiet
  <1>1. {i \in 1 .. Len(Loud) : Loud[i] = "disasm"} = {2} /\ Min({2}) = 2
    BY Lists DEF Min
  <1> DEFINE I == {i \in 1 .. Len(Loud) : Loud[i] = "disasm"}
  <1>a. (\E i \in 1 .. Len(Loud) : Loud[i] = "disasm") /\ I # {}
    BY <1>1, Lists
  <1>b. SelectInSeq(Loud, LAMBDA v : v = "disasm") = IF I # {} THEN Min(I) ELSE 0
    BY DEF SelectInSeq
  <1>c. RemoveVisitor(Loud, "disasm") = RemoveAt(Loud, Min(I))
    BY <1>a, <1>b DEF RemoveVisitor, RemoveFirst
  <1>d. Min(I) = 2
    BY <1>1
  <1> HIDE DEF I
  <1>e. RemoveVisitor(Loud, "disasm") = RemoveAt(Loud, 2)
    BY <1>c, <1>d
  <1>2. RemoveVisitor(Loud, "disasm") = SubSeq(Loud, 1, 1) \o SubSeq(Loud, 3, 3)
    <2>1. 2 - 1 = 1 /\ 2 + 1 = 3 /\ Len(Loud) = 3
      BY Lists
    <2>2. QED
      BY <1>e, <2>1 DEF RemoveAt
  <1> DEFINE a == SubSeq(Loud, 1, 1)
             b == SubSeq(Loud, 3, 3)
  <1>3. /\ a \in Seq(Visitors) /\ Len(a) = 1 /\ a[1] = "auditor"
        /\ b \in Seq(Visitors) /\ Len(b) = 1 /\ b[1] = "simulator"
    BY Lists, Single
  <1> HIDE DEF a, b
  <1>4. /\ a \o b \in Seq(Visitors) /\ Len(a \o b) = 2
        /\ (a \o b)[1] = "auditor" /\ (a \o b)[2] = "simulator"
    BY <1>3, Couple
  <1>5. a \o b = Quiet
    <2>1. \A i \in 1 .. 2 : (a \o b)[i] = Quiet[i]
      BY <1>4, Lists
    <2>2. QED
      BY <1>4, <2>1, Lists, SeqEqual
  <1>6. QED
    BY <1>2, <1>5 DEF a, b

LEMMA Inserted == InsertVisitorBefore(Quiet, "disasm", "simulator") = Loud
  <1>1. {i \in 1 .. Len(Quiet) : Quiet[i] = "simulator"} = {2} /\ Min({2}) = 2
    BY Lists DEF Min
  <1> DEFINE a == SubSeq(Quiet, 1, 1)
             m == <<"disasm">>
             b == SubSeq(Quiet, 2, 2)
  <1> DEFINE I == {i \in 1 .. Len(Quiet) : Quiet[i] = "simulator"}
  <1>a. SelectInSeq(Quiet, LAMBDA v : v = "simulator") = IF I # {} THEN Min(I) ELSE 0
    BY DEF SelectInSeq
  <1>b. InsertVisitorBefore(Quiet, "disasm", "simulator")
          = InsertAt(Quiet, IF I # {} THEN Min(I) ELSE 0, "disasm")
    BY <1>a DEF InsertVisitorBefore
  <1>c. (IF I # {} THEN Min(I) ELSE 0) = 2
    BY <1>1
  <1> HIDE DEF I
  <1>d. InsertVisitorBefore(Quiet, "disasm", "simulator") = InsertAt(Quiet, 2, "disasm")
    BY <1>b, <1>c
  <1>2. InsertVisitorBefore(Quiet, "disasm", "simulator") = a \o m \o b
    <2>1. 2 - 1 = 1 /\ Len(Quiet) = 2
      BY Lists
    <2>2. QED
      BY <1>d, <2>1 DEF InsertAt
  <1>3. /\ a \in Seq(Visitors) /\ Len(a) = 1 /\ a[1] = "auditor"
        /\ b \in Seq(Visitors) /\ Len(b) = 1 /\ b[1] = "simulator"
        /\ m \in Seq(Visitors) /\ Len(m) = 1 /\ m[1] = "disasm"
    BY Lists, Single DEF Visitors
  <1> HIDE DEF a, m, b
  <1> DEFINE am == a \o m
  <1>4. /\ am \in Seq(Visitors) /\ Len(am) = 2
        /\ am[1] = "auditor" /\ am[2] = "disasm"
    BY <1>3, Couple
  <1> HIDE DEF am
  <1>5. /\ am \o b \in Seq(Visitors) /\ Len(am \o b) = 3
        /\ (am \o b)[1] = "auditor" /\ (am \o b)[2] = "disasm"
        /\ (am \o b)[3] = "simulator"
    <2>1. Len(am) + 1 = 3 /\ Len(am) \in 1 .. 2
      BY <1>4
    <2>2. /\ am \o b \in Seq(Visitors) /\ Len(am \o b) = Len(am) + 1
          /\ (am \o b)[1] = am[1] /\ (am \o b)[Len(am) + 1] = b[1]
          /\ Len(am) = 2 => (am \o b)[2] = am[2]
      BY <1>3, <1>4, <2>1, Couple
    <2>3. QED
      BY <1>3, <1>4, <2>1, <2>2
  <1>6. am \o b = Loud
    <2>1. \A i \in 1 .. 3 : (am \o b)[i] = Loud[i]
      BY <1>5, Lists
    <2>2. QED
      BY <1>5, <2>1, Lists, SeqEqual
  <1>7. QED
    BY <1>2, <1>6 DEF am

LEMMA SetTraceOrders ==
    ASSUME VisitorOrder, NEW m, SetTraceParameters(m)
    PROVE  VisitorOrder'
  <1>1. /\ trace' = m
        /\ visitors = IF "LOG_DISASM" \in trace THEN Loud ELSE Quiet
    BY DEF SetTraceParameters, VisitorOrder, Loud, Quiet
  <1>2. CASE "LOG_DISASM" \in m \ trace
    <2>1. visitors' = Loud
      BY <1>1, <1>2, Inserted DEF SetTraceParameters
    <2>2. QED
      BY <1>1, <1>2, <2>1 DEF VisitorOrder, Loud
  <1>3. CASE "LOG_DISASM" \in trace \ m
    <2>1. visitors' = Quiet
      BY <1>1, <1>3, Removed DEF SetTraceParameters
    <2>2. QED
      BY <1>1, <1>3, <2>1 DEF VisitorOrder, Quiet
  <1>4. CASE ~("LOG_DISASM" \in m \ trace) /\ ~("LOG_DISASM" \in trace \ m)
    <2>1. visitors' = visitors
      BY <1>4 DEF SetTraceParameters
    <2>2. QED
      BY <1>1, <1>4, <2>1 DEF VisitorOrder, Loud, Quiet
  <1>5. QED
    BY <1>2, <1>3, <1>4

LEMMA EnterTraces ==
    ASSUME NEW track, NEW kind, NEW entry_pc, Enter(track, kind, entry_pc)
    PROVE  UNCHANGED <<trace, visitors>> \/ \E m : SetTraceParameters(m)
  BY DEF Enter, Abort

LEMMA InstructionTraces ==
    ASSUME ExecuteInstruction
    PROVE  UNCHANGED <<trace, visitors>> \/ \E m : SetTraceParameters(m)
  <1>1. CASE FetchFault \/ LandingFault \/ BtiFault \/ VisitUnallocated
    BY <1>1 DEF FetchFault, LandingFault, BtiFault, VisitUnallocated, Abort
  <1>2. CASE ExecutePlain \/ ExecuteMov \/ ExecuteStore \/ VisitUnconditionalBranch
             \/ VisitConditionalBranch
    BY <1>2 DEF ExecutePlain, ExecuteMov, ExecuteStore, VisitUnconditionalBranch,
                VisitConditionalBranch
  <1>3. CASE DoTrace
    BY <1>3 DEF DoTrace
  <1>4. CASE VisitUnimplemented
    BY <1>4 DEF VisitUnimplemented, Abort
  <1>5. CASE VisitUnconditionalBranchToRegister
    BY <1>5 DEF VisitUnconditionalBranchToRegister, Abort
  <1>6. QED
    BY <1>1, <1>2, <1>3, <1>4, <1>5 DEF ExecuteInstruction

LEMMA OrderStep == VisitorOrder /\ [Next]_vars => VisitorOrder'
  <1> SUFFICES ASSUME VisitorOrder, [Next]_vars PROVE VisitorOrder'
    OBVIOUS
  <1>1. UNCHANGED <<trace, visitors>> \/ \E m : SetTraceParameters(m)
    <2>1. ASSUME NEW track, NEW kind, TopLevelCall(track, kind) \/ NestedCall(track, kind)
          PROVE  UNCHANGED <<trace, visitors>> \/ \E m : SetTraceParameters(m)
      BY <2>1, EnterTraces DEF TopLevelCall, NestedCall
    <2>2. CASE Leave
      BY <2>2 DEF Leave
    <2>3. CASE ExecuteInstruction
      BY <2>3, InstructionTraces
    <2>4. ASSUME NEW depth, ReturnFromHook(depth) \/ ReturnFromObserver(depth)
          PROVE  UNCHANGED <<trace, visitors>>
      BY <2>4 DEF ReturnFromHook, ReturnFromObserver, Abort
    <2>5. CASE WriteLr \/ WritePcRegister \/ WriteBType \/ Configure \/ Dead
               \/ UNCHANGED vars
      BY <2>5 DEF WriteLr, WritePcRegister, WriteBType, Configure, Dead, vars
    <2>6. QED
      BY <2>1, <2>2, <2>3, <2>4, <2>5 DEF Next
  <1>2. CASE UNCHANGED <<trace, visitors>>
    BY <1>2 DEF VisitorOrder
  <1>3. QED
    BY <1>1, <1>2, SetTraceOrders

LEMMA OrderInit == Init => VisitorOrder
  BY DEF Init, VisitorOrder

\* SetTraceParameters and ExecutionScope: for any guest that switches tracing
\* and any masks the embedder configures, at any depth, the decoder calls the
\* disassembler if and only if LOG_DISASM is in force and before the
\* Simulator, and no tracing is left behind when no call is in progress.
THEOREM TracingStaysConsistent == Spec => []TracingConsistent
  <1>1. Init => CallsInv /\ NoTraceBelow /\ VisitorOrder
    BY CallsInit, NoTraceInit, OrderInit
  <1>2. CallsInv /\ NoTraceBelow /\ VisitorOrder /\ [Next]_vars
          => (CallsInv /\ NoTraceBelow /\ VisitorOrder)'
    BY CallsStep, NoTraceStep, OrderStep
  <1>3. CallsInv /\ NoTraceBelow /\ VisitorOrder => TracingConsistent
    <2>1. frames = <<>> /\ NoTraceBelow => trace = {}
      BY DEF NoTraceBelow, TraceOf, Depth
    <2>2. QED
      BY <2>1 DEF TracingConsistent, TraceRestored
  <1>4. QED
    BY <1>1, <1>2, <1>3, PTL DEF Spec

-----------------------------------------------------------------------------
(***************************************************************************)
(* Types.                                                                  *)
(***************************************************************************)
Reasons == {"no", "no cache", "unmapped", "btype", "movprfx", "unallocated",
            "unimplemented", "authentication", "gcs", "misaligned"}

\* What CallsTyped leaves out: the Guarded Control Stack and the abort.
RestTyped == gcs \in Seq(Words) /\ aborted \in Reasons

LEMMA AbortRest ==
    ASSUME RestTyped, NEW why \in Reasons, Abort(why)
    PROVE  RestTyped'
  BY DEF RestTyped, Abort

LEMMA CompleteRest ==
    ASSUME RestTyped, NEW c, NEW m, Complete(c, m)
    PROVE  aborted' \in Reasons
  BY DEF RestTyped, Complete, Reasons

LEMMA BranchRest ==
    ASSUME RestTyped, NEW c, NEW target, NEW link, GabyHookedWritePc(c, target, link)
    PROVE  aborted' \in Reasons
  <1>1. CASE config.hook
    BY <1>1 DEF GabyHookedWritePc, CallOut, RestTyped
  <1>2. CASE ~config.hook
    BY <1>2, CompleteRest DEF GabyHookedWritePc
  <1>3. QED
    BY <1>1, <1>2

LEMMA GcsTypes ==
    ASSUME NEW q \in Seq(Words), NEW a \in Words
    PROVE  /\ Append(q, a) \in Seq(Words)
           /\ q # <<>> => Front(q) \in Seq(Words)
  <1>1. Append(q, a) \in Seq(Words)
    OBVIOUS
  <1>2. ASSUME q # <<>> PROVE Front(q) \in Seq(Words)
    <2>1. Len(q) - 1 \in Int /\ 1 \in Int /\ \A i \in 1 .. Len(q) - 1 : q[i] \in Words
      OBVIOUS
    <2>2. QED
      BY <2>1, SubSeqProperties DEF Front
  <1>3. QED
    BY <1>1, <1>2

LEMMA InstructionRest ==
    ASSUME CallsTyped, RestTyped, ExecuteInstruction
    PROVE  RestTyped'
  <1>0. /\ gcs \in Seq(Words) /\ regs \in [Regs -> Words] /\ "lr" \in Regs
        /\ {"unmapped", "btype", "unallocated", "unimplemented",
            "authentication", "gcs"} \subseteq Reasons
    BY ProgramAssumption DEF RestTyped, CallsTyped, Reasons
  <1>1. CASE FetchFault \/ LandingFault \/ BtiFault \/ VisitUnallocated
    BY <1>0, <1>1, AbortRest DEF FetchFault, LandingFault, BtiFault, VisitUnallocated
  <1>2. CASE ExecutePlain
    BY <1>2, CompleteRest DEF ExecutePlain, RestTyped
  <1>3. CASE ExecuteMov
    BY <1>3, CompleteRest DEF ExecuteMov, RestTyped
  <1>4. CASE ExecuteStore
    BY <1>4, CompleteRest DEF ExecuteStore, RestTyped, CallOut
  <1>5. CASE DoTrace
    BY <1>5, CompleteRest DEF DoTrace, RestTyped
  <1>6. CASE VisitUnimplemented
    <2>1. CASE ReleaseBuild
      BY <1>6, <2>1, CompleteRest DEF VisitUnimplemented, RestTyped
    <2>2. CASE ~ReleaseBuild
      BY <1>0, <1>6, <2>2, AbortRest DEF VisitUnimplemented
    <2>3. QED
      BY <2>1, <2>2
  <1>7. CASE VisitUnconditionalBranch
    <2> DEFINE lr == IF Code[cur.pc].op = "bl" THEN cur.pc + 1 ELSE regs["lr"]
    <2>1. lr \in Words
      <3>1. cur.pc \in DOMAIN Code
        BY <1>7 DEF VisitUnconditionalBranch, Executing, Mapped
      <3>2. QED
        BY <1>0, <3>1, CodeWords
    <2>2. /\ gcs' = IF Code[cur.pc].op = "bl" THEN Append(gcs, lr) ELSE gcs
          /\ GabyHookedWritePc(Fetched, Code[cur.pc].target, lr)
      BY <1>7 DEF VisitUnconditionalBranch
    <2> HIDE DEF lr
    <2>3. QED
      BY <1>0, <2>1, <2>2, GcsTypes, BranchRest DEF RestTyped
  <1>8. CASE VisitConditionalBranch
    BY <1>8, CompleteRest, BranchRest DEF VisitConditionalBranch, RestTyped
  <1>9. CASE VisitUnconditionalBranchToRegister
    <2> DEFINE insn == Code[cur.pc]
               addr == regs[insn.rn]
               lr == IF insn.op = "blr" THEN cur.pc + 1 ELSE regs["lr"]
               c == [Fetched EXCEPT !.next_btype = GetBTypeFromInstruction(insn)]
    <2>1. lr \in Words
      <3>1. cur.pc \in DOMAIN Code
        BY <1>9 DEF VisitUnconditionalBranchToRegister, Executing, Mapped
      <3>2. QED
        BY <1>0, <3>1, CodeWords
    <2>2. \/ Abort("authentication") \/ Abort("gcs")
          \/ gcs' = GcsAfter(insn, lr) /\ GabyHookedWritePc(c, addr, lr)
      BY <1>9 DEF VisitUnconditionalBranchToRegister
    <2> HIDE DEF lr, addr, c, insn
    <2>3. CASE Abort("authentication") \/ Abort("gcs")
      BY <1>0, <2>3, AbortRest
    <2>4. CASE gcs' = GcsAfter(insn, lr) /\ GabyHookedWritePc(c, addr, lr)
      <3>1. GcsAfter(insn, lr) \in Seq(Words)
        BY <1>0, <2>1, GcsTypes DEF GcsAfter
      <3>2. QED
        BY <2>4, <3>1, BranchRest DEF RestTyped
    <2>5. QED
      BY <2>2, <2>3, <2>4
  <1>10. QED
    BY <1>1, <1>2, <1>3, <1>4, <1>5, <1>6, <1>7, <1>8, <1>9 DEF ExecuteInstruction

LEMMA RestStep == CallsInv /\ RestTyped /\ [Next]_vars => RestTyped'
  <1> SUFFICES ASSUME CallsInv, RestTyped, [Next]_vars PROVE RestTyped'
    OBVIOUS
  <1>0. "no cache" \in Reasons /\ "misaligned" \in Reasons
    BY DEF Reasons
  <1>1. ASSUME NEW track, NEW kind, NEW entry_pc, Enter(track, kind, entry_pc)
        PROVE  RestTyped'
    <2>1. CASE track = "cache" /\ ~config.cache
      BY <1>0, <1>1, <2>1, AbortRest DEF Enter
    <2>2. CASE ~(track = "cache" /\ ~config.cache)
      BY <1>1, <2>2 DEF Enter, RestTyped
    <2>3. QED
      BY <2>1, <2>2
  <1>2. ASSUME NEW track, NEW kind, TopLevelCall(track, kind) \/ NestedCall(track, kind)
        PROVE  RestTyped'
    BY <1>1, <1>2 DEF TopLevelCall, NestedCall
  <1>3. CASE Leave
    BY <1>3 DEF Leave, RestTyped
  <1>4. CASE ExecuteInstruction
    BY <1>4, InstructionRest DEF CallsInv
  <1>5. ASSUME NEW depth, ReturnFromHook(depth)
        PROVE  RestTyped'
    <2>1. CASE Abort("misaligned")
      BY <1>0, <2>1, AbortRest
    <2>2. CASE ~Abort("misaligned")
      <3>1. PICK next_pc :
               /\ Complete(WritePc(cur, next_pc), Top.last_instr_was_movprfx)
               /\ UNCHANGED gcs
        BY <1>5, <2>2 DEF ReturnFromHook
      <3>2. QED
        BY <3>1, CompleteRest DEF RestTyped
    <2>3. QED
      BY <2>1, <2>2
  <1>6. ASSUME NEW depth, ReturnFromObserver(depth)
        PROVE  RestTyped'
    BY <1>6, CompleteRest DEF ReturnFromObserver, RestTyped
  <1>7. CASE WriteLr \/ WritePcRegister \/ WriteBType \/ Configure \/ Dead
             \/ UNCHANGED vars
    BY <1>7 DEF WriteLr, WritePcRegister, WriteBType, Configure, Dead, vars, RestTyped
  <1>8. QED
    BY <1>2, <1>3, <1>4, <1>5, <1>6, <1>7 DEF Next

\* The Simulator's state keeps its type for any program and embedder: the PC
\* never runs past the mapped words, the Guarded Control Stack holds word
\* addresses, and the process aborts only for one of the listed reasons.
THEOREM TypeCorrect == Spec => []TypeOK
  <1>1. Init => CallsInv /\ VisitorOrder /\ RestTyped
    <2>1. Init => RestTyped
      BY DEF Init, RestTyped, Reasons
    <2>2. QED
      BY <2>1, CallsInit, OrderInit
  <1>2. CallsInv /\ VisitorOrder /\ RestTyped /\ [Next]_vars
          => (CallsInv /\ VisitorOrder /\ RestTyped)'
    BY CallsStep, OrderStep, RestStep
  <1>3. CallsInv /\ VisitorOrder /\ RestTyped => TypeOK
    <2> SUFFICES ASSUME CallsInv, VisitorOrder, RestTyped PROVE TypeOK
      OBVIOUS
    <2>1. visitors \in Seq({"auditor", "disasm", "simulator"})
      BY Lists DEF VisitorOrder, Loud, Quiet, Visitors
    <2>2. QED
      BY <2>1 DEF CallsInv, CallsTyped, RestTyped, Reasons, TypeOK, Masks
  <1>4. QED
    BY <1>1, <1>2, <1>3, PTL DEF Spec

-----------------------------------------------------------------------------
(***************************************************************************)
(* What an instruction leaves pending for the next one.                    *)
(***************************************************************************)

\* The guest follows every MOVPRFX with an instruction that takes it.
Paired ==
    \A a \in DOMAIN Code :
        Code[a].op = "movprfx" => a + 1 \in DOMAIN Code /\ Code[a + 1].op = "sve"

\* The Simulator is at that instruction when its last one was a MOVPRFX.
Chain ==
    cur.form_hash = "movprfx" => cur.pc \in DOMAIN Code /\ Code[cur.pc].op = "sve"

Indirect == {"br", "blr", "ret"}

\* A leaf that calls the hook has staged the BType of its target.
Staged(f) ==
    f.phase = "hook" /\ Code[f.inflight.pc].op \in Indirect =>
        f.inflight.next_btype = GetBTypeFromInstruction(Code[f.inflight.pc])

\* The topmost call between two instructions, and in a callback.
Settled ==
    /\ aborted # "movprfx"
    /\ Top.phase = "ready" => Chain
    /\ Top.phase \in Callout =>
          /\ cur.form_hash # "movprfx" /\ Top.last_instr_was_movprfx = FALSE
          /\ Staged(Top)

\* Every call below the topmost one is in a callback, and no callback
\* interrupts a MOVPRFX pair.
PendingInv ==
    /\ aborted # "movprfx"
    /\ frames = <<>> => cur.form_hash # "movprfx"
    /\ frames # <<>> => frames[1].kind = "run" /\ (Top.phase = "ready" => Chain)
    /\ \A d \in 1 .. Depth - 1 : frames[d].phase \in Callout
    /\ \A d \in 1 .. Depth : frames[d].phase \in Callout =>
          /\ CursorOf(d).form_hash # "movprfx"
          /\ frames[d].last_instr_was_movprfx = FALSE
          /\ Staged(frames[d])

LEMMA NewTop ==
    ASSUME CallsTyped, frames # <<>>, NEW f \in Frame,
           frames' = [frames EXCEPT ![Depth] = f]
    PROVE  Depth' = Depth /\ Top' = f
  BY ReplaceTop DEF Depth, Top

LEMMA CompleteSettles ==
    ASSUME Paired, CallsTyped, frames # <<>>, aborted # "movprfx",
           NEW c \in Cursor, NEW m \in BOOLEAN, Complete(c, m),
           m => c.form_hash = "sve",
           c.form_hash = "movprfx" =>
              /\ c.pc_modified = FALSE /\ c.pc \in DOMAIN Code
              /\ Code[c.pc].op = "movprfx"
    PROVE  Settled'
  <1> DEFINE p == IF Top.kind = "step" THEN "done" ELSE "ready"
             f == [Top EXCEPT !.phase = p, !.previous = cur.pc]
  <1>1. /\ cur' = UpdateBType(IncrementPc([c EXCEPT !.last_instr = c.pc]))
        /\ frames' = [frames EXCEPT ![Depth] = [@ EXCEPT !.phase = p, !.previous = cur.pc]]
        /\ aborted' = aborted
    BY DEF Complete, CanTakeSVEMovprfx
  <1>2. f \in Frame /\ f.phase = p
    <2>1. Top \in Frame /\ p \in {"ready", "hook", "observer", "done"} /\ cur.pc \in Words
      BY TopType DEF CallsTyped, Cursor
    <2> HIDE DEF p
    <2>2. QED
      BY <2>1 DEF Frame
  <1>3. frames' = [frames EXCEPT ![Depth] = f]
    BY <1>1, TopType DEF Top
  <1>4. Top' = f
    <2> HIDE DEF f
    <2>1. QED
      BY <1>2, <1>3, NewTop
  <1>5. Top'.phase \notin Callout
    BY <1>2, <1>4 DEF Callout
  <1>6. Chain'
    <2>1. /\ cur'.form_hash = c.form_hash
          /\ c.pc_modified = FALSE => cur'.pc = c.pc + 1
      BY <1>1 DEF Cursor, UpdateBType, IncrementPc
    <2>2. QED
      BY <2>1 DEF Chain, Paired
  <1>7. QED
    BY <1>1, <1>5, <1>6 DEF Settled

LEMMA CallOutSettles ==
    ASSUME CallsTyped, frames # <<>>, aborted # "movprfx", ~WasMovprfx,
           NEW c \in Cursor, c.form_hash # "movprfx",
           NEW phase \in Callout, NEW target \in Words, NEW link \in Words,
           phase = "hook" /\ Code[c.pc].op \in Indirect =>
              c.next_btype = GetBTypeFromInstruction(Code[c.pc]),
           CallOut(c, phase, target, link)
    PROVE  Settled'
  <1> DEFINE f == [Top EXCEPT !.phase = phase, !.target = target, !.lr = link,
                              !.last_instr_was_movprfx = WasMovprfx,
                              !.inflight = c]
  <1>1. WasMovprfx = FALSE
    BY DEF WasMovprfx
  <1>2. /\ f \in Frame /\ f.phase = phase /\ f.inflight = c
        /\ f.last_instr_was_movprfx = FALSE
    <2>1. Top \in Frame /\ phase \in {"ready", "hook", "observer", "done"}
      BY TopType DEF Callout
    <2>2. QED
      BY <1>1, <2>1 DEF Frame
  <1>3. cur' = c /\ aborted' = aborted /\ frames' = [frames EXCEPT ![Depth] = f]
    BY TopType DEF CallOut, Top
  <1> HIDE DEF f
  <1>4. Top' = f
    BY <1>2, <1>3, NewTop
  <1>5. Staged(f)
    BY <1>2 DEF Staged
  <1>6. Staged(Top)'
    BY <1>4, <1>5 DEF Staged
  <1>7. QED
    BY <1>2, <1>3, <1>4, <1>6 DEF Settled, Callout

LEMMA BranchSettles ==
    ASSUME Paired, CallsTyped, frames # <<>>, aborted # "movprfx", ~WasMovprfx,
           NEW c \in Cursor, c.form_hash # "movprfx",
           NEW target \in Words, NEW link \in Words,
           Code[c.pc].op \in Indirect =>
              c.next_btype = GetBTypeFromInstruction(Code[c.pc]),
           GabyHookedWritePc(c, target, link)
    PROVE  Settled'
  <1>1. CASE config.hook
    BY <1>1, CallOutSettles DEF GabyHookedWritePc, Callout
  <1>2. CASE ~config.hook
    <2>1. Complete(WritePc(c, target), WasMovprfx)
      BY <1>2 DEF GabyHookedWritePc
    <2>2. WritePc(c, target) \in Cursor /\ WritePc(c, target).form_hash = c.form_hash
      BY WritePcType DEF WritePc, Cursor
    <2>3. QED
      BY <2>1, <2>2, MovprfxType, CompleteSettles
  <1>3. QED
    BY <1>1, <1>2

LEMMA AbortSettles ==
    ASSUME NEW why, why # "movprfx", Abort(why), Top.phase = "ready", Chain
    PROVE  Settled'
  <1>1. Top' = Top /\ cur' = cur /\ aborted' # "movprfx"
    BY DEF Abort, Top, Depth
  <1>2. Chain' /\ Top'.phase \notin Callout
    BY <1>1 DEF Chain, Callout
  <1>3. QED
    BY <1>1, <1>2 DEF Settled

LEMMA InstructionSettles ==
    ASSUME Paired, CallsTyped, aborted # "movprfx", ExecuteInstruction,
           Top.phase = "ready" => Chain
    PROVE  Settled'
  <1>a. /\ Stepping /\ frames # <<>> /\ Top.phase = "ready" /\ Chain
        /\ regs \in [Regs -> Words] /\ "lr" \in Regs
    BY ProgramAssumption
    DEF ExecuteInstruction, FetchFault, LandingFault, BtiFault, ExecutePlain, ExecuteMov,
        ExecuteStore, DoTrace, VisitUnallocated, VisitUnimplemented,
        VisitUnconditionalBranch, VisitConditionalBranch,
        VisitUnconditionalBranchToRegister, Executing, Stepping, CallsTyped
  <1>b. ASSUME NEW ops, Executing(ops)
        PROVE  /\ Fetched \in Cursor /\ cur.pc \in DOMAIN Code
               /\ Fetched.pc = cur.pc /\ Fetched.form_hash = Code[cur.pc].op
               /\ Fetched.pc_modified = FALSE /\ Code[cur.pc].op \in ops
               /\ WasMovprfx => Code[cur.pc].op = "sve"
               /\ Code[cur.pc] \in Insn
    <2>1. Fetched \in Cursor /\ cur.pc \in DOMAIN Code /\ Fetched.pc = cur.pc
          /\ Code[cur.pc] \in Insn
      BY <1>b, ExecutingFinds
    <2>2. Fetched.form_hash = Code[cur.pc].op /\ Fetched.pc_modified = FALSE
      BY DEF Fetched, CallsTyped, Cursor
    <2>3. QED
      BY <1>a, <1>b, <2>1, <2>2 DEF Executing, WasMovprfx, Chain
  <1>c. ASSUME NEW ops, Executing(ops), Complete(Fetched, WasMovprfx)
        PROVE  Settled'
    BY <1>a, <1>b, <1>c, MovprfxType, CompleteSettles
  <1>d. ASSUME NEW ops, "sve" \notin ops, "movprfx" \notin ops, Executing(ops)
        PROVE  ~WasMovprfx /\ Fetched.form_hash # "movprfx"
    BY <1>b, <1>d
  <1>1. CASE FetchFault \/ LandingFault \/ BtiFault \/ VisitUnallocated
    BY <1>1, <1>a, AbortSettles DEF FetchFault, LandingFault, BtiFault, VisitUnallocated
  <1>2. CASE ExecutePlain \/ ExecuteMov
    BY <1>2, <1>c DEF ExecutePlain, ExecuteMov
  <1>3. CASE ExecuteStore
    <2>1. CASE config.observer
      <3>1. CallOut(Fetched, "observer", 0, regs["lr"]) /\ Executing({"store"})
        BY <1>3, <2>1 DEF ExecuteStore
      <3>2. regs["lr"] \in Words /\ 0 \in Words /\ "observer" \in Callout
        BY <1>a, CodeWords DEF Callout
      <3>3. QED
        BY <1>a, <1>b, <1>d, <3>1, <3>2, CallOutSettles
    <2>2. CASE ~config.observer
      BY <1>3, <2>2, <1>c DEF ExecuteStore
    <2>3. QED
      BY <2>1, <2>2
  <1>4. CASE DoTrace
    <2>1. /\ Executing({"trace"})
          /\ Complete(WritePc(Fetched, cur.pc + kTraceLength), WasMovprfx)
      BY <1>4 DEF DoTrace
    <2>2. /\ Fetched \in Cursor /\ cur.pc + kTraceLength \in Words
          /\ ~WasMovprfx /\ Fetched.form_hash # "movprfx"
      BY <1>b, <1>d, <2>1, CodeWords
    <2>3. /\ WritePc(Fetched, cur.pc + kTraceLength) \in Cursor
          /\ WritePc(Fetched, cur.pc + kTraceLength).form_hash = Fetched.form_hash
      BY <2>2, WritePcType DEF WritePc, Cursor
    <2>4. QED
      BY <1>a, <2>1, <2>2, <2>3, MovprfxType, CompleteSettles
  <1>5. CASE VisitUnimplemented
    <2>1. CASE ReleaseBuild
      BY <1>5, <2>1, <1>c DEF VisitUnimplemented
    <2>2. CASE ~ReleaseBuild
      BY <1>5, <2>2, <1>a, AbortSettles DEF VisitUnimplemented
    <2>3. QED
      BY <2>1, <2>2
  <1>6. CASE VisitUnconditionalBranch
    <2> DEFINE lr == IF Code[cur.pc].op = "bl" THEN cur.pc + 1 ELSE regs["lr"]
    <2>1. Executing({"b", "bl"}) /\ GabyHookedWritePc(Fetched, Code[cur.pc].target, lr)
      BY <1>6 DEF VisitUnconditionalBranch
    <2>2. /\ Fetched \in Cursor /\ ~WasMovprfx /\ Fetched.form_hash # "movprfx"
          /\ Fetched.pc = cur.pc /\ Code[cur.pc].op \notin Indirect
          /\ cur.pc \in DOMAIN Code /\ Code[cur.pc].target \in Words
      <3>1. Fetched \in Cursor /\ Fetched.pc = cur.pc /\ cur.pc \in DOMAIN Code
            /\ Code[cur.pc] \in Insn /\ Code[cur.pc].op \in {"b", "bl"}
        BY <1>b, <2>1
      <3>2. ~WasMovprfx /\ Fetched.form_hash # "movprfx"
        BY <1>d, <2>1
      <3>3. QED
        BY <3>1, <3>2 DEF Indirect, Insn
    <2>3. lr \in Words
      BY <1>a, <2>2, CodeWords
    <2> HIDE DEF lr
    <2>4. QED
      BY <1>a, <2>1, <2>2, <2>3, BranchSettles
  <1>7. CASE VisitConditionalBranch
    <2>1. Executing({"bcond"})
      BY <1>7 DEF VisitConditionalBranch
    <2>2. CASE Complete(Fetched, WasMovprfx)
      BY <1>c, <2>1, <2>2
    <2>3. CASE GabyHookedWritePc(Fetched, Code[cur.pc].target, regs["lr"])
      <3>1. /\ Fetched \in Cursor /\ ~WasMovprfx /\ Fetched.form_hash # "movprfx"
            /\ Fetched.pc = cur.pc /\ Code[cur.pc].op \notin Indirect
            /\ Code[cur.pc].target \in Words /\ regs["lr"] \in Words
        <4>1. Fetched \in Cursor /\ Fetched.pc = cur.pc
              /\ Code[cur.pc] \in Insn /\ Code[cur.pc].op \in {"bcond"}
          BY <1>b, <2>1
        <4>2. ~WasMovprfx /\ Fetched.form_hash # "movprfx"
          BY <1>d, <2>1
        <4>3. QED
          BY <1>a, <4>1, <4>2 DEF Indirect, Insn
      <3>2. QED
        BY <1>a, <2>3, <3>1, BranchSettles
    <2>4. QED
      BY <1>7, <2>2, <2>3 DEF VisitConditionalBranch
  <1>8. CASE VisitUnconditionalBranchToRegister
    <2> DEFINE insn == Code[cur.pc]
               addr == regs[insn.rn]
               lr == IF insn.op = "blr" THEN cur.pc + 1 ELSE regs["lr"]
               c == [Fetched EXCEPT !.next_btype = GetBTypeFromInstruction(insn)]
    <2>1. /\ Executing({"br", "blr", "ret"})
          /\ \/ Abort("authentication") \/ Abort("gcs")
             \/ GabyHookedWritePc(c, addr, lr)
      BY <1>8 DEF VisitUnconditionalBranchToRegister
    <2>2. /\ Fetched \in Cursor /\ ~WasMovprfx /\ Fetched.form_hash # "movprfx"
          /\ Fetched.pc = cur.pc /\ cur.pc \in DOMAIN Code /\ insn.rn \in Regs
      BY <1>b, <1>d, <2>1 DEF Insn
    <2>3. lr \in Words /\ addr \in Words
      BY <1>a, <2>2, CodeWords
    <2>4. /\ c \in Cursor /\ c.form_hash = Fetched.form_hash /\ c.pc = cur.pc
          /\ c.next_btype = GetBTypeFromInstruction(insn)
      <3>1. GetBTypeFromInstruction(insn) \in BTypes
        BY DEF GetBTypeFromInstruction, BTypes, BranchAndLink, DefaultBType,
               BranchFromUnguardedOrToIP, BranchFromGuardedNotToIP
      <3>2. QED
        BY <2>2, <3>1 DEF Cursor
    <2>5. CASE GabyHookedWritePc(c, addr, lr)
      <3>1. Code[c.pc].op \in Indirect =>
              c.next_btype = GetBTypeFromInstruction(Code[c.pc])
        BY <2>4
      <3> HIDE DEF lr, addr, c, insn
      <3>2. QED
        BY <1>a, <2>2, <2>3, <2>4, <2>5, <3>1, BranchSettles
    <2>6. QED
      BY <1>a, <2>1, <2>5, AbortSettles
  <1>9. QED
    BY <1>1, <1>2, <1>3, <1>4, <1>5, <1>6, <1>7, <1>8 DEF ExecuteInstruction

\* A callback returns into its leaf; no MOVPRFX came before it.
LEMMA ReturnSettles ==
    ASSUME Paired, CallsInv, PendingInv, NEW depth,
           ReturnFromHook(depth) \/ ReturnFromObserver(depth)
    PROVE  Settled'
  <1>1. /\ CallsTyped /\ frames # <<>> /\ Top \in Frame /\ Top.phase \in Callout
        /\ cur \in Cursor /\ aborted # "movprfx" /\ Depth \in 1 .. Depth
    BY TopType DEF CallsInv, CallsTyped, ReturnFromHook, ReturnFromObserver,
                   InCallback, Callout, PendingInv
  <1>2. /\ cur.form_hash # "movprfx" /\ Top.last_instr_was_movprfx = FALSE
        /\ Staged(Top)
    BY <1>1 DEF PendingInv, Top, CursorOf
  <1>3. CASE ReturnFromObserver(depth)
    <2>1. Complete(cur, FALSE)
      BY <1>2, <1>3 DEF ReturnFromObserver
    <2>2. QED
      BY <1>1, <1>2, <2>1, CompleteSettles
  <1>4. CASE ReturnFromHook(depth)
    <2>1. CASE Abort("misaligned")
      <3>1. Top' = Top /\ cur' = cur /\ aborted' = "misaligned"
        BY <2>1 DEF Abort, Top, Depth
      <3>2. Staged(Top)'
        BY <1>2, <3>1 DEF Staged
      <3>3. QED
        BY <1>1, <1>2, <3>1, <3>2 DEF Settled, Callout
    <2>2. CASE ~Abort("misaligned")
      <3>1. PICK next_pc \in HookResults(Top.target) :
               next_pc # Misaligned /\ Complete(WritePc(cur, next_pc), FALSE)
        BY <1>2, <1>4, <2>2 DEF ReturnFromHook
      <3>2. next_pc \in Words
        BY <1>1, <3>1, EmbedderAssumption DEF HookResults, Frame
      <3>3. /\ WritePc(cur, next_pc) \in Cursor
            /\ WritePc(cur, next_pc).form_hash = cur.form_hash
        BY <1>1, <3>2, WritePcType DEF WritePc, Cursor
      <3>4. QED
        BY <1>1, <1>2, <3>1, <3>3, CompleteSettles
    <2>3. QED
      BY <2>1, <2>2
  <1>5. QED
    BY <1>3, <1>4

\* A step of the topmost call disturbs no other.
LEMMA MovePending ==
    ASSUME CallbackBType = FALSE, CallsInv, PendingInv, frames # <<>>, MoveKind, Settled'
    PROVE  PendingInv'
  <1>0. Depth \in Nat \ {0}
    BY TopType DEF CallsInv
  <1>1. /\ Depth' = Depth
        /\ \A d \in 1 .. Depth - 1 : frames'[d] = frames[d] /\ CursorOf(d)' = CursorOf(d)
        /\ frames'[Depth].kind = frames[Depth].kind
    <2>1. CASE Move
      BY <2>1, MoveKeeps
    <2>2. CASE Keep
      BY <2>2 DEF Keep, Depth, CursorOf
    <2>3. QED
      BY <2>1, <2>2 DEF MoveKind
  <1>2. frames' # <<>>
    BY <1>0, <1>1 DEF Depth
  <1>3. frames'[1].kind = "run"
    <2>1. frames[1].kind = "run"
      BY DEF PendingInv
    <2>2. 1 = Depth \/ 1 \in 1 .. Depth - 1
      BY <1>0
    <2>3. QED
      BY <1>1, <2>1, <2>2
  <1>4. \A d \in 1 .. Depth' - 1 : frames'[d].phase \in Callout
    BY <1>1 DEF PendingInv
  <1>5. ASSUME NEW d \in 1 .. Depth', frames'[d].phase \in Callout
        PROVE  /\ CursorOf(d)'.form_hash # "movprfx"
               /\ frames'[d].last_instr_was_movprfx = FALSE
               /\ Staged(frames[d])'
    <2>1. CASE d = Depth
      <3>1. CursorOf(d)' = cur' /\ Top' = frames'[d]
        BY <1>1, <2>1 DEF CursorOf, Top
      <3>2. QED
        BY <1>5, <3>1 DEF Settled, Staged
    <2>2. CASE d # Depth
      <3>1. d \in 1 .. Depth /\ d \in 1 .. Depth - 1
        BY <1>0, <1>1, <2>2
      <3>2. frames'[d] = frames[d] /\ CursorOf(d)' = CursorOf(d)
        BY <1>1, <3>1
      <3>3. /\ CursorOf(d).form_hash # "movprfx"
            /\ frames[d].last_instr_was_movprfx = FALSE /\ Staged(frames[d])
        BY <1>5, <3>1, <3>2 DEF PendingInv
      <3>4. QED
        BY <3>2, <3>3 DEF Staged
    <2>3. QED
      BY <2>1, <2>2
  <1>6. QED
    BY <1>2, <1>3, <1>4, <1>5 DEF PendingInv, Settled

\* A new call starts where no MOVPRFX is pending.
LEMMA EnterPending ==
    ASSUME CallsInv, PendingInv, NEW track \in {"cache", "debug"},
           NEW kind \in {"run", "step"}, NEW entry_pc \in Words \cup {None},
           frames = <<>> => kind = "run",
           frames = <<>> \/ Top.phase \in Callout,
           Enter(track, kind, entry_pc)
    PROVE  PendingInv'
  <1>1. CASE track = "cache" /\ ~config.cache
    <2>1. UNCHANGED <<cur, frames>> /\ aborted' # "movprfx"
      BY <1>1 DEF Enter, Abort
    <2>2. QED
      BY <2>1 DEF PendingInv, Depth, Top, Chain, CursorOf, Staged
  <1>2. CASE ~(track = "cache" /\ ~config.cache)
    <2>0. CallsTyped /\ Depth \in Nat /\ (frames = <<>> <=> Depth = 0) /\ cur \in Cursor
      BY DepthType DEF CallsInv, CallsTyped
    <2> DEFINE f == NewFrame(track, kind)
    <2>1. /\ frames' = Append(frames, f) /\ aborted' = aborted
          /\ cur' = IF entry_pc = None THEN cur ELSE WritePc(cur, entry_pc)
      BY <1>2 DEF Enter
    <2>2. f \in Frame /\ f.phase = "ready" /\ f.kind = kind
      BY ZeroCursorType, CodeWords
      DEF CallsInv, NewFrame, Frame, CallsTyped, GabySaveCursor, Masks
    <2> HIDE DEF f
    <2>3. cur.form_hash # "movprfx"
      <3>1. CASE frames = <<>>
        BY <3>1 DEF PendingInv
      <3>2. CASE frames # <<>>
        <4>1. Depth \in 1 .. Depth /\ CursorOf(Depth) = cur /\ frames[Depth].phase \in Callout
          BY <2>0, <3>2 DEF CursorOf, Top
        <4>2. QED
          BY <4>1 DEF PendingInv
      <3>3. QED
        BY <3>1, <3>2
    <2>4. cur'.form_hash # "movprfx"
      BY <2>0, <2>1, <2>3 DEF WritePc, Cursor
    <2>5. /\ Depth' = Depth + 1 /\ frames'[Depth + 1] = f
          /\ \A d \in 1 .. Depth : frames'[d] = frames[d]
      BY <2>0, <2>1, <2>2, AddTop DEF Depth
    <2>6. frames' # <<>> /\ Top' = f
      BY <2>0, <2>5 DEF Depth, Top
    <2>7. \A d \in 1 .. Depth : CursorOf(d)' = CursorOf(d)
      <3>1. Push
        <4>1. StepKind
          BY EnterKind DEF CallsInv
        <4>2. ~Pop /\ ~Move /\ ~Keep
          BY <2>0, <2>5, PopKeeps, MoveKeeps DEF Keep, Depth
        <4>3. QED
          BY <4>1, <4>2 DEF StepKind
      <3>2. QED
        BY <3>1, PushKeeps
    <2>8. frames'[1].kind = "run"
      <3>1. CASE frames = <<>>
        BY <2>0, <2>2, <2>5, <3>1
      <3>2. CASE frames # <<>>
        BY <2>0, <2>5, <3>2 DEF PendingInv
      <3>3. QED
        BY <3>1, <3>2
    <2>9. ASSUME NEW d \in 1 .. Depth' - 1 PROVE frames'[d].phase \in Callout
      <3>1. d \in 1 .. Depth /\ (d = Depth \/ d \in 1 .. Depth - 1) /\ Depth # 0
        BY <2>0, <2>5
      <3>2. frames[d].phase \in Callout
        BY <2>0, <3>1 DEF PendingInv, Top
      <3>3. QED
        BY <2>5, <3>1, <3>2
    <2>10. ASSUME NEW d \in 1 .. Depth', frames'[d].phase \in Callout
           PROVE  /\ CursorOf(d)'.form_hash # "movprfx"
                  /\ frames'[d].last_instr_was_movprfx = FALSE
                  /\ Staged(frames[d])'
      <3>1. d # Depth + 1
        BY <2>2, <2>5, <2>10 DEF Callout
      <3>2. d \in 1 .. Depth
        BY <2>0, <2>5, <3>1
      <3>3. frames'[d] = frames[d] /\ CursorOf(d)' = CursorOf(d)
        BY <2>5, <2>7, <3>2
      <3>4. /\ CursorOf(d).form_hash # "movprfx"
            /\ frames[d].last_instr_was_movprfx = FALSE /\ Staged(frames[d])
        BY <2>10, <3>2, <3>3 DEF PendingInv
      <3>5. QED
        BY <3>3, <3>4 DEF Staged
    <2>11. QED
      BY <2>1, <2>4, <2>6, <2>8, <2>9, <2>10 DEF PendingInv, Chain
  <1>3. QED
    BY <1>1, <1>2

\* A call that ends returns into a callback, or to the sentinel.
LEMMA LeavePending ==
    ASSUME CallsInv, PendingInv, Leave
    PROVE  PendingInv'
  <1>0. /\ CallsTyped /\ frames # <<>> /\ Depth \in Nat \ {0}
        /\ Top.phase \in {"done", "ready"} /\ aborted' = aborted
        /\ Top.phase = "done" \/ cur.pc = kEndOfSimAddress
    BY TopType DEF CallsInv, Leave
  <1>1. Pop
    BY <1>0 DEF Leave, Pop, Callout, SetTraceParameters, GabyRestoreCursor
  <1>2. /\ Depth' = Depth - 1
        /\ \A d \in 1 .. Depth - 1 : frames'[d] = frames[d] /\ CursorOf(d)' = CursorOf(d)
    BY <1>1, PopKeeps
  <1>3. ASSUME NEW d \in 1 .. Depth'
        PROVE  /\ frames'[d].phase \in Callout
               /\ CursorOf(d)'.form_hash # "movprfx"
               /\ frames'[d].last_instr_was_movprfx = FALSE
               /\ Staged(frames[d])'
    <2>1. d \in 1 .. Depth /\ d \in 1 .. Depth - 1
      BY <1>0, <1>2
    <2>2. frames'[d] = frames[d] /\ CursorOf(d)' = CursorOf(d)
      BY <1>2, <2>1
    <2>3. /\ frames[d].phase \in Callout /\ CursorOf(d).form_hash # "movprfx"
          /\ frames[d].last_instr_was_movprfx = FALSE /\ Staged(frames[d])
      BY <2>1 DEF PendingInv
    <2>4. QED
      BY <2>2, <2>3 DEF Staged
  <1>4. CASE Depth = 1
    <2>1. frames[1].kind = "run" /\ 1 \in 1 .. Depth
      BY <1>0, <1>4 DEF PendingInv
    <2>2. Top.phase = "ready" /\ cur.pc = 0
      BY <1>0, <1>4, <2>1 DEF CallsInv, RunsGoOn, Top, kEndOfSimAddress
    <2>3. cur.form_hash # "movprfx"
      BY <1>0, <2>2, CodeWords DEF PendingInv, Chain
    <2>4. cur' = cur
      <3>1. Top.nested = (1 # 1)
        BY <1>4, <2>1 DEF Top, CallsInv, ScopesNest
      <3>2. QED
        BY <1>1, <3>1 DEF Pop
    <2>5. Depth' = 0
      BY <1>2, <1>4
    <2>6. frames' = <<>>
      BY <1>0, <1>1, <1>4, <2>5, DropTop DEF Pop, Depth
    <2>7. QED
      BY <1>0, <2>3, <2>4, <2>5, <2>6 DEF PendingInv
  <1>5. CASE Depth # 1
    <2>1. Depth' \in 1 .. Depth' /\ Depth' # 0 /\ 1 \in 1 .. Depth - 1
      BY <1>0, <1>2, <1>5
    <2>2. frames' # <<>>
      BY <2>1 DEF Depth
    <2>3. Top'.phase # "ready"
      BY <1>3, <2>1 DEF Top, Callout
    <2>4. frames'[1].kind = "run"
      BY <1>0, <1>2, <2>1 DEF PendingInv
    <2>5. \A d \in 1 .. Depth' - 1 : d \in 1 .. Depth'
      BY <1>0, <1>2
    <2>6. QED
      BY <1>0, <1>3, <2>2, <2>3, <2>4, <2>5 DEF PendingInv
  <1>6. QED
    BY <1>4, <1>5

LEMMA PendingStep ==
    ASSUME CallbackBType = FALSE, TopCalls \subseteq {"run"}, Paired
    PROVE  CallsInv /\ PendingInv /\ [Next]_vars => PendingInv'
  <1> SUFFICES ASSUME CallsInv, PendingInv, [Next]_vars PROVE PendingInv'
    OBVIOUS
  <1>1. ASSUME NEW track \in Tracks, NEW kind \in TopCalls, TopLevelCall(track, kind)
        PROVE  PendingInv'
    <2>1. PICK entry_pc \in Entries \cup {None} : Enter(track, kind, entry_pc)
      BY <1>1 DEF TopLevelCall
    <2>2. /\ track \in {"cache", "debug"} /\ kind = "run"
          /\ entry_pc \in Words \cup {None} /\ frames = <<>>
      BY <1>1, EmbedderAssumption, CodeWords DEF TopLevelCall, Idle
    <2>3. QED
      BY <2>1, <2>2, EnterPending
  <1>2. ASSUME NEW track \in Tracks, NEW kind \in {"run", "step"}, NestedCall(track, kind)
        PROVE  PendingInv'
    <2>1. PICK entry_pc \in NestedEntries : Enter(track, kind, entry_pc)
      BY <1>2 DEF NestedCall
    <2>2. /\ track \in {"cache", "debug"} /\ entry_pc \in Words \cup {None}
          /\ Top.phase \in Callout /\ frames # <<>>
      BY <1>2, EmbedderAssumption, CodeWords DEF NestedCall, InCallback, Callout
    <2>3. QED
      BY <2>1, <2>2, EnterPending
  <1>3. CASE Leave
    BY <1>3, LeavePending
  <1>4. CASE ExecuteInstruction
    <2>1. frames # <<>> /\ CallsTyped /\ aborted # "movprfx" /\ (Top.phase = "ready" => Chain)
      BY <1>4
      DEF ExecuteInstruction, FetchFault, LandingFault, BtiFault, ExecutePlain, ExecuteMov,
          ExecuteStore, DoTrace, VisitUnallocated, VisitUnimplemented,
          VisitUnconditionalBranch, VisitConditionalBranch,
          VisitUnconditionalBranchToRegister, Executing, Stepping, CallsInv, PendingInv
    <2>2. QED
      BY <1>4, <2>1, InstructionKind, InstructionSettles, MovePending
  <1>5. ASSUME NEW depth \in 1 .. MaxDepth,
               ReturnFromHook(depth) \/ ReturnFromObserver(depth)
        PROVE  PendingInv'
    <2>1. frames # <<>>
      BY <1>5 DEF ReturnFromHook, ReturnFromObserver, InCallback
    <2>2. QED
      BY <1>5, <2>1, ReturnKind, ReturnSettles, MovePending
  <1>6. CASE WriteLr \/ Configure \/ Dead \/ UNCHANGED vars
    <2>1. UNCHANGED <<cur, frames, aborted>>
      BY <1>6 DEF WriteLr, Configure, Dead, vars
    <2>2. QED
      BY <2>1 DEF PendingInv, Depth, Top, Chain, CursorOf, Staged
  <1>7. CASE WritePcRegister \/ WriteBType
    <2>1. frames = <<>> /\ UNCHANGED <<frames, aborted>>
      BY <1>7 DEF WritePcRegister, WriteBType, Idle
    <2>2. cur'.form_hash = cur.form_hash
      BY <1>7 DEF WritePcRegister, WriteBType, WritePc, UpdateBType, CallsInv, CallsTyped, Cursor
    <2>3. Depth' = 0
      BY <2>1 DEF Depth
    <2>4. QED
      BY <2>1, <2>2, <2>3 DEF PendingInv
  <1>8. QED
    BY <1>1, <1>2, <1>3, <1>4, <1>5, <1>6, <1>7 DEF Next

\* GabySaveCursor and GabyRestoreCursor keep form_hash and next_btype: if the
\* guest follows every MOVPRFX with an instruction that takes it and the
\* outermost calls are runs, no program is refused for a broken MOVPRFX chain
\* although nested steps may stop right after a MOVPRFX, and the BType staged
\* by an indirect branch is still pending when its hook returns.
THEOREM PendingStateSurvives ==
    ASSUME CallbackBType = FALSE, TopCalls \subseteq {"run"}, Paired
    PROVE  Spec => []PendingStateKept
  <1>1. Init => CallsInv /\ CursorIntact /\ PendingInv
    <2>1. Init => PendingInv
      BY DEF Init, PendingInv, Depth, ZeroCursor
    <2>2. QED
      BY <2>1, CallsInit, CursorInit
  <1>2. CallsInv /\ CursorIntact /\ PendingInv /\ [Next]_vars
          => (CallsInv /\ CursorIntact /\ PendingInv)'
    BY CallsStep, CursorStep, PendingStep
  <1>3. CallsInv /\ CursorIntact /\ PendingInv => PendingStateKept
    <2> SUFFICES ASSUME CallsInv, CursorIntact, PendingInv PROVE PendingStateKept
      OBVIOUS
    <2>1. MovprfxChainKept
      BY DEF PendingInv, MovprfxChainKept
    <2>2. StagedBTypeKept
      <3> SUFFICES ASSUME NEW d \in 1 .. Depth, frames[d].phase = "hook",
                          Code[frames[d].inflight.pc].op \in Indirect
                   PROVE  CursorOf(d).next_btype =
                            GetBTypeFromInstruction(Code[frames[d].inflight.pc])
        BY DEF StagedBTypeKept, Indirect
      <3>1. CursorOf(d) = frames[d].inflight
        BY DEF CursorIntact
      <3>2. Staged(frames[d])
        BY DEF PendingInv, Callout
      <3>3. QED
        BY <3>1, <3>2 DEF Staged
    <2>3. QED
      BY <2>1, <2>2 DEF PendingStateKept
  <1>4. QED
    BY <1>1, <1>2, <1>3, PTL DEF Spec
-----------------------------------------------------------------------------
(***************************************************************************)
(* Guarded pages.  An instruction of an outermost call finds the BType of  *)
(* the instruction before it, whatever a callback executed in between.     *)
(***************************************************************************)

\* f is the outermost call, k its cursor.  In a callback the BType of the
\* instruction is staged; between two instructions it is in force.
LandsBy(f, k) ==
    IF f.phase \in Callout
    THEN k.next_btype = GetBTypeFromInstruction(Code[k.pc])
    ELSE /\ k.next_btype = DefaultBType
         /\ f.previous # 0 => k.btype = GetBTypeFromInstruction(Code[f.previous])

LandingInv ==
    IF frames = <<>> THEN cur.next_btype = DefaultBType
    ELSE LandsBy(frames[1], CursorOf(1))

\* What one instruction of the topmost call does to it.
Lands == UNCHANGED <<cur, frames>> \/ (Depth' = Depth /\ LandsBy(Top, cur)')

LEMMA CompleteLands ==
    ASSUME CallsTyped, frames # <<>>, NEW c \in Cursor, NEW m, Complete(c, m),
           c.next_btype = GetBTypeFromInstruction(Code[cur.pc])
    PROVE  Lands
  <1>1. CASE UNCHANGED <<cur, frames>>
    BY <1>1 DEF Lands
  <1>2. CASE ~UNCHANGED <<cur, frames>>
    <2> DEFINE p == IF Top.kind = "step" THEN "done" ELSE "ready"
               f == [Top EXCEPT !.phase = p, !.previous = cur.pc]
    <2>1. /\ cur' = UpdateBType(IncrementPc([c EXCEPT !.last_instr = c.pc]))
          /\ frames' = [frames EXCEPT ![Depth] = [@ EXCEPT !.phase = p, !.previous = cur.pc]]
      BY <1>2 DEF Complete
    <2>2. f \in Frame /\ f.phase \notin Callout /\ f.previous = cur.pc
      <3>1. Top \in Frame /\ p \in {"done", "ready"} /\ cur.pc \in Words
        BY TopType DEF CallsTyped, Cursor
      <3> HIDE DEF p
      <3>2. QED
        BY <3>1 DEF Frame, Callout
    <2>3. frames' = [frames EXCEPT ![Depth] = f]
      BY <2>1, TopType DEF Top
    <2> HIDE DEF f
    <2>4. Depth' = Depth /\ Top' = f
      BY <2>2, <2>3, NewTop
    <2>5. cur'.btype = c.next_btype /\ cur'.next_btype = DefaultBType
      BY <2>1 DEF UpdateBType, IncrementPc, Cursor
    <2>6. LandsBy(Top, cur)'
      BY <2>2, <2>4, <2>5 DEF LandsBy
    <2>7. QED
      BY <2>4, <2>6 DEF Lands
  <1>3. QED
    BY <1>1, <1>2

LEMMA CallOutLands ==
    ASSUME CallsTyped, frames # <<>>, NEW c \in Cursor,
           c.next_btype = GetBTypeFromInstruction(Code[c.pc]),
           NEW phase \in Callout, NEW target \in Words, NEW link \in Words,
           CallOut(c, phase, target, link)
    PROVE  Lands
  <1> DEFINE f == [Top EXCEPT !.phase = phase, !.target = target, !.lr = link,
                              !.last_instr_was_movprfx = WasMovprfx,
                              !.inflight = c]
  <1>1. f \in Frame /\ f.phase = phase
    <2>1. /\ Top \in Frame /\ phase \in {"ready", "hook", "observer", "done"}
          /\ WasMovprfx \in BOOLEAN
      BY TopType, MovprfxType DEF Callout
    <2>2. QED
      BY <2>1 DEF Frame
  <1>2. cur' = c /\ frames' = [frames EXCEPT ![Depth] = f]
    BY TopType DEF CallOut, Top
  <1> HIDE DEF f
  <1>3. Depth' = Depth /\ Top' = f
    BY <1>1, <1>2, NewTop
  <1>4. LandsBy(Top, cur)'
    BY <1>1, <1>2, <1>3 DEF LandsBy
  <1>5. QED
    BY <1>3, <1>4 DEF Lands

LEMMA BranchLands ==
    ASSUME CallsTyped, frames # <<>>, NEW c \in Cursor, c.pc = cur.pc,
           c.next_btype = GetBTypeFromInstruction(Code[c.pc]),
           NEW target \in Words, NEW link \in Words,
           GabyHookedWritePc(c, target, link)
    PROVE  Lands
  <1>1. CASE config.hook
    BY <1>1, CallOutLands DEF GabyHookedWritePc, Callout
  <1>2. CASE ~config.hook
    <2>1. Complete(WritePc(c, target), WasMovprfx)
      BY <1>2 DEF GabyHookedWritePc
    <2>2. /\ WritePc(c, target) \in Cursor
          /\ WritePc(c, target).next_btype = GetBTypeFromInstruction(Code[cur.pc])
      BY WritePcType DEF WritePc, Cursor
    <2>3. QED
      BY <2>1, <2>2, CompleteLands
  <1>3. QED
    BY <1>1, <1>2

LEMMA AbortLands ==
    ASSUME NEW why, Abort(why)
    PROVE  Lands
  BY DEF Abort, Lands

LEMMA InstructionLands ==
    ASSUME CallsTyped, ExecuteInstruction, cur.next_btype = DefaultBType
    PROVE  Lands
  <1>a. frames # <<>> /\ regs \in [Regs -> Words] /\ "lr" \in Regs
    BY ProgramAssumption
    DEF ExecuteInstruction, FetchFault, LandingFault, BtiFault, ExecutePlain, ExecuteMov,
        ExecuteStore, DoTrace, VisitUnallocated, VisitUnimplemented,
        VisitUnconditionalBranch, VisitConditionalBranch,
        VisitUnconditionalBranchToRegister, Executing, Stepping, CallsTyped
  <1>b. ASSUME NEW ops, Executing(ops)
        PROVE  /\ Fetched \in Cursor /\ cur.pc \in DOMAIN Code /\ Fetched.pc = cur.pc
               /\ Fetched.next_btype = DefaultBType
               /\ Code[cur.pc].op \in ops /\ Code[cur.pc] \in Insn
    <2>1. /\ Fetched \in Cursor /\ cur.pc \in DOMAIN Code /\ Fetched.pc = cur.pc
          /\ Code[cur.pc] \in Insn
      BY <1>b, ExecutingFinds
    <2>2. Fetched.next_btype = DefaultBType
      BY DEF Fetched, CallsTyped, Cursor
    <2>3. QED
      BY <1>b, <2>1, <2>2 DEF Executing
  <1>c. ASSUME NEW ops, "br" \notin ops, "blr" \notin ops, Executing(ops)
        PROVE  Fetched.next_btype = GetBTypeFromInstruction(Code[cur.pc])
    BY <1>b, <1>c DEF GetBTypeFromInstruction
  <1>d. ASSUME NEW ops, "br" \notin ops, "blr" \notin ops, Executing(ops),
               Complete(Fetched, WasMovprfx)
        PROVE  Lands
    BY <1>a, <1>b, <1>c, <1>d, CompleteLands
  <1>1. CASE FetchFault \/ LandingFault \/ BtiFault \/ VisitUnallocated
    BY <1>1, AbortLands DEF FetchFault, LandingFault, BtiFault, VisitUnallocated
  <1>2. CASE ExecutePlain \/ ExecuteMov
    <2>1. "br" \notin PlainOps /\ "blr" \notin PlainOps
      BY DEF PlainOps, BtiOps
    <2>2. QED
      BY <1>2, <1>d, <2>1 DEF ExecutePlain, ExecuteMov
  <1>3. CASE ExecuteStore
    <2>1. CASE config.observer
      <3>1. CallOut(Fetched, "observer", 0, regs["lr"]) /\ Executing({"store"})
        BY <1>3, <2>1 DEF ExecuteStore
      <3>2. regs["lr"] \in Words /\ 0 \in Words /\ "observer" \in Callout
        BY <1>a, CodeWords DEF Callout
      <3>3. /\ Fetched \in Cursor
            /\ Fetched.next_btype = GetBTypeFromInstruction(Code[Fetched.pc])
        BY <1>b, <1>c, <3>1
      <3>4. QED
        BY <1>a, <3>1, <3>2, <3>3, CallOutLands
    <2>2. CASE ~config.observer
      BY <1>3, <2>2, <1>d DEF ExecuteStore
    <2>3. QED
      BY <2>1, <2>2
  <1>4. CASE DoTrace
    <2> DEFINE c == WritePc(Fetched, cur.pc + kTraceLength)
    <2>1. Executing({"trace"}) /\ Complete(c, WasMovprfx)
      BY <1>4 DEF DoTrace
    <2>2. /\ Fetched \in Cursor /\ cur.pc + kTraceLength \in Words
          /\ Fetched.next_btype = GetBTypeFromInstruction(Code[cur.pc])
      BY <1>b, <1>c, <2>1, CodeWords
    <2>3. c \in Cursor /\ c.next_btype = Fetched.next_btype
      BY <2>2, WritePcType DEF WritePc, Cursor
    <2> HIDE DEF c
    <2>4. QED
      BY <1>a, <2>1, <2>2, <2>3, CompleteLands
  <1>5. CASE VisitUnimplemented
    <2>1. CASE ReleaseBuild
      BY <1>5, <2>1, <1>d DEF VisitUnimplemented
    <2>2. CASE ~ReleaseBuild
      BY <1>5, <2>2, AbortLands DEF VisitUnimplemented
    <2>3. QED
      BY <2>1, <2>2
  <1>6. CASE VisitUnconditionalBranch
    <2> DEFINE lr == IF Code[cur.pc].op = "bl" THEN cur.pc + 1 ELSE regs["lr"]
    <2>1. Executing({"b", "bl"}) /\ GabyHookedWritePc(Fetched, Code[cur.pc].target, lr)
      BY <1>6 DEF VisitUnconditionalBranch
    <2>2. /\ Fetched \in Cursor /\ Fetched.pc = cur.pc /\ cur.pc \in DOMAIN Code
          /\ Fetched.next_btype = GetBTypeFromInstruction(Code[Fetched.pc])
          /\ Code[cur.pc].target \in Words
      BY <1>b, <1>c, <2>1 DEF Insn
    <2>3. lr \in Words
      BY <1>a, <2>2, CodeWords
    <2> HIDE DEF lr
    <2>4. QED
      BY <1>a, <2>1, <2>2, <2>3, BranchLands
  <1>7. CASE VisitConditionalBranch
    <2>1. Executing({"bcond"})
      BY <1>7 DEF VisitConditionalBranch
    <2>2. CASE Complete(Fetched, WasMovprfx)
      BY <1>d, <2>1, <2>2
    <2>3. CASE GabyHookedWritePc(Fetched, Code[cur.pc].target, regs["lr"])
      <3>1. /\ Fetched \in Cursor /\ Fetched.pc = cur.pc
            /\ Fetched.next_btype = GetBTypeFromInstruction(Code[Fetched.pc])
            /\ Code[cur.pc].target \in Words /\ regs["lr"] \in Words
        BY <1>a, <1>b, <1>c, <2>1 DEF Insn
      <3>2. QED
        BY <1>a, <2>3, <3>1, BranchLands
    <2>4. QED
      BY <1>7, <2>2, <2>3 DEF VisitConditionalBranch
  <1>8. CASE VisitUnconditionalBranchToRegister
    <2> DEFINE insn == Code[cur.pc]
               addr == regs[insn.rn]
               lr == IF insn.op = "blr" THEN cur.pc + 1 ELSE regs["lr"]
               c == [Fetched EXCEPT !.next_btype = GetBTypeFromInstruction(insn)]
    <2>1. /\ Executing({"br", "blr", "ret"})
          /\ \/ Abort("authentication") \/ Abort("gcs")
             \/ GabyHookedWritePc(c, addr, lr)
      BY <1>8 DEF VisitUnconditionalBranchToRegister
    <2>2. /\ Fetched \in Cursor /\ Fetched.pc = cur.pc /\ cur.pc \in DOMAIN Code
          /\ insn.rn \in Regs
      BY <1>b, <2>1 DEF Insn
    <2>3. lr \in Words /\ addr \in Words
      BY <1>a, <2>2, CodeWords
    <2>4. c \in Cursor /\ c.pc = cur.pc /\ c.next_btype = GetBTypeFromInstruction(Code[c.pc])
      <3>1. GetBTypeFromInstruction(insn) \in BTypes
        BY DEF GetBTypeFromInstruction, BTypes, BranchAndLink, DefaultBType,
               BranchFromUnguardedOrToIP, BranchFromGuardedNotToIP
      <3>2. QED
        BY <2>2, <3>1 DEF Cursor
    <2>5. CASE GabyHookedWritePc(c, addr, lr)
      <3> HIDE DEF lr, addr, c, insn
      <3>1. QED
        BY <1>a, <2>3, <2>4, <2>5, BranchLands
    <2>6. QED
      BY <2>1, <2>5, AbortLands
  <1>9. QED
    BY <1>1, <1>2, <1>3, <1>4, <1>5, <1>6, <1>7, <1>8 DEF ExecuteInstruction

LEMMA ReturnLands ==
    ASSUME CallsTyped, NEW depth, ReturnFromHook(depth) \/ ReturnFromObserver(depth),
           cur.next_btype = GetBTypeFromInstruction(Code[cur.pc])
    PROVE  Lands
  <1>1. frames # <<>> /\ Top \in Frame /\ cur \in Cursor
    BY TopType DEF CallsTyped, ReturnFromHook, ReturnFromObserver, InCallback
  <1>2. CASE ReturnFromObserver(depth)
    BY <1>1, <1>2, CompleteLands DEF ReturnFromObserver
  <1>3. CASE ReturnFromHook(depth)
    <2>1. CASE Abort("misaligned")
      BY <2>1, AbortLands
    <2>2. CASE ~Abort("misaligned")
      <3>1. PICK next_pc \in HookResults(Top.target) :
               /\ next_pc # Misaligned
               /\ Complete(WritePc(cur, next_pc), Top.last_instr_was_movprfx)
        BY <1>3, <2>2 DEF ReturnFromHook
      <3>2. next_pc \in Words
        BY <1>1, <3>1, EmbedderAssumption DEF HookResults, Frame
      <3>3. /\ WritePc(cur, next_pc) \in Cursor
            /\ WritePc(cur, next_pc).next_btype = cur.next_btype
        BY <1>1, <3>2, WritePcType DEF WritePc, Cursor
      <3>4. QED
        BY <1>1, <3>1, <3>3, CompleteLands
    <2>3. QED
      BY <2>1, <2>2
  <1>4. QED
    BY <1>2, <1>3

\* The steps that are not one of the topmost call: a new call, the end of one,
\* and what the embedder does between instructions.
LEMMA OthersLand ==
    ASSUME CallbackBType = FALSE, CallsInv, LandingInv, frames # <<>>,
           Push \/ Pop \/ Keep \/ (Move /\ Depth # 1)
    PROVE  LandingInv'
  <1>0. /\ Depth \in Nat \ {0} /\ CallsTyped /\ LandsBy(frames[1], CursorOf(1))
    BY TopType DEF CallsInv, LandingInv
  <1>a. ASSUME Depth' # 0, frames'[1] = frames[1], CursorOf(1)' = CursorOf(1)
        PROVE  LandingInv'
    <2>1. frames' # <<>>
      BY <1>a DEF Depth
    <2>2. LandsBy(frames[1], CursorOf(1))'
      BY <1>0, <1>a DEF LandsBy
    <2>3. QED
      BY <2>1, <2>2 DEF LandingInv
  <1>1. CASE Push
    <2>1. 1 \in 1 .. Depth /\ Depth + 1 # 0
      BY <1>0
    <2>2. QED
      BY <1>1, <1>a, <2>1, PushKeeps
  <1>2. CASE Pop /\ Depth # 1
    <2>1. 1 \in 1 .. Depth - 1 /\ Depth - 1 # 0
      BY <1>0, <1>2
    <2>2. QED
      BY <1>2, <1>a, <2>1, PopKeeps
  <1>3. CASE Pop /\ Depth = 1
    <2>0. Top.nested = (Depth # 1)
      BY <1>0 DEF CallsInv, ScopesNest, Top
    <2>1. Top.nested = FALSE
      BY <1>3, <2>0
    <2>2. cur' = cur /\ Top.phase \notin Callout
      BY <1>3, <2>1 DEF Pop
    <2>3. cur.next_btype = DefaultBType
      BY <1>0, <1>3, <2>2 DEF LandsBy, Top, CursorOf
    <2>4. frames' = <<>>
      BY <1>0, <1>3, DropTop DEF Pop
    <2>5. QED
      BY <2>2, <2>3, <2>4 DEF LandingInv
  <1>4. CASE Keep
    <2>1. UNCHANGED <<frames, cur>>
      BY <1>4 DEF Keep
    <2>2. QED
      BY <1>0, <1>a, <2>1 DEF Depth, CursorOf
  <1>5. CASE Move /\ Depth # 1
    <2>1. 1 \in 1 .. Depth - 1
      BY <1>0, <1>5
    <2>2. QED
      BY <1>0, <1>5, <1>a, <2>1, MoveKeeps
  <1>6. QED
    BY <1>1, <1>2, <1>3, <1>4, <1>5

\* The first call.
LEMMA FirstCallLands ==
    ASSUME CallsInv, LandingInv, frames = <<>>, NEW track \in {"cache", "debug"},
           NEW kind \in {"run", "step"}, NEW entry_pc \in Words \cup {None},
           Enter(track, kind, entry_pc)
    PROVE  LandingInv'
  <1>0. CallsTyped /\ cur \in Cursor /\ cur.next_btype = DefaultBType /\ Depth = 0
    BY DEF CallsInv, CallsTyped, LandingInv, Depth
  <1>1. CASE track = "cache" /\ ~config.cache
    BY <1>0, <1>1 DEF Enter, Abort, LandingInv
  <1>2. CASE ~(track = "cache" /\ ~config.cache)
    <2> DEFINE f == NewFrame(track, kind)
    <2>1. /\ frames' = Append(frames, f)
          /\ cur' = IF entry_pc = None THEN cur ELSE WritePc(cur, entry_pc)
      BY <1>2 DEF Enter
    <2>2. f \in Frame /\ f.phase = "ready" /\ f.previous = 0
      BY ZeroCursorType, CodeWords
      DEF CallsInv, NewFrame, Frame, CallsTyped, GabySaveCursor, Masks
    <2> HIDE DEF f
    <2>3. Depth' = 1 /\ frames'[1] = f
      BY <1>0, <2>1, <2>2, AddTop DEF Depth
    <2>4. frames' # <<>> /\ CursorOf(1)' = cur'
      BY <2>3 DEF Depth, CursorOf
    <2>5. cur'.next_btype = DefaultBType
      BY <1>0, <2>1 DEF WritePc, Cursor
    <2>6. LandsBy(frames[1], CursorOf(1))'
      BY <2>2, <2>3, <2>4, <2>5 DEF LandsBy, Callout
    <2>7. QED
      BY <2>4, <2>6 DEF LandingInv
  <1>3. QED
    BY <1>1, <1>2

LEMMA LandingStep ==
    ASSUME CallbackBType = FALSE
    PROVE  CallsInv /\ LandingInv /\ [Next]_vars => LandingInv'
  <1> SUFFICES ASSUME CallsInv, LandingInv, [Next]_vars PROVE LandingInv'
    OBVIOUS
  <1>0. CallsTyped /\ (Push \/ Pop \/ Move \/ Keep)
    BY NextKind DEF StepKind, CallsInv
  <1>a. ASSUME Lands, Depth = 1
        PROVE  LandingInv'
    <2>1. frames # <<>>
      BY <1>a DEF Depth
    <2>2. CASE UNCHANGED <<cur, frames>>
      BY <2>2 DEF LandingInv, CursorOf, Depth
    <2>3. CASE Depth' = Depth /\ LandsBy(Top, cur)'
      <3>1. frames' # <<>> /\ Top' = frames'[1] /\ CursorOf(1)' = cur'
        BY <1>a, <2>3 DEF Depth, Top, CursorOf
      <3>2. QED
        BY <2>3, <3>1 DEF LandingInv, LandsBy
    <2>4. QED
      BY <1>a, <2>2, <2>3 DEF Lands
  <1>b. Depth = 1 => Top = frames[1] /\ CursorOf(1) = cur /\ frames # <<>> /\ LandsBy(Top, cur)
    BY DEF Depth, Top, CursorOf, LandingInv
  <1>c. ASSUME frames # <<>>, ~Move \/ Depth # 1
        PROVE  LandingInv'
    BY <1>0, <1>c, OthersLand
  <1>1. ASSUME NEW track \in Tracks, NEW kind \in TopCalls, TopLevelCall(track, kind)
        PROVE  LandingInv'
    <2>1. PICK entry_pc \in Entries \cup {None} : Enter(track, kind, entry_pc)
      BY <1>1 DEF TopLevelCall
    <2>2. /\ track \in {"cache", "debug"} /\ kind \in {"run", "step"}
          /\ entry_pc \in Words \cup {None} /\ frames = <<>>
      BY <1>1, EmbedderAssumption, CodeWords DEF TopLevelCall, Idle
    <2>3. QED
      BY <2>1, <2>2, FirstCallLands
  <1>2. ASSUME NEW track \in Tracks, NEW kind \in {"run", "step"}, NestedCall(track, kind)
        PROVE  LandingInv'
    <2>1. PICK entry_pc \in NestedEntries : Enter(track, kind, entry_pc)
      BY <1>2 DEF NestedCall
    <2>2. frames # <<>>
      BY <1>2 DEF NestedCall, InCallback
    <2>3. CASE track = "cache" /\ ~config.cache
      <3>1. UNCHANGED <<cur, frames>>
        BY <2>1, <2>3 DEF Enter, Abort
      <3>2. QED
        BY <3>1 DEF LandingInv, CursorOf, Depth
    <2>4. CASE ~(track = "cache" /\ ~config.cache)
      <3>1. frames' = Append(frames, NewFrame(track, kind))
        BY <2>1, <2>4 DEF Enter
      <3>2. NewFrame(track, kind) \in Frame
        BY <1>2, ZeroCursorType, CodeWords, EmbedderAssumption
        DEF CallsInv, NewFrame, Frame, CallsTyped, GabySaveCursor, Masks
      <3>3. Len(frames') = Depth + 1 /\ Depth \in Nat
        BY <1>0, <2>2, <3>1, <3>2, AddTop, TopType
      <3>4. ~Move
        BY <3>3, MoveKeeps DEF Depth
      <3>5. QED
        BY <1>c, <2>2, <3>4
    <2>5. QED
      BY <2>3, <2>4
  <1>3. CASE Leave
    <2>1. frames # <<>> /\ frames' = Front(frames)
      BY <1>3 DEF Leave
    <2>2. Len(frames') = Depth - 1 /\ Depth \in Nat
      BY <1>0, <2>1, DropTop, TopType
    <2>3. ~Move
      BY <2>2, MoveKeeps DEF Depth
    <2>4. QED
      BY <1>c, <2>1, <2>3
  <1>4. CASE ExecuteInstruction
    <2>1. frames # <<>> /\ Top.phase = "ready"
      BY <1>4
      DEF ExecuteInstruction, FetchFault, LandingFault, BtiFault, ExecutePlain, ExecuteMov,
          ExecuteStore, DoTrace, VisitUnallocated, VisitUnimplemented,
          VisitUnconditionalBranch, VisitConditionalBranch,
          VisitUnconditionalBranchToRegister, Executing, Stepping
    <2>2. CASE Depth = 1
      <3>1. cur.next_btype = DefaultBType
        BY <1>b, <2>1, <2>2 DEF LandsBy, Callout
      <3>2. QED
        BY <1>0, <1>4, <1>a, <2>2, <3>1, InstructionLands
    <2>3. CASE Depth # 1
      BY <1>c, <2>1, <2>3
    <2>4. QED
      BY <2>2, <2>3
  <1>5. ASSUME NEW depth \in 1 .. MaxDepth,
               ReturnFromHook(depth) \/ ReturnFromObserver(depth)
        PROVE  LandingInv'
    <2>1. frames # <<>> /\ Top.phase \in Callout
      BY <1>5 DEF ReturnFromHook, ReturnFromObserver, InCallback, Callout
    <2>2. CASE Depth = 1
      <3>1. cur.next_btype = GetBTypeFromInstruction(Code[cur.pc])
        BY <1>b, <2>1, <2>2 DEF LandsBy
      <3>2. QED
        BY <1>0, <1>5, <1>a, <2>2, <3>1, ReturnLands
    <2>3. CASE Depth # 1
      BY <1>c, <2>1, <2>3
    <2>4. QED
      BY <2>2, <2>3
  <1>6. CASE WriteLr \/ Configure \/ Dead \/ UNCHANGED vars
    <2>1. UNCHANGED <<cur, frames>>
      BY <1>6 DEF WriteLr, Configure, Dead, vars
    <2>2. QED
      BY <2>1 DEF LandingInv, Depth, CursorOf
  <1>7. CASE WritePcRegister \/ WriteBType
    <2>1. frames = <<>> /\ UNCHANGED frames
      BY <1>7 DEF WritePcRegister, WriteBType, Idle
    <2>2. cur'.next_btype = DefaultBType
      BY <1>7, <2>1 DEF LandingInv, WritePcRegister, WriteBType, WritePc, UpdateBType, CallsInv,
                        CallsTyped, Cursor
    <2>3. QED
      BY <2>1, <2>2 DEF LandingInv
  <1>8. QED
    BY <1>1, <1>2, <1>3, <1>4, <1>5, <1>6, <1>7 DEF Next

\* An instruction that ran to its end, or into a callback, was not refused.
LEMMA CompleteAccepts ==
    ASSUME aborted = "no", NEW c, NEW m, Complete(c, m)
    PROVE  aborted' # "btype"
  BY DEF Complete

LEMMA BranchAccepts ==
    ASSUME aborted = "no", NEW c, NEW target, NEW link, GabyHookedWritePc(c, target, link)
    PROVE  aborted' # "btype"
  <1>1. CASE config.hook
    BY <1>1 DEF GabyHookedWritePc, CallOut
  <1>2. CASE ~config.hook
    <2>1. Complete(WritePc(c, target), WasMovprfx)
      BY <1>2 DEF GabyHookedWritePc
    <2>2. QED
      BY <2>1, CompleteAccepts
  <1>3. QED
    BY <1>1, <1>2

\* Which instructions the checks refuse, and that they do.
LEMMA Refused ==
    ASSUME CallsTyped, ExecuteInstruction, Mapped
    PROVE  aborted' = "btype" <=> BTypeFault \/ WrongBType
  <1>a. Stepping /\ aborted = "no"
    BY DEF ExecuteInstruction, FetchFault, LandingFault, BtiFault, ExecutePlain, ExecuteMov,
           ExecuteStore, DoTrace, VisitUnallocated, VisitUnimplemented,
           VisitUnconditionalBranch, VisitConditionalBranch,
           VisitUnconditionalBranchToRegister, Executing, Stepping
  <1>1. CASE BTypeFault
    <2>1. ~\E ops : Executing(ops)
      BY <1>1 DEF Executing
    <2>2. LandingFault
      BY <2>1
      DEF ExecuteInstruction, FetchFault, BtiFault, ExecutePlain, ExecuteMov, ExecuteStore,
          DoTrace, VisitUnallocated, VisitUnimplemented, VisitUnconditionalBranch,
          VisitConditionalBranch, VisitUnconditionalBranchToRegister
    <2>3. QED
      BY <1>1, <2>2 DEF LandingFault, Abort
  <1>2. CASE ~BTypeFault /\ WrongBType
    <2>1. Code[cur.pc].op \in BtiOps
      BY <1>2 DEF WrongBType, BtiOps
    <2>2. ASSUME NEW ops, Executing(ops)
          PROVE  Code[cur.pc].op \in ops
      BY <2>2 DEF Executing
    <2>3. BtiFault
      BY <1>2, <2>1, <2>2
      DEF ExecuteInstruction, FetchFault, LandingFault, ExecutePlain, ExecuteMov, ExecuteStore,
          DoTrace, VisitUnallocated, VisitUnimplemented, VisitUnconditionalBranch,
          VisitConditionalBranch, VisitUnconditionalBranchToRegister, BtiOps
    <2>4. QED
      BY <1>2, <2>3 DEF BtiFault, Abort
  <1>3. CASE ~BTypeFault /\ ~WrongBType
    <2> SUFFICES aborted' # "btype"
      BY <1>3
    <2>1. CASE Complete(Fetched, WasMovprfx)
      BY <1>a, <2>1, CompleteAccepts
    <2>3. ~FetchFault /\ ~LandingFault /\ ~BtiFault
      BY <1>3 DEF FetchFault, LandingFault, BtiFault
    <2>4. CASE ExecutePlain \/ ExecuteMov
      BY <2>1, <2>4 DEF ExecutePlain, ExecuteMov
    <2>2. CASE DoTrace
      <3>1. Complete(WritePc(Fetched, cur.pc + kTraceLength), WasMovprfx)
        BY <2>2 DEF DoTrace
      <3>2. QED
        BY <1>a, <3>1, CompleteAccepts
    <2>5. CASE ExecuteStore
      <3>1. CASE config.observer
        BY <1>a, <2>5, <3>1 DEF ExecuteStore, CallOut
      <3>2. CASE ~config.observer
        BY <2>1, <2>5, <3>2 DEF ExecuteStore
      <3>3. QED
        BY <3>1, <3>2
    <2>6. CASE VisitUnallocated \/ VisitUnimplemented
      <3>1. CASE Abort("unallocated") \/ Abort("unimplemented")
        BY <3>1 DEF Abort
      <3>2. QED
        BY <2>1, <2>6, <3>1 DEF VisitUnallocated, VisitUnimplemented
    <2>7. CASE VisitUnconditionalBranch
      <3>1. \E lr : GabyHookedWritePc(Fetched, Code[cur.pc].target, lr)
        BY <2>7 DEF VisitUnconditionalBranch
      <3>2. QED
        BY <1>a, <3>1, BranchAccepts
    <2>8. CASE VisitConditionalBranch
      <3>1. CASE GabyHookedWritePc(Fetched, Code[cur.pc].target, regs["lr"])
        BY <1>a, <3>1, BranchAccepts
      <3>2. QED
        BY <2>1, <2>8, <3>1 DEF VisitConditionalBranch
    <2>9. CASE VisitUnconditionalBranchToRegister
      <3>1. CASE Abort("authentication") \/ Abort("gcs")
        BY <3>1 DEF Abort
      <3>2. CASE ~(Abort("authentication") \/ Abort("gcs"))
        <4>1. \E c, addr, lr : GabyHookedWritePc(c, addr, lr)
          BY <2>9, <3>2 DEF VisitUnconditionalBranchToRegister
        <4>2. QED
          BY <1>a, <4>1, BranchAccepts
      <3>3. QED
        BY <3>1, <3>2
    <2>10. QED
      BY <1>3, <2>2, <2>3, <2>4, <2>5, <2>6, <2>7, <2>8, <2>9 DEF ExecuteInstruction
  <1>4. QED
    BY <1>1, <1>2, <1>3

\* The checks ask what the architecture's table says.
LEMMA ChecksTable ==
    ASSUME GuardedPages, Top.track = "cache" => Code[cur.pc].op \in BtiRelevant,
           NEW branch, cur.btype = GetBTypeFromInstruction(branch)
    PROVE  BTypeFault \/ WrongBType <=>
             branch.op \in {"br", "blr"} /\ ~Takes(cur.pc, branch)
  <1>1. CASE branch.op \notin {"br", "blr"}
    <2>1. cur.btype = 0
      BY <1>1 DEF GetBTypeFromInstruction, DefaultBType
    <2>2. QED
      BY <1>1, <2>1
      DEF BTypeFault, WrongBType, DefaultBType, BranchFromGuardedNotToIP, BranchAndLink
  <1>2. CASE branch.op = "blr"
    <2>1. cur.btype = 2
      BY <1>2 DEF GetBTypeFromInstruction, BranchAndLink
    <2>2. QED
      BY <1>2, <2>1
      DEF BTypeFault, WrongBType, Takes, LandingPads, BtiOps, BtiRelevant, DefaultBType,
          BranchFromGuardedNotToIP, BranchAndLink
  <1>3. CASE branch.op = "br" /\ branch.rn \in {"x16", "x17"}
    <2>1. cur.btype = 1
      BY <1>3 DEF GetBTypeFromInstruction, BranchFromUnguardedOrToIP
    <2>2. QED
      BY <1>3, <2>1
      DEF BTypeFault, WrongBType, Takes, LandingPads, BtiOps, BtiRelevant, DefaultBType,
          BranchFromGuardedNotToIP, BranchAndLink
  <1>4. CASE branch.op = "br" /\ branch.rn \notin {"x16", "x17"}
    <2>1. cur.btype = 3
      BY <1>4 DEF GetBTypeFromInstruction, BranchFromGuardedNotToIP
    <2>2. QED
      BY <1>4, <2>1
      DEF BTypeFault, WrongBType, Takes, LandingPads, BtiOps, BtiRelevant, DefaultBType,
          BranchFromGuardedNotToIP, BranchAndLink
  <1>5. QED
    BY <1>1, <1>2, <1>3, <1>4

\* GetBTypeFromInstruction, the cursor's save and restore, UpdateBType and the
\* two checks together: on guarded pages, if callbacks do not write BTYPE, an
\* instruction of an outermost call is refused exactly if the one before it was
\* an indirect branch that it does not take, for any program, hook and depth of
\* nested calls; on the cache track, at the instructions BtiRelevant marks.
THEOREM LandingsAlwaysMatch ==
    ASSUME CallbackBType = FALSE
    PROVE  Spec => LandingsMatch
  <1>1. Init => CallsInv /\ LandingInv
    <2>1. Init => LandingInv
      BY DEF Init, LandingInv, ZeroCursor
    <2>2. QED
      BY <2>1, CallsInit
  <1>2. CallsInv /\ LandingInv /\ [Next]_vars => (CallsInv /\ LandingInv)'
    BY CallsStep, LandingStep
  <1>3. CallsInv /\ LandingInv /\ [Next]_vars =>
          [(ExecuteInstruction /\ GuardedPages /\ Depth = 1 /\ Top.previous # 0
            /\ Mapped /\ (Top.track = "cache" => Code[cur.pc].op \in BtiRelevant))
              => (aborted' = "btype" <=>
                    LET branch == Code[Top.previous]
                    IN  branch.op \in {"br", "blr"} /\ ~Takes(cur.pc, branch))]_vars
    <2> SUFFICES ASSUME CallsInv, LandingInv, ExecuteInstruction, GuardedPages, Depth = 1,
                        Top.previous # 0, Mapped,
                        Top.track = "cache" => Code[cur.pc].op \in BtiRelevant
                 PROVE  aborted' = "btype" <=>
                          /\ Code[Top.previous].op \in {"br", "blr"}
                          /\ ~Takes(cur.pc, Code[Top.previous])
      OBVIOUS
    <2>1. Top.phase = "ready"
      BY DEF ExecuteInstruction, FetchFault, LandingFault, BtiFault, ExecutePlain, ExecuteMov,
             ExecuteStore, DoTrace, VisitUnallocated, VisitUnimplemented,
             VisitUnconditionalBranch, VisitConditionalBranch,
             VisitUnconditionalBranchToRegister, Executing, Stepping
    <2>2. cur.btype = GetBTypeFromInstruction(Code[Top.previous])
      BY <2>1 DEF LandingInv, LandsBy, Depth, Top, CursorOf, Callout
    <2>3. PICK branch : branch = Code[Top.previous]
      OBVIOUS
    <2>4. BTypeFault \/ WrongBType <=>
            branch.op \in {"br", "blr"} /\ ~Takes(cur.pc, branch)
      BY <2>2, <2>3, ChecksTable
    <2>5. QED
      BY <2>3, <2>4, Refused DEF CallsInv
  <1>4. QED
    BY <1>1, <1>2, <1>3, PTL DEF Spec, LandingsMatch

-----------------------------------------------------------------------------
(***************************************************************************)
(* Calls and returns.  The return addresses on the Guarded Control Stack   *)
(* are also in the guest's registers: that of the running function in its  *)
(* home register, that of a caller in the home register of the place it    *)
(* will be resumed at.                                                     *)
(***************************************************************************)
Peek(g) == IF g = <<>> THEN 0 ELSE Last(g)

\* Every entry of the stack but the topmost is the return address of the
\* function that the entry above it resumes, which has it in a register no
\* function called since may write.
Chained(c, g, R) ==
    \A j \in DOMAIN g :
        /\ g[j] \in c.main /\ c.home[g[j]] # "lr"
        /\ R[c.home[g[j]]] = IF j = 1 THEN 0 ELSE g[j - 1]
        /\ \A i \in DOMAIN g : i < j => c.home[g[i]] \in c.keep[g[j]]

Held(c, R) == \A r \in Regs : R[r] \in c.may[r]

Guest(c, g, R) == Chained(c, g, R) /\ Held(c, R)

\* The outermost call goes on at a, with lr in LR; it ends with an empty stack.
Located(c, g, R, a, lr) ==
    /\ a = 0 => g = <<>>
    /\ a \in DOMAIN Code =>
          /\ a \in c.main
          /\ Peek(g) = IF c.home[a] = "lr" THEN lr ELSE R[c.home[a]]
          /\ \A j \in DOMAIN g : c.home[g[j]] \in c.keep[a]

Landed(c, d, g, R, a, lr) ==
    IF d = 1 THEN Located(c, g, R, a, lr) ELSE a \in DOMAIN Code => a \in c.side

HomesKept(c, R, S) ==
    \A m \in c.main : c.home[m] # "lr" => S[c.home[m]] = R[c.home[m]]

\* A step of the d-th call changes the stack from g to h and the registers
\* from R to S, and the call goes on at a.
Course(c, d, g, R, h, S, a) ==
    /\ Guest(c, h, S) /\ Landed(c, d, h, S, a, S["lr"])
    /\ d # 1 => h = g /\ HomesKept(c, R, S)

LEMMA ConventionTyped ==
    ASSUME NEW c, CallingConvention(c)
    PROVE  /\ c.main \subseteq DOMAIN Code /\ c.side \subseteq DOMAIN Code
           /\ \A a \in DOMAIN Code : c.home[a] \in Regs
           /\ MainCode(c) /\ SideCode(c) /\ RegisterValues(c) /\ PlainEmbedder(c)
  BY DEF CallingConvention

\* Only the home registers count, and LR by the value the call will find.
LEMMA SameHomes ==
    ASSUME NEW c, CallingConvention(c), NEW g, NEW R, NEW S, HomesKept(c, R, S)
    PROVE  /\ Chained(c, g, R) => Chained(c, g, S)
           /\ \A d, a, lr : Landed(c, d, g, R, a, lr) => Landed(c, d, g, S, a, lr)
  <1>1. ASSUME Chained(c, g, R) PROVE Chained(c, g, S)
    BY <1>1 DEF Chained, HomesKept
  <1>2. ASSUME NEW a, NEW lr, Located(c, g, R, a, lr) PROVE Located(c, g, S, a, lr)
    BY <1>2 DEF Located, HomesKept
  <1>3. QED
    BY <1>1, <1>2 DEF Landed

\* LR changes, and the call goes on with its new value.
LEMMA LrCourse ==
    ASSUME NEW c, CallingConvention(c), NEW d, NEW g, NEW R \in [Regs -> Words],
           NEW a, NEW l \in Words, l \in c.may["lr"], Guest(c, g, R),
           Landed(c, d, g, R, a, l)
    PROVE  Course(c, d, g, R, g, [R EXCEPT !["lr"] = l], a)
  <1> DEFINE S == [R EXCEPT !["lr"] = l]
  <1>0. "lr" \in Regs
    BY ProgramAssumption
  <1>1. HomesKept(c, R, S) /\ S["lr"] = l
    BY <1>0, ConventionTyped DEF HomesKept
  <1>2. Held(c, S)
    BY <1>0 DEF Guest, Held
  <1> HIDE DEF S
  <1>3. Chained(c, g, S) /\ Landed(c, d, g, S, a, l)
    BY <1>1, SameHomes DEF Guest
  <1>4. Course(c, d, g, R, g, S, a)
    BY <1>1, <1>2, <1>3 DEF Course, Guest
  <1>5. QED
    BY <1>4 DEF S

\* Straight on, or to the target of a branch that does not link.
LEMMA FlowCourse ==
    ASSUME NEW c, CallingConvention(c), NEW d, NEW g, NEW R, NEW a \in DOMAIN Code,
           Guest(c, g, R), Landed(c, d, g, R, a, R["lr"]),
           Code[a].op # "mov", NEW b \in Follows(c, a)
    PROVE  Course(c, d, g, R, g, R, b)
  <1>1. CASE d = 1
    <2>1. a \in c.main /\ Located(c, g, R, a, R["lr"])
      BY <1>1 DEF Landed, Located
    <2>2. b # 0 /\ StaysHome(c, a, b)
      BY <2>1, ConventionTyped DEF MainCode
    <2>3. ASSUME b \in DOMAIN Code
          PROVE  b \in c.main /\ c.keep[a] \subseteq c.keep[b] /\ c.home[b] = c.home[a]
      BY <2>2, <2>3 DEF StaysHome
    <2>4. Located(c, g, R, b, R["lr"])
      BY <2>1, <2>2, <2>3 DEF Located
    <2>5. QED
      BY <1>1, <2>4 DEF Course, Landed
  <1>2. CASE d # 1
    <2>1. a \in c.side
      BY <1>2 DEF Landed
    <2>2. b \in DOMAIN Code => b \in c.side
      BY <2>1, ConventionTyped DEF SideCode
    <2>3. QED
      BY <1>2, <2>2 DEF Course, Landed, HomesKept
  <1>3. QED
    BY <1>1, <1>2

\* MOV between registers takes the return address along.
LEMMA MovCourse ==
    ASSUME NEW c, CallingConvention(c), NEW d, NEW g, NEW R \in [Regs -> Words],
           NEW a \in DOMAIN Code, Guest(c, g, R), Landed(c, d, g, R, a, R["lr"]),
           Code[a].op = "mov"
    PROVE  Course(c, d, g, R, g, [R EXCEPT ![Code[a].rd] = R[Code[a].rn]], a + 1)
  <1> DEFINE rd == Code[a].rd
             rn == Code[a].rn
             S == [R EXCEPT ![rd] = R[rn]]
  <1>0. rd \in Regs /\ rn \in Regs /\ "lr" \in Regs /\ a + 1 \in Follows(c, a)
    BY CodeWords, ProgramAssumption DEF Insn, Follows
  <1>1. S \in [Regs -> Words] /\ \A r \in Regs : S[r] = IF r = rd THEN R[rn] ELSE R[r]
    BY <1>0
  <1> HIDE DEF S
  <1>2. a \in c.main \cup c.side
    BY DEF Landed, Located
  <1>3. Held(c, S)
    <2>1. c.may[rn] \subseteq c.may[rd]
      BY <1>2, ConventionTyped DEF RegisterValues
    <2>2. QED
      BY <1>0, <1>1, <2>1 DEF Held, Guest
  <1>4. CASE d = 1
    <2>1. a \in c.main /\ Located(c, g, R, a, R["lr"])
      BY <1>4 DEF Landed, Located
    <2>2. rd \notin c.keep[a] /\ a + 1 # 0 /\ StaysHome(c, a, a + 1)
      BY <1>0, <2>1, ConventionTyped DEF MainCode
    <2>3. \A j \in DOMAIN g : c.home[g[j]] \in Regs /\ c.home[g[j]] # rd
      BY <2>1, <2>2, ConventionTyped DEF Located, Guest, Chained
    <2>4. \A j \in DOMAIN g : S[c.home[g[j]]] = R[c.home[g[j]]]
      BY <1>1, <2>3
    <2>5. Chained(c, g, S)
      BY <2>4 DEF Guest, Chained
    <2>6. Located(c, g, S, a + 1, S["lr"])
      <3>1. ASSUME a + 1 \in DOMAIN Code
            PROVE  /\ a + 1 \in c.main /\ c.keep[a] \subseteq c.keep[a + 1]
                   /\ R[c.home[a]] = S[c.home[a + 1]]
        <4>1. /\ a + 1 \in c.main /\ c.keep[a] \subseteq c.keep[a + 1]
              /\ c.home[a] = IF c.home[a + 1] = rd THEN rn ELSE c.home[a + 1]
          BY <2>2, <3>1 DEF StaysHome
        <4>2. c.home[a + 1] \in Regs
          BY <3>1, ConventionTyped
        <4>3. QED
          BY <1>1, <4>1, <4>2
      <3>2. Peek(g) = R[c.home[a]]
        BY <2>1 DEF Located
      <3>3. QED
        BY <2>1, <2>2, <3>1, <3>2 DEF Located
    <2>7. QED
      BY <1>3, <1>4, <2>5, <2>6 DEF Course, Guest, Landed, S
  <1>5. CASE d # 1
    <2>1. a \in c.side
      BY <1>5 DEF Landed
    <2>2. /\ \A m \in c.main : c.home[m] # "lr" => rd # c.home[m]
          /\ a + 1 \in DOMAIN Code => a + 1 \in c.side
      BY <1>0, <2>1, ConventionTyped DEF SideCode
    <2>3. HomesKept(c, R, S)
      BY <1>1, <2>2, ConventionTyped DEF HomesKept
    <2>4. Chained(c, g, S)
      BY <2>3, SameHomes DEF Guest
    <2>5. QED
      BY <1>3, <1>5, <2>2, <2>3, <2>4 DEF Course, Guest, Landed, S
  <1>6. QED
    BY <1>4, <1>5

LEMMA PushEntry ==
    ASSUME NEW g \in Seq(Words), NEW a \in Words
    PROVE  /\ Append(g, a) \in Seq(Words) /\ Append(g, a) # <<>>
           /\ DOMAIN Append(g, a) = 1 .. Len(g) + 1 /\ DOMAIN g = 1 .. Len(g)
           /\ Append(g, a)[Len(g) + 1] = a /\ Len(g) \in Nat
           /\ \A j \in 1 .. Len(g) : Append(g, a)[j] = g[j]
           /\ Peek(Append(g, a)) = a
           /\ Peek(g) = IF Len(g) = 0 THEN 0 ELSE g[Len(g)]
  <1>1. /\ Append(g, a) \in Seq(Words) /\ Len(Append(g, a)) = Len(g) + 1
        /\ Append(g, a)[Len(g) + 1] = a /\ Append(g, a) # <<>>
        /\ \A j \in 1 .. Len(g) : Append(g, a)[j] = g[j]
    BY AppendProperties
  <1>2. Peek(Append(g, a)) = a
    BY <1>1 DEF Peek, Last
  <1>3. Peek(g) = IF Len(g) = 0 THEN 0 ELSE g[Len(g)]
    BY DEF Peek, Last
  <1>4. DOMAIN Append(g, a) = 1 .. Len(g) + 1 /\ DOMAIN g = 1 .. Len(g) /\ Len(g) \in Nat
    BY <1>1
  <1>5. QED
    BY <1>1, <1>2, <1>3, <1>4

LEMMA PopEntry ==
    ASSUME NEW g \in Seq(Words), g # <<>>
    PROVE  /\ Front(g) \in Seq(Words) /\ Len(g) \in Nat \ {0}
           /\ DOMAIN Front(g) = 1 .. Len(g) - 1 /\ DOMAIN g = 1 .. Len(g)
           /\ \A j \in 1 .. Len(g) - 1 : Front(g)[j] = g[j]
           /\ Peek(g) = g[Len(g)]
           /\ Peek(Front(g)) = IF Len(g) = 1 THEN 0 ELSE g[Len(g) - 1]
  <1> DEFINE n == Len(g) - 1
  <1>1. n \in Nat /\ n + 1 = Len(g) /\ \A i \in 1 .. n : g[i] \in Words
    OBVIOUS
  <1>2. Front(g) = SubSeq(g, 1, n) /\ Peek(g) = g[Len(g)]
    BY DEF Front, Peek, Last
  <1> HIDE DEF n
  <1>3. /\ Front(g) \in Seq(Words) /\ Len(Front(g)) = n
        /\ \A j \in 1 .. n : Front(g)[j] = g[j]
    <2>1. /\ SubSeq(g, 1, n) \in Seq(Words)
          /\ Len(SubSeq(g, 1, n)) = IF 1 <= n THEN n - 1 + 1 ELSE 0
          /\ \A i \in 1 .. n - 1 + 1 : SubSeq(g, 1, n)[i] = g[1 + i - 1]
      BY <1>1, SubSeqProperties
    <2>2. QED
      BY <1>1, <1>2, <2>1
  <1>4. Peek(Front(g)) = IF n = 0 THEN 0 ELSE g[n]
    <2>1. Peek(Front(g)) = IF n = 0 THEN 0 ELSE Front(g)[n]
      BY <1>3 DEF Peek, Last
    <2>2. QED
      BY <1>1, <1>3, <2>1
  <1>5. DOMAIN Front(g) = 1 .. n /\ DOMAIN g = 1 .. Len(g) /\ Len(g) \in Nat \ {0}
    BY <1>1, <1>3
  <1>6. Peek(Front(g)) = IF Len(g) = 1 THEN 0 ELSE g[Len(g) - 1]
    BY <1>1, <1>4 DEF n
  <1>7. QED
    BY <1>2, <1>3, <1>5, <1>6 DEF n

\* BL and BLR put the return address into LR and on the stack.
LEMMA CallCourse ==
    ASSUME NEW c, CallingConvention(c), NEW d, NEW g \in Seq(Words),
           NEW R \in [Regs -> Words], NEW a \in DOMAIN Code,
           Guest(c, g, R), Landed(c, d, g, R, a, R["lr"]),
           Code[a].op \in {"bl", "blr"}, NEW t \in Callees(c, a)
    PROVE  Course(c, d, g, R, Append(g, a + 1), [R EXCEPT !["lr"] = a + 1], t)
  <1>0. d = 1
    BY ConventionTyped DEF Landed, SideCode
  <1>1. a \in c.main /\ Located(c, g, R, a, R["lr"]) /\ Chained(c, g, R) /\ Held(c, R)
    BY <1>0 DEF Landed, Located, Guest
  <1>2. PICK r \in Words : r = a + 1
    BY CodeWords
  <1>3. PICK S : S = [R EXCEPT !["lr"] = r]
    OBVIOUS
  <1>4. /\ S \in [Regs -> Words] /\ S["lr"] = r
        /\ \A x \in Regs : x # "lr" => S[x] = R[x]
    BY <1>3, ProgramAssumption
  <1>5. r \in c.main /\ r \in c.may["lr"] /\ StaysHome(c, a, r) /\ c.home[a] # "lr"
    BY <1>1, <1>2, ConventionTyped DEF MainCode, RegisterValues
  <1>6. /\ c.keep[a] \subseteq c.keep[r] /\ c.home[r] = c.home[a]
        /\ c.home[r] \in Regs /\ c.home[r] # "lr"
    BY <1>5, ConventionTyped DEF StaysHome
  <1>7. t # 0 /\ Called(c, a, t)
    BY <1>1, ConventionTyped DEF MainCode
  <1>8. Held(c, S)
    BY <1>1, <1>4, <1>5 DEF Held
  <1>9. PICK h, n : h = Append(g, r) /\ n = Len(g)
    OBVIOUS
  <1>10. /\ h # <<>> /\ DOMAIN h = 1 .. n + 1 /\ DOMAIN g = 1 .. n /\ n \in Nat
         /\ h[n + 1] = r /\ \A j \in 1 .. n : h[j] = g[j]
         /\ Peek(h) = r /\ Peek(g) = IF n = 0 THEN 0 ELSE g[n]
    BY <1>9, PushEntry
  <1>11. Chained(c, h, S)
    <2> SUFFICES ASSUME NEW j \in 1 .. n + 1
                 PROVE  /\ h[j] \in c.main /\ c.home[h[j]] # "lr"
                        /\ S[c.home[h[j]]] = IF j = 1 THEN 0 ELSE h[j - 1]
                        /\ \A i \in 1 .. n + 1 : i < j => c.home[h[i]] \in c.keep[h[j]]
      BY <1>10 DEF Chained
    <2>1. CASE j = n + 1
      <3>1. S[c.home[r]] = IF n = 0 THEN 0 ELSE g[n]
        BY <1>1, <1>4, <1>5, <1>6, <1>10, ConventionTyped DEF Located
      <3>2. (IF j = 1 THEN 0 ELSE h[j - 1]) = IF n = 0 THEN 0 ELSE g[n]
        BY <1>10, <2>1
      <3>3. ASSUME NEW i \in 1 .. n + 1, i < j PROVE c.home[h[i]] \in c.keep[r]
        <4>1. i \in 1 .. n
          BY <1>10, <2>1, <3>3
        <4>2. c.home[g[i]] \in c.keep[a]
          BY <1>1, <1>10, <4>1, ConventionTyped DEF Located
        <4>3. QED
          BY <1>6, <1>10, <4>1, <4>2
      <3>4. QED
        BY <1>5, <1>6, <1>10, <2>1, <3>1, <3>2, <3>3
    <2>2. CASE j # n + 1
      <3>1. j \in 1 .. n /\ h[j] = g[j]
        BY <1>10, <2>2
      <3>2. /\ g[j] \in c.main /\ c.home[g[j]] # "lr"
            /\ R[c.home[g[j]]] = IF j = 1 THEN 0 ELSE g[j - 1]
            /\ \A i \in 1 .. n : i < j => c.home[g[i]] \in c.keep[g[j]]
        BY <1>1, <1>10, <3>1 DEF Chained
      <3>3. S[c.home[g[j]]] = R[c.home[g[j]]]
        BY <1>4, <3>2, ConventionTyped
      <3>4. (IF j = 1 THEN 0 ELSE h[j - 1]) = IF j = 1 THEN 0 ELSE g[j - 1]
        BY <1>10, <3>1
      <3>5. ASSUME NEW i \in 1 .. n + 1, i < j PROVE c.home[h[i]] \in c.keep[g[j]]
        <4>1. i \in 1 .. n
          BY <1>10, <3>1, <3>5
        <4>2. QED
          BY <1>10, <3>2, <3>5, <4>1
      <3>6. QED
        BY <3>1, <3>2, <3>3, <3>4, <3>5
    <2>3. QED
      BY <2>1, <2>2
  <1>12. Located(c, h, S, t, r)
    <2>1. ASSUME t \in DOMAIN Code
          PROVE  t \in c.main /\ c.home[t] = "lr" /\ \A j \in 1 .. n + 1 : c.home[h[j]] \in c.keep[t]
      <3>1. /\ t \in c.main /\ c.home[t] = "lr"
            /\ c.keep[r] \subseteq c.keep[t] /\ c.home[r] \in c.keep[t]
        BY <1>2, <1>7, <2>1 DEF Called
      <3>2. ASSUME NEW j \in 1 .. n + 1 PROVE c.home[h[j]] \in c.keep[t]
        <4>1. CASE j = n + 1
          BY <1>10, <3>1, <4>1
        <4>2. CASE j # n + 1
          <5>1. j \in 1 .. n
            BY <1>10, <4>2
          <5>2. c.home[g[j]] \in c.keep[a]
            BY <1>1, <1>10, <5>1, ConventionTyped DEF Located
          <5>3. QED
            BY <1>6, <1>10, <3>1, <5>1, <5>2
        <4>3. QED
          BY <4>1, <4>2
      <3>3. QED
        BY <3>1, <3>2
    <2>2. QED
      BY <1>7, <1>10, <2>1 DEF Located
  <1>13. Course(c, d, g, R, h, S, t)
    BY <1>0, <1>4, <1>8, <1>11, <1>12 DEF Course, Guest, Landed
  <1>14. QED
    BY <1>2, <1>3, <1>9, <1>13

\* RET goes to the entry on top of the stack, and takes it off; the last one
\* ends the run.
LEMMA RetCourse ==
    ASSUME NEW c, CallingConvention(c), NEW d, NEW g \in Seq(Words),
           NEW R \in [Regs -> Words], NEW a \in DOMAIN Code,
           Guest(c, g, R), Landed(c, d, g, R, a, R["lr"]), Code[a].op = "ret"
    PROVE  /\ R[Code[a].rn] = Peek(g)
           /\ Course(c, d, g, R, IF g = <<>> THEN g ELSE Front(g), R, Peek(g))
  <1>0. d = 1
    BY ConventionTyped DEF Landed, SideCode
  <1>1. a \in c.main /\ Located(c, g, R, a, R["lr"]) /\ Chained(c, g, R) /\ Held(c, R)
    BY <1>0 DEF Landed, Located, Guest
  <1>2. R[Code[a].rn] = Peek(g)
    <2>1. Code[a].rn = c.home[a]
      BY <1>1, ConventionTyped DEF MainCode
    <2>2. QED
      BY <1>1, <2>1 DEF Located
  <1>3. CASE g = <<>>
    <2>1. Peek(g) = 0 /\ 0 \notin DOMAIN Code
      BY <1>3, CodeWords DEF Peek
    <2>2. Located(c, g, R, Peek(g), R["lr"])
      BY <1>3, <2>1 DEF Located
    <2>3. QED
      BY <1>0, <1>1, <1>2, <1>3, <2>2 DEF Course, Guest, Landed
  <1>4. CASE g # <<>>
    <2>1. PICK h, n : h = Front(g) /\ n = Len(g)
      OBVIOUS
    <2>2. /\ n \in Nat \ {0} /\ DOMAIN h = 1 .. n - 1 /\ DOMAIN g = 1 .. n
          /\ \A j \in 1 .. n - 1 : h[j] = g[j]
          /\ Peek(g) = g[n] /\ Peek(h) = IF n = 1 THEN 0 ELSE g[n - 1]
      BY <1>4, <2>1, PopEntry
    <2>3. /\ g[n] \in c.main /\ c.home[g[n]] # "lr"
          /\ R[c.home[g[n]]] = IF n = 1 THEN 0 ELSE g[n - 1]
          /\ \A i \in 1 .. n : i < n => c.home[g[i]] \in c.keep[g[n]]
      <3>1. n \in DOMAIN g
        BY <2>2
      <3>2. QED
        BY <1>1, <2>2, <3>1 DEF Chained
    <2>4. \A j \in 1 .. n - 1 : j \in 1 .. n /\ j < n /\ (j # 1 => j - 1 \in 1 .. n - 1)
      BY <2>2
    <2>5. Chained(c, h, R)
      <3> SUFFICES ASSUME NEW j \in 1 .. n - 1
                   PROVE  /\ h[j] \in c.main /\ c.home[h[j]] # "lr"
                          /\ R[c.home[h[j]]] = IF j = 1 THEN 0 ELSE h[j - 1]
                          /\ \A i \in 1 .. n - 1 : i < j => c.home[h[i]] \in c.keep[h[j]]
        BY <2>2 DEF Chained
      <3>1. /\ g[j] \in c.main /\ c.home[g[j]] # "lr"
            /\ R[c.home[g[j]]] = IF j = 1 THEN 0 ELSE g[j - 1]
            /\ \A i \in 1 .. n : i < j => c.home[g[i]] \in c.keep[g[j]]
        BY <1>1, <2>2, <2>4 DEF Chained
      <3>2. h[j] = g[j] /\ (j # 1 => h[j - 1] = g[j - 1])
        BY <2>2, <2>4
      <3>3. \A i \in 1 .. n - 1 : i \in 1 .. n /\ h[i] = g[i]
        BY <2>2, <2>4
      <3>4. QED
        BY <3>1, <3>2, <3>3
    <2>6. Located(c, h, R, g[n], R["lr"])
      <3>1. g[n] # 0
        BY <2>3, ConventionTyped, CodeWords
      <3>2. \A j \in DOMAIN h : c.home[h[j]] \in c.keep[g[n]]
        BY <2>2, <2>3, <2>4
      <3>3. QED
        BY <2>2, <2>3, <3>1, <3>2 DEF Located
    <2>7. QED
      BY <1>0, <1>1, <1>2, <1>4, <2>1, <2>2, <2>5, <2>6 DEF Course, Guest, Landed
  <1>5. QED
    BY <1>3, <1>4

-----------------------------------------------------------------------------
(***************************************************************************)
(* The calls in progress: the outermost runs main code, the nested ones    *)
(* side code, and all but the topmost are in a callback.                   *)
(***************************************************************************)

\* Where a cursor goes on after its instruction, if that does not branch.
After(k) == IF k.pc_modified THEN k.pc ELSE k.pc + 1

\* Where a call with frame f and cursor k goes on, and what it finds in LR.
Goes(f, k) ==
    CASE f.phase = "hook" -> f.target
      [] f.phase = "observer" -> After(k)
      [] OTHER -> k.pc

LrOf(f, R) == IF f.phase \in Callout THEN f.lr ELSE R["lr"]

OnCourse(c, d, g, R, f, k) ==
    LrOf(f, R) \in c.may["lr"] /\ Landed(c, d, g, R, Goes(f, k), LrOf(f, R))

CursorAt(F, k, d) == IF d = Len(F) THEN k ELSE F[d + 1].saved_cursor

Matched(c, g, R, F, k) ==
    /\ Guest(c, g, R)
    /\ F = <<>> => g = <<>>
    /\ F # <<>> => F[1].kind = "run"
    /\ \A d \in 1 .. Len(F) - 1 : F[d].phase \in Callout
    /\ \A d \in 1 .. Len(F) : OnCourse(c, d, g, R, F[d], CursorAt(F, k, d))

ReturnInv(c) ==
    aborted # "gcs" /\ (aborted = "no" => Matched(c, gcs, regs, frames, cur))

\* A call in a callback does not read LR from the registers.
LEMMA InCalloutOnCourse ==
    ASSUME NEW c, CallingConvention(c), NEW d, NEW g, NEW R, NEW S, HomesKept(c, R, S),
           NEW f, NEW k, f.phase \in Callout, OnCourse(c, d, g, R, f, k)
    PROVE  OnCourse(c, d, g, S, f, k)
  <1>1. LrOf(f, R) = f.lr /\ LrOf(f, S) = f.lr
    BY DEF LrOf
  <1>2. QED
    BY <1>1, SameHomes DEF OnCourse

\* The topmost call moves on.
LEMMA MoveMatched ==
    ASSUME NEW c, CallingConvention(c), NEW g, NEW R, NEW h, NEW S, NEW k, NEW l,
           NEW F \in Seq(Frame), F # <<>>, NEW f \in Frame, NEW G,
           G = [F EXCEPT ![Len(F)] = f],
           f.kind = F[Len(F)].kind, f.saved_cursor = F[Len(F)].saved_cursor,
           Matched(c, g, R, F, k), Guest(c, h, S), OnCourse(c, Len(F), h, S, f, l),
           Len(F) # 1 => h = g /\ HomesKept(c, R, S)
    PROVE  Matched(c, h, S, G, l)
  <1>0. PICK n \in Nat \ {0} : n = Len(F) /\ n \in 1 .. Len(F)
    OBVIOUS
  <1>1. /\ Len(G) = n /\ G[n] = f /\ \A d \in 1 .. n : d # n => G[d] = F[d]
    BY <1>0, ExceptSeq
  <1>2. \A d \in 1 .. n - 1 : d \in 1 .. n /\ d # n /\ d + 1 \in 1 .. n
    BY <1>0
  <1>3. \A d \in 1 .. n - 1 : G[d] = F[d] /\ G[d].phase \in Callout
    BY <1>0, <1>1, <1>2 DEF Matched
  <1>4. G # <<>> /\ G[1].kind = "run"
    <2>1. F[1].kind = "run" /\ (1 = n \/ 1 \in 1 .. n - 1)
      BY <1>0 DEF Matched
    <2>2. QED
      BY <1>0, <1>1, <1>3, <2>1
  <1>5. ASSUME NEW d \in 1 .. n PROVE OnCourse(c, d, h, S, G[d], CursorAt(G, l, d))
    <2>1. CASE d = n
      BY <1>0, <1>1, <2>1 DEF CursorAt
    <2>2. CASE d # n
      <3>1. d \in 1 .. n - 1 /\ n # 1
        BY <1>0, <2>2
      <3>2. F[d].phase \in Callout /\ G[d] = F[d]
        BY <1>3, <3>1
      <3>3. CursorAt(G, l, d) = CursorAt(F, k, d)
        <4>1. G[d + 1].saved_cursor = F[d + 1].saved_cursor
          BY <1>0, <1>1, <1>2, <3>1
        <4>2. QED
          BY <1>0, <1>1, <2>2, <4>1 DEF CursorAt
      <3>4. OnCourse(c, d, g, R, F[d], CursorAt(F, k, d))
        BY <1>0 DEF Matched
      <3>5. h = g /\ HomesKept(c, R, S)
        BY <1>0, <3>1
      <3>6. QED
        BY <3>2, <3>3, <3>4, <3>5, InCalloutOnCourse
    <2>3. QED
      BY <2>1, <2>2
  <1>6. QED
    BY <1>1, <1>3, <1>4, <1>5 DEF Matched

\* A call starts: at top level with LR null, or in a callback.
LEMMA PushMatched ==
    ASSUME NEW c, CallingConvention(c), NEW g, NEW R, NEW k, NEW l,
           NEW F \in Seq(Frame), NEW f \in Frame,
           F # <<>> => F[Len(F)].phase \in Callout /\ f.saved_cursor = k,
           F = <<>> => f.kind = "run",
           Matched(c, g, R, F, k), OnCourse(c, Len(F) + 1, g, R, f, l)
    PROVE  Matched(c, g, R, Append(F, f), l)
  <1>0. PICK n \in Nat : n = Len(F) /\ (F = <<>> <=> n = 0)
    OBVIOUS
  <1>1. PICK G : G = Append(F, f)
    OBVIOUS
  <1>2. /\ Len(G) = n + 1 /\ G[n + 1] = f /\ \A d \in 1 .. n : G[d] = F[d]
    BY <1>0, <1>1, AppendProperties
  <1>3. ASSUME NEW d \in 1 .. n PROVE G[d].phase \in Callout
    <2>1. CASE d = n
      BY <1>0, <1>2, <2>1
    <2>2. CASE d # n
      <3>1. d \in 1 .. n - 1
        BY <1>0, <2>2
      <3>2. QED
        BY <1>0, <1>2, <3>1 DEF Matched
    <2>3. QED
      BY <2>1, <2>2
  <1>4. G # <<>> /\ G[1].kind = "run"
    <2>1. CASE n = 0
      BY <1>0, <1>2, <2>1
    <2>2. CASE n # 0
      <3>1. 1 \in 1 .. n
        BY <1>0, <2>2
      <3>2. QED
        BY <1>0, <1>2, <2>2, <3>1 DEF Matched
    <2>3. QED
      BY <2>1, <2>2
  <1>5. ASSUME NEW d \in 1 .. n + 1 PROVE OnCourse(c, d, g, R, G[d], CursorAt(G, l, d))
    <2>1. CASE d = n + 1
      BY <1>0, <1>2, <2>1 DEF CursorAt
    <2>2. CASE d # n + 1
      <3>1. d \in 1 .. n /\ n # 0
        BY <1>0, <2>2
      <3>2. CursorAt(G, l, d) = CursorAt(F, k, d)
        <4>1. CASE d = n
          BY <1>0, <1>2, <3>1, <4>1 DEF CursorAt
        <4>2. CASE d # n
          <5>1. d + 1 \in 1 .. n
            BY <1>0, <3>1, <4>2
          <5>2. QED
            BY <1>0, <1>2, <3>1, <4>2, <5>1 DEF CursorAt
        <4>3. QED
          BY <4>1, <4>2
      <3>3. OnCourse(c, d, g, R, F[d], CursorAt(F, k, d))
        BY <1>0, <3>1 DEF Matched
      <3>4. QED
        BY <1>2, <3>1, <3>2, <3>3
    <2>3. QED
      BY <2>1, <2>2
  <1>6. \A d \in 1 .. Len(G) - 1 : d \in 1 .. n
    BY <1>0, <1>2
  <1>7. QED
    BY <1>1, <1>2, <1>3, <1>4, <1>5, <1>6 DEF Matched

\* A call ends; the outermost is a run, and ends at the sentinel.
LEMMA PopMatched ==
    ASSUME NEW c, CallingConvention(c), NEW g, NEW R, NEW k, NEW l,
           NEW F \in Seq(Frame), F # <<>>, F[Len(F)].phase \notin Callout,
           Len(F) = 1 => k.pc = 0, Len(F) # 1 => l = F[Len(F)].saved_cursor,
           Matched(c, g, R, F, k), NEW G \in Seq(Frame), Len(G) = Len(F) - 1,
           \A d \in 1 .. Len(F) - 1 : G[d] = F[d]
    PROVE  Matched(c, g, R, G, l)
  <1>0. PICK n \in Nat \ {0} : n = Len(F) /\ n \in 1 .. Len(F)
    OBVIOUS
  <1>1. CASE n = 1
    <2>1. OnCourse(c, 1, g, R, F[1], k)
      BY <1>0, <1>1 DEF Matched, CursorAt
    <2>2. Goes(F[1], k) = 0
      BY <1>0, <1>1 DEF Goes, Callout
    <2>3. g = <<>>
      BY <2>1, <2>2 DEF OnCourse, Landed, Located
    <2>4. G = <<>> /\ Len(G) = 0
      BY <1>0, <1>1
    <2>5. Guest(c, g, R) /\ (\A d \in 1 .. Len(G) : FALSE) /\ (\A d \in 1 .. Len(G) - 1 : FALSE)
      <3>1. Guest(c, g, R)
        BY DEF Matched
      <3>2. ASSUME NEW d \in 1 .. 0 PROVE FALSE
        OBVIOUS
      <3>3. ASSUME NEW d \in 1 .. 0 - 1 PROVE FALSE
        OBVIOUS
      <3>4. QED
        BY <2>4, <3>1, <3>2, <3>3
    <2>6. QED
      BY <2>3, <2>4, <2>5 DEF Matched
  <1>2. CASE n # 1
    <2>1. /\ G # <<>> /\ Len(G) = n - 1 /\ 1 \in 1 .. n - 1
          /\ \A d \in 1 .. n - 1 : G[d] = F[d] /\ d \in 1 .. n
      BY <1>0, <1>2
    <2>2. G[1].kind = "run"
      BY <1>0, <2>1 DEF Matched
    <2>3. \A d \in 1 .. n - 1 : F[d].phase \in Callout
      BY <1>0 DEF Matched
    <2>4. \A d \in 1 .. n - 1 - 1 : d \in 1 .. n - 1
      BY <1>0
    <2>5. ASSUME NEW d \in 1 .. n - 1 PROVE OnCourse(c, d, g, R, G[d], CursorAt(G, l, d))
      <3>1. OnCourse(c, d, g, R, F[d], CursorAt(F, k, d))
        BY <1>0, <2>1 DEF Matched
      <3>2. CursorAt(G, l, d) = CursorAt(F, k, d)
        <4>1. CASE d = n - 1
          BY <1>0, <1>2, <2>1, <4>1 DEF CursorAt
        <4>2. CASE d # n - 1
          <5>1. d + 1 \in 1 .. n - 1 /\ d # n
            BY <1>0, <4>2
          <5>2. QED
            BY <1>0, <2>1, <4>2, <5>1 DEF CursorAt
        <4>3. QED
          BY <4>1, <4>2
      <3>3. QED
        BY <2>1, <3>1, <3>2
    <2>6. QED
      BY <2>1, <2>2, <2>3, <2>4, <2>5 DEF Matched
  <1>3. QED
    BY <1>1, <1>2

\* The embedder writes LR between calls or in a callback, and BTYPE.
LEMMA EmbedderMatched ==
    ASSUME NEW c, CallingConvention(c), NEW g, NEW R \in [Regs -> Words], NEW k, NEW l,
           NEW S, S = R \/ S = [R EXCEPT !["lr"] = 0], NEW F \in Seq(Frame),
           F # <<>> => /\ F[Len(F)].phase \in Callout
                       /\ l.pc = k.pc /\ l.pc_modified = k.pc_modified,
           Matched(c, g, R, F, k)
    PROVE  Matched(c, g, S, F, l)
  <1>0. "lr" \in Regs /\ 0 \in c.may["lr"] /\ Guest(c, g, R)
    BY ProgramAssumption, ConventionTyped DEF RegisterValues, Matched
  <1>1. HomesKept(c, R, S)
    BY <1>0, ConventionTyped DEF HomesKept
  <1>2. Guest(c, g, S)
    <2>1. Held(c, S)
      BY <1>0 DEF Held, Guest
    <2>2. QED
      BY <1>0, <1>1, <2>1, SameHomes DEF Guest
  <1>3. ASSUME NEW d \in 1 .. Len(F) PROVE OnCourse(c, d, g, S, F[d], CursorAt(F, l, d))
    <2>1. F[d].phase \in Callout
      <3>1. d = Len(F) \/ d \in 1 .. Len(F) - 1
        OBVIOUS
      <3>2. F # <<>>
        OBVIOUS
      <3>3. QED
        BY <3>1, <3>2 DEF Matched
    <2>2. OnCourse(c, d, g, R, F[d], CursorAt(F, k, d))
      BY DEF Matched
    <2>3. Goes(F[d], CursorAt(F, l, d)) = Goes(F[d], CursorAt(F, k, d))
      <3>1. F # <<>>
        OBVIOUS
      <3>2. QED
        BY <3>1 DEF Goes, CursorAt, After
    <2>4. OnCourse(c, d, g, R, F[d], CursorAt(F, l, d))
      BY <2>2, <2>3 DEF OnCourse
    <2>5. QED
      BY <1>1, <2>1, <2>4, InCalloutOnCourse
  <1>4. QED
    BY <1>2, <1>3 DEF Matched

-----------------------------------------------------------------------------
(***************************************************************************)
(* Every step keeps the calls on course.                                   *)
(***************************************************************************)
LEMMA FrameTop ==
    ASSUME CallsTyped, frames # <<>>, NEW c, NEW f \in Frame, NEW k, NEW h, NEW S,
           CallingConvention(c), Matched(c, gcs, regs, frames, cur),
           frames' = [frames EXCEPT ![Depth] = f], cur' = k, gcs' = h, regs' = S,
           f.kind = Top.kind, f.saved_cursor = Top.saved_cursor, aborted' = "no",
           Guest(c, h, S), OnCourse(c, Depth, h, S, f, k),
           Depth # 1 => h = gcs /\ HomesKept(c, regs, S)
    PROVE  ReturnInv(c)'
  <1>1. PICK F, g, R, i : /\ F \in Seq(Frame) /\ F = frames
                          /\ g = gcs /\ R = regs /\ i = cur
    BY DEF CallsTyped
  <1>2. PICK G : G = [F EXCEPT ![Len(F)] = f]
    OBVIOUS
  <1>3. /\ Len(F) = Depth /\ F[Len(F)] = Top /\ frames' = G /\ F # <<>>
    BY <1>1, <1>2 DEF Depth, Top
  <1>4. /\ Matched(c, g, R, F, i) /\ OnCourse(c, Len(F), h, S, f, k)
        /\ Len(F) # 1 => h = g /\ HomesKept(c, R, S)
        /\ f.kind = F[Len(F)].kind /\ f.saved_cursor = F[Len(F)].saved_cursor
    BY <1>1, <1>3
  <1>5. Matched(c, h, S, G, k)
    BY <1>1, <1>2, <1>3, <1>4, MoveMatched
  <1>6. Matched(c, gcs', regs', frames', cur')
    BY <1>3, <1>5
  <1>7. QED
    BY <1>6 DEF ReturnInv

LEMMA CompleteMatched ==
    ASSUME CallsTyped, frames # <<>>, aborted = "no", NEW c, CallingConvention(c),
           Matched(c, gcs, regs, frames, cur), NEW k \in Cursor, NEW m \in BOOLEAN,
           Complete(k, m), NEW h, NEW S, gcs' = h, regs' = S,
           Course(c, Depth, gcs, regs, h, S, After(k))
    PROVE  ReturnInv(c)'
  <1>1. CASE aborted' = "movprfx"
    BY <1>1 DEF ReturnInv
  <1>2. CASE aborted' # "movprfx"
    <2> DEFINE p == IF Top.kind = "step" THEN "done" ELSE "ready"
               f == [Top EXCEPT !.phase = p, !.previous = cur.pc]
    <2>1. /\ cur' = UpdateBType(IncrementPc([k EXCEPT !.last_instr = k.pc]))
          /\ frames' = [frames EXCEPT ![Depth] = [@ EXCEPT !.phase = p, !.previous = cur.pc]] /\ aborted' = "no"
      BY <1>2 DEF Complete
    <2>2. cur'.pc = After(k)
      BY <2>1 DEF UpdateBType, IncrementPc, Cursor, After
    <2>3. /\ f \in Frame /\ f.phase = p /\ p \notin Callout
          /\ f.kind = Top.kind /\ f.saved_cursor = Top.saved_cursor
      <3>1. Top \in Frame /\ p \in {"done", "ready"} /\ cur.pc \in Words
        BY TopType DEF CallsTyped, Cursor
      <3> HIDE DEF p
      <3>2. QED
        BY <3>1 DEF Frame, Callout
    <2>4. frames' = [frames EXCEPT ![Depth] = f]
      BY <2>1, TopType DEF Top
    <2> HIDE DEF f, p
    <2>5. PICK l : l = cur'
      OBVIOUS
    <2>6. OnCourse(c, Depth, h, S, f, l)
      <3>1. LrOf(f, S) = S["lr"] /\ Goes(f, l) = After(k)
        BY <2>2, <2>3, <2>5 DEF LrOf, Goes, Callout
      <3>2. S["lr"] \in c.may["lr"]
        BY ProgramAssumption DEF Course, Guest, Held
      <3>3. QED
        BY <3>1, <3>2 DEF OnCourse, Course
    <2>7. Guest(c, h, S) /\ (Depth # 1 => h = gcs /\ HomesKept(c, regs, S))
      BY DEF Course
    <2>8. QED
      BY <2>1, <2>3, <2>4, <2>5, <2>6, <2>7, FrameTop
  <1>3. QED
    BY <1>1, <1>2

LEMMA CallOutMatched ==
    ASSUME CallsTyped, frames # <<>>, aborted = "no", NEW c, CallingConvention(c),
           Matched(c, gcs, regs, frames, cur), NEW k \in Cursor, NEW phase \in Callout,
           NEW target \in Words, NEW link \in Words, CallOut(k, phase, target, link),
           NEW h, NEW S, gcs' = h, regs' = S, link = S["lr"],
           Course(c, Depth, gcs, regs, h, S, IF phase = "hook" THEN target ELSE After(k))
    PROVE  ReturnInv(c)'
  <1> DEFINE f == [Top EXCEPT !.phase = phase, !.target = target, !.lr = link,
                              !.last_instr_was_movprfx = WasMovprfx,
                              !.inflight = k]
  <1>1. /\ f \in Frame /\ f.phase = phase /\ f.target = target /\ f.lr = link
        /\ f.kind = Top.kind /\ f.saved_cursor = Top.saved_cursor
    <2>1. Top \in Frame /\ phase \in {"ready", "hook", "observer", "done"}
          /\ WasMovprfx \in BOOLEAN
      BY TopType, MovprfxType DEF Callout
    <2>2. QED
      BY <2>1 DEF Frame
  <1>2. cur' = k /\ aborted' = "no" /\ frames' = [frames EXCEPT ![Depth] = f]
    BY TopType DEF CallOut, Top
  <1> HIDE DEF f
  <1>3. OnCourse(c, Depth, h, S, f, k)
    <2>1. LrOf(f, S) = S["lr"] /\ Goes(f, k) = IF phase = "hook" THEN target ELSE After(k)
      BY <1>1 DEF LrOf, Goes, Callout
    <2>2. S["lr"] \in c.may["lr"]
      BY ProgramAssumption DEF Course, Guest, Held
    <2>3. QED
      BY <2>1, <2>2 DEF OnCourse, Course
  <1>4. Guest(c, h, S) /\ (Depth # 1 => h = gcs /\ HomesKept(c, regs, S))
    BY DEF Course
  <1>5. QED
    BY <1>1, <1>2, <1>3, <1>4, FrameTop

LEMMA BranchMatched ==
    ASSUME CallsTyped, frames # <<>>, aborted = "no", NEW c, CallingConvention(c),
           Matched(c, gcs, regs, frames, cur), NEW k \in Cursor,
           NEW target \in Words, NEW link \in Words, GabyHookedWritePc(k, target, link),
           NEW h, NEW S, gcs' = h, regs' = S, link = S["lr"],
           Course(c, Depth, gcs, regs, h, S, target)
    PROVE  ReturnInv(c)'
  <1>1. CASE config.hook
    <2>1. CallOut(k, "hook", target, link) /\ "hook" \in Callout
      BY <1>1 DEF GabyHookedWritePc, Callout
    <2>2. QED
      BY <2>1, CallOutMatched
  <1>2. CASE ~config.hook
    <2>1. PICK l : l = WritePc(k, target)
      OBVIOUS
    <2>2. Complete(l, WasMovprfx) /\ WasMovprfx \in BOOLEAN
      BY <1>2, <2>1, MovprfxType DEF GabyHookedWritePc
    <2>3. l \in Cursor /\ l.pc_modified = TRUE
      BY <2>1, WritePcType
    <2>4. l.pc = target
      BY <2>1 DEF WritePc, Cursor
    <2>5. After(l) = target
      BY <2>3, <2>4 DEF After
    <2>6. QED
      BY <2>2, <2>3, <2>5, CompleteMatched
  <1>3. QED
    BY <1>1, <1>2

LEMMA AbortReturns ==
    ASSUME NEW c, NEW why, why \notin {"no", "gcs"}, Abort(why)
    PROVE  ReturnInv(c)'
  BY DEF Abort, ReturnInv

\* The instruction that runs is on course.
LEMMA ExecutingLanded ==
    ASSUME CallsTyped, NEW c, Matched(c, gcs, regs, frames, cur), NEW ops, Executing(ops)
    PROVE  /\ frames # <<>> /\ cur.pc \in DOMAIN Code /\ Code[cur.pc].op \in ops
           /\ Code[cur.pc] \in Insn /\ Guest(c, gcs, regs)
           /\ Fetched \in Cursor /\ After(Fetched) = cur.pc + 1
           /\ Landed(c, Depth, gcs, regs, cur.pc, regs["lr"])
  <1>1. /\ frames # <<>> /\ cur.pc \in DOMAIN Code /\ Code[cur.pc].op \in ops
        /\ Fetched \in Cursor /\ Fetched.pc = cur.pc /\ Code[cur.pc] \in Insn
    BY ExecutingFinds DEF Executing
  <1>2. After(Fetched) = cur.pc + 1
    BY DEF After, Fetched, CallsTyped, Cursor
  <1>3. Depth \in 1 .. Len(frames) /\ frames[Depth] = Top /\ Top.phase = "ready"
    BY <1>1, TopType DEF Depth, Top, Executing, Stepping
  <1>4. OnCourse(c, Depth, gcs, regs, Top, cur) /\ Guest(c, gcs, regs)
    BY <1>3 DEF Matched, CursorAt, Depth
  <1>5. LrOf(Top, regs) = regs["lr"] /\ Goes(Top, cur) = cur.pc
    BY <1>3 DEF LrOf, Goes, Callout
  <1>6. QED
    BY <1>1, <1>2, <1>4, <1>5 DEF OnCourse

LEMMA InstructionMatched ==
    ASSUME CallsTyped, gcs \in Seq(Words), aborted = "no", NEW c, CallingConvention(c),
           Matched(c, gcs, regs, frames, cur), ExecuteInstruction
    PROVE  ReturnInv(c)'
  <1>0. regs \in [Regs -> Words] /\ "lr" \in Regs /\ WasMovprfx \in BOOLEAN
    BY ProgramAssumption, MovprfxType DEF CallsTyped
  <1>a. ASSUME NEW ops, Executing(ops), "mov" \notin ops, NEW b \in Follows(c, cur.pc)
        PROVE  Course(c, Depth, gcs, regs, gcs, regs, b)
    BY <1>a, ExecutingLanded, FlowCourse
  <1>b. ASSUME NEW ops, Executing(ops), "mov" \notin ops, cur.pc + 1 \in Follows(c, cur.pc),
               Complete(Fetched, WasMovprfx), UNCHANGED <<regs, gcs>>
        PROVE  ReturnInv(c)'
    <2>1. /\ frames # <<>> /\ Fetched \in Cursor /\ After(Fetched) = cur.pc + 1
      BY <1>b, ExecutingLanded
    <2>2. Course(c, Depth, gcs, regs, gcs, regs, After(Fetched))
      BY <1>a, <1>b, <2>1
    <2>3. PICK k \in Cursor : k = Fetched
      BY <2>1
    <2>4. PICK h, S : h = gcs /\ S = regs
      OBVIOUS
    <2>5. /\ Complete(k, WasMovprfx) /\ gcs' = h /\ regs' = S
          /\ Course(c, Depth, gcs, regs, h, S, After(k))
      BY <1>b, <2>2, <2>3, <2>4
    <2>6. QED
      BY <1>0, <2>1, <2>5, CompleteMatched
  <1>1. CASE FetchFault \/ LandingFault \/ BtiFault \/ VisitUnallocated
    BY <1>1, AbortReturns DEF FetchFault, LandingFault, BtiFault, VisitUnallocated
  <1>2. CASE ExecutePlain
    <2>1. Executing(PlainOps) /\ Complete(Fetched, WasMovprfx) /\ UNCHANGED <<regs, gcs>>
      BY <1>2 DEF ExecutePlain
    <2>2. cur.pc + 1 \in Follows(c, cur.pc) /\ "mov" \notin PlainOps
      BY <2>1, ExecutingLanded DEF Follows, PlainOps, BtiOps
    <2>3. QED
      BY <1>b, <2>1, <2>2
  <1>3. CASE ExecuteMov
    <2>1. /\ Executing({"mov"}) /\ Complete(Fetched, WasMovprfx) /\ gcs' = gcs
          /\ regs' = [regs EXCEPT ![Code[cur.pc].rd] = regs[Code[cur.pc].rn]]
      BY <1>3 DEF ExecuteMov
    <2>2. /\ frames # <<>> /\ cur.pc \in DOMAIN Code /\ Code[cur.pc].op = "mov"
          /\ Guest(c, gcs, regs) /\ Fetched \in Cursor /\ After(Fetched) = cur.pc + 1
          /\ Landed(c, Depth, gcs, regs, cur.pc, regs["lr"])
      BY <2>1, ExecutingLanded
    <2>3. PICK k, h, S : /\ k = Fetched /\ h = gcs
                         /\ S = [regs EXCEPT ![Code[cur.pc].rd] = regs[Code[cur.pc].rn]]
      OBVIOUS
    <2>4. Course(c, Depth, gcs, regs, h, S, After(k))
      <3>1. Course(c, Depth, gcs, regs, gcs,
                   [regs EXCEPT ![Code[cur.pc].rd] = regs[Code[cur.pc].rn]], cur.pc + 1)
        BY <1>0, <2>2, MovCourse
      <3>2. QED
        BY <2>2, <2>3, <3>1
    <2>5. Complete(k, WasMovprfx) /\ k \in Cursor /\ gcs' = h /\ regs' = S
      BY <2>1, <2>2, <2>3
    <2>6. QED
      BY <1>0, <2>2, <2>4, <2>5, CompleteMatched
  <1>4. CASE ExecuteStore
    <2>1. Executing({"store"}) /\ UNCHANGED <<regs, gcs>>
      BY <1>4 DEF ExecuteStore
    <2>2. /\ frames # <<>> /\ Fetched \in Cursor /\ After(Fetched) = cur.pc + 1
          /\ cur.pc + 1 \in Follows(c, cur.pc)
      BY <2>1, ExecutingLanded DEF Follows
    <2>3. CASE config.observer
      <3>1. CallOut(Fetched, "observer", 0, regs["lr"])
        BY <1>4, <2>3 DEF ExecuteStore
      <3>2. PICK k, h, S : k = Fetched /\ h = gcs /\ S = regs
        OBVIOUS
      <3>3. /\ k \in Cursor /\ CallOut(k, "observer", 0, S["lr"]) /\ gcs' = h /\ regs' = S
            /\ 0 \in Words /\ S["lr"] \in Words /\ "observer" \in Callout
        BY <1>0, <2>1, <2>2, <3>1, <3>2, CodeWords DEF Callout
      <3>4. Course(c, Depth, gcs, regs, h, S, After(k))
        BY <1>a, <2>1, <2>2, <3>2
      <3>5. Course(c, Depth, gcs, regs, h, S, IF "observer" = "hook" THEN 0 ELSE After(k))
        BY <3>4
      <3>6. QED
        BY <2>2, <3>3, <3>5, CallOutMatched
    <2>4. CASE ~config.observer
      <3>1. Complete(Fetched, WasMovprfx)
        BY <1>4, <2>4 DEF ExecuteStore
      <3>2. QED
        BY <1>b, <2>1, <2>2, <3>1
    <2>5. QED
      BY <2>3, <2>4
  <1>5. CASE DoTrace
    <2>1. /\ Executing({"trace"}) /\ UNCHANGED <<regs, gcs>>
          /\ Complete(WritePc(Fetched, cur.pc + kTraceLength), WasMovprfx)
      BY <1>5 DEF DoTrace
    <2>2. /\ frames # <<>> /\ Fetched \in Cursor /\ cur.pc + kTraceLength \in Words
          /\ cur.pc + kTraceLength \in Follows(c, cur.pc)
      BY <2>1, ExecutingLanded, CodeWords DEF Follows, PlainOps
    <2>3. PICK k, a, h, S : /\ a = cur.pc + kTraceLength /\ k = WritePc(Fetched, a)
                            /\ h = gcs /\ S = regs
      OBVIOUS
    <2>4. k \in Cursor /\ k.pc_modified = TRUE
      BY <2>2, <2>3, WritePcType
    <2>5. k.pc = a
      BY <2>2, <2>3 DEF WritePc, Cursor
    <2>6. After(k) = a
      BY <2>4, <2>5 DEF After
    <2>7. Course(c, Depth, gcs, regs, h, S, After(k))
      BY <1>a, <2>1, <2>2, <2>3, <2>6
    <2>8. Complete(k, WasMovprfx) /\ gcs' = h /\ regs' = S
      BY <2>1, <2>3
    <2>9. QED
      BY <1>0, <2>2, <2>4, <2>7, <2>8, CompleteMatched
  <1>6. CASE VisitUnimplemented
    <2>1. Executing({"unimplemented"})
      BY <1>6 DEF VisitUnimplemented
    <2>2. CASE ReleaseBuild
      <3>1. Complete(Fetched, WasMovprfx) /\ UNCHANGED <<regs, gcs>>
        BY <1>6, <2>2 DEF VisitUnimplemented
      <3>2. cur.pc + 1 \in Follows(c, cur.pc)
        BY <2>1, ExecutingLanded DEF Follows
      <3>3. QED
        BY <1>b, <2>1, <3>1, <3>2
    <2>3. CASE ~ReleaseBuild
      BY <1>6, <2>3, AbortReturns DEF VisitUnimplemented
    <2>4. QED
      BY <2>2, <2>3
  <1>7. CASE VisitUnconditionalBranch
    <2> DEFINE op == Code[cur.pc].op
               lr == IF op = "bl" THEN cur.pc + 1 ELSE regs["lr"]
    <2>1. /\ Executing({"b", "bl"})
          /\ regs' = [regs EXCEPT !["lr"] = lr]
          /\ gcs' = IF op = "bl" THEN Append(gcs, lr) ELSE gcs
          /\ GabyHookedWritePc(Fetched, Code[cur.pc].target, lr)
      BY <1>7 DEF VisitUnconditionalBranch
    <2>2. /\ frames # <<>> /\ cur.pc \in DOMAIN Code /\ op \in {"b", "bl"}
          /\ Guest(c, gcs, regs) /\ Fetched \in Cursor /\ Code[cur.pc] \in Insn
          /\ Landed(c, Depth, gcs, regs, cur.pc, regs["lr"])
      BY <2>1, ExecutingLanded
    <2>3. Code[cur.pc].target \in Words /\ cur.pc + 1 \in Words /\ lr \in Words
      BY <1>0, <2>2, CodeWords DEF Insn
    <2>4. PICK k, t, l, h, S :
             /\ k = Fetched /\ t = Code[cur.pc].target /\ l = lr
             /\ h = gcs' /\ S = regs'
      OBVIOUS
    <2>5. k \in Cursor /\ t \in Words /\ l \in Words /\ GabyHookedWritePc(k, t, l)
      BY <2>1, <2>2, <2>3, <2>4
    <2>6. l = S["lr"]
      BY <1>0, <2>1, <2>4
    <2>7. Course(c, Depth, gcs, regs, h, S, t)
      <3>1. CASE op = "bl"
        <4>1. t \in Callees(c, cur.pc)
          BY <2>4, <3>1 DEF Callees
        <4>2. h = Append(gcs, cur.pc + 1) /\ S = [regs EXCEPT !["lr"] = cur.pc + 1]
          BY <2>1, <2>4, <3>1
        <4>3. QED
          BY <1>0, <2>2, <3>1, <4>1, <4>2, CallCourse
      <3>2. CASE op = "b"
        <4>1. t \in Follows(c, cur.pc)
          BY <2>4, <3>2 DEF Follows, PlainOps
        <4>2. h = gcs /\ S = regs
          BY <1>0, <2>1, <2>4, <3>2
        <4>3. QED
          BY <2>2, <3>2, <4>1, <4>2, FlowCourse
      <3>3. QED
        BY <2>2, <3>1, <3>2
    <2>8. QED
      BY <2>2, <2>4, <2>5, <2>6, <2>7, BranchMatched
  <1>8. CASE VisitConditionalBranch
    <2>1. Executing({"bcond"}) /\ UNCHANGED <<regs, gcs>>
      BY <1>8 DEF VisitConditionalBranch
    <2>2. /\ frames # <<>> /\ cur.pc \in DOMAIN Code /\ Code[cur.pc].op = "bcond"
          /\ Fetched \in Cursor /\ Code[cur.pc] \in Insn
      BY <2>1, ExecutingLanded
    <2>3. {cur.pc + 1, Code[cur.pc].target} \subseteq Follows(c, cur.pc)
      BY <2>2 DEF Follows, PlainOps
    <2>4. CASE Complete(Fetched, WasMovprfx)
      BY <1>b, <2>1, <2>3, <2>4
    <2>5. CASE GabyHookedWritePc(Fetched, Code[cur.pc].target, regs["lr"])
      <3>1. PICK k, t, h, S :
               k = Fetched /\ t = Code[cur.pc].target /\ h = gcs /\ S = regs
        OBVIOUS
      <3>2. /\ k \in Cursor /\ t \in Words /\ S["lr"] \in Words
            /\ GabyHookedWritePc(k, t, S["lr"]) /\ gcs' = h /\ regs' = S
        BY <1>0, <2>1, <2>2, <2>5, <3>1 DEF Insn
      <3>3. Course(c, Depth, gcs, regs, h, S, t)
        BY <1>a, <2>1, <2>3, <3>1
      <3>4. QED
        BY <2>2, <3>2, <3>3, BranchMatched
    <2>6. QED
      BY <1>8, <2>4, <2>5 DEF VisitConditionalBranch
  <1>9. CASE VisitUnconditionalBranchToRegister
    <2> DEFINE insn == Code[cur.pc]
               addr == regs[insn.rn]
               lr == IF insn.op = "blr" THEN cur.pc + 1 ELSE regs["lr"]
               mismatch == /\ insn.op = "ret" /\ GCSPeek # 0
                           /\ addr # 0 /\ addr # GCSPeek
    <2>1. /\ Executing({"br", "blr", "ret"})
          /\ \/ Abort("authentication") \/ (mismatch /\ Abort("gcs"))
             \/ /\ regs' = [regs EXCEPT !["lr"] = lr] /\ gcs' = GcsAfter(insn, lr)
                /\ GabyHookedWritePc(
                     [Fetched EXCEPT !.next_btype = GetBTypeFromInstruction(insn)],
                     addr, lr)
      BY <1>9 DEF VisitUnconditionalBranchToRegister
    <2>2. /\ frames # <<>> /\ cur.pc \in DOMAIN Code /\ insn.op \in {"br", "blr", "ret"}
          /\ Guest(c, gcs, regs) /\ Fetched \in Cursor /\ insn \in Insn
          /\ Landed(c, Depth, gcs, regs, cur.pc, regs["lr"])
      BY <2>1, ExecutingLanded
    <2>3. insn.rn \in Regs /\ addr \in Words /\ cur.pc + 1 \in Words /\ lr \in Words
      <3>1. insn.rn \in Regs
        BY <2>2 DEF Insn
      <3>2. QED
        BY <1>0, <2>2, <3>1, CodeWords
    <2>4. ~mismatch
      <3>1. ASSUME insn.op = "ret" PROVE addr = Peek(gcs)
        BY <1>0, <2>2, <3>1, RetCourse
      <3>2. GCSPeek = Peek(gcs)
        BY DEF GCSPeek, Peek
      <3>3. QED
        BY <3>1, <3>2
    <2>5. CASE Abort("authentication")
      BY <2>5, AbortReturns
    <2>6. CASE /\ regs' = [regs EXCEPT !["lr"] = lr] /\ gcs' = GcsAfter(insn, lr)
               /\ GabyHookedWritePc(
                    [Fetched EXCEPT !.next_btype = GetBTypeFromInstruction(insn)],
                    addr, lr)
      <3>1. PICK k, t, l, h, S :
               /\ k = [Fetched EXCEPT !.next_btype = GetBTypeFromInstruction(insn)]
               /\ t = addr /\ l = lr /\ h = gcs' /\ S = regs'
        OBVIOUS
      <3>2. GetBTypeFromInstruction(insn) \in BTypes
        BY DEF GetBTypeFromInstruction, BTypes, BranchAndLink, DefaultBType,
               BranchFromUnguardedOrToIP, BranchFromGuardedNotToIP
      <3>3. k \in Cursor
        BY <2>2, <3>1, <3>2 DEF Cursor
      <3>4. t \in Words /\ l \in Words /\ GabyHookedWritePc(k, t, l) /\ l = S["lr"]
        BY <1>0, <2>3, <2>6, <3>1
      <3>5. Course(c, Depth, gcs, regs, h, S, t)
        <4>1. CASE insn.op = "br"
          <5>1. h = gcs /\ S = regs
            BY <1>0, <2>6, <3>1, <4>1 DEF GcsAfter
          <5>2. t \in Follows(c, cur.pc)
            BY <2>2, <2>3, <3>1, <4>1 DEF Follows, PlainOps, Guest, Held
          <5>3. QED
            BY <2>2, <4>1, <5>1, <5>2, FlowCourse
        <4>2. CASE insn.op = "blr"
          <5>1. h = Append(gcs, cur.pc + 1) /\ S = [regs EXCEPT !["lr"] = cur.pc + 1]
            BY <2>6, <3>1, <4>2 DEF GcsAfter
          <5>2. t \in Callees(c, cur.pc)
            BY <2>2, <2>3, <3>1, <4>2 DEF Callees, Guest, Held
          <5>3. QED
            BY <1>0, <2>2, <4>2, <5>1, <5>2, CallCourse
        <4>3. CASE insn.op = "ret"
          <5>1. h = (IF gcs = <<>> THEN gcs ELSE Front(gcs)) /\ S = regs
            BY <1>0, <2>6, <3>1, <4>3 DEF GcsAfter
          <5>2. /\ t = Peek(gcs)
                /\ Course(c, Depth, gcs, regs, IF gcs = <<>> THEN gcs ELSE Front(gcs), regs, Peek(gcs))
            BY <1>0, <2>2, <3>1, <4>3, RetCourse
          <5>3. QED
            BY <5>1, <5>2
        <4>4. QED
          BY <2>2, <4>1, <4>2, <4>3
      <3>6. QED
        BY <2>2, <3>1, <3>3, <3>4, <3>5, BranchMatched
    <2>7. QED
      BY <2>1, <2>4, <2>5, <2>6
  <1>10. QED
    BY <1>1, <1>2, <1>3, <1>4, <1>5, <1>6, <1>7, <1>8, <1>9 DEF ExecuteInstruction

\* A callback gives LR back, and its leaf goes on where it was going.
LEMMA ReturnMatched ==
    ASSUME CallsTyped, aborted = "no", NEW c, CallingConvention(c),
           Matched(c, gcs, regs, frames, cur), NEW depth,
           ReturnFromHook(depth) \/ ReturnFromObserver(depth)
    PROVE  ReturnInv(c)'
  <1>1. /\ frames # <<>> /\ Top.phase \in Callout /\ cur \in Cursor
        /\ regs \in [Regs -> Words] /\ Guest(c, gcs, regs)
    BY DEF ReturnFromHook, ReturnFromObserver, InCallback, CallsTyped, Callout, Matched
  <1>2. /\ Top \in Frame /\ Top.lr \in Words /\ Top.target \in Words
        /\ Top.last_instr_was_movprfx \in BOOLEAN
    BY <1>1, TopType DEF Frame
  <1>3. OnCourse(c, Depth, gcs, regs, Top, cur)
    <2>1. Depth \in 1 .. Len(frames) /\ frames[Depth] = Top
      BY <1>1, TopType DEF Depth, Top
    <2>2. QED
      BY <2>1 DEF Matched, CursorAt, Depth
  <1>4. PICK l, a, h, S : /\ l = Top.lr /\ a = Goes(Top, cur) /\ h = gcs
                          /\ S = [regs EXCEPT !["lr"] = l]
    OBVIOUS
  <1>5. l \in Words /\ l \in c.may["lr"] /\ Landed(c, Depth, gcs, regs, a, l)
    BY <1>1, <1>2, <1>3, <1>4 DEF OnCourse, LrOf
  <1>6. Course(c, Depth, gcs, regs, h, S, a)
    BY <1>1, <1>4, <1>5, LrCourse
  <1>7. CASE ReturnFromObserver(depth)
    <2>1. /\ Complete(cur, Top.last_instr_was_movprfx) /\ gcs' = h /\ regs' = S
          /\ Top.phase = "observer"
      BY <1>4, <1>7 DEF ReturnFromObserver, RestoreLr
    <2>2. a = After(cur)
      BY <1>4, <2>1 DEF Goes
    <2>3. PICK k : k = cur
      OBVIOUS
    <2>4. /\ k \in Cursor /\ Complete(k, Top.last_instr_was_movprfx)
          /\ Course(c, Depth, gcs, regs, h, S, After(k))
      BY <1>1, <1>6, <2>1, <2>2, <2>3
    <2>5. QED
      BY <1>1, <1>2, <2>1, <2>4, CompleteMatched
  <1>8. CASE ReturnFromHook(depth)
    <2>1. /\ Top.phase = "hook" /\ gcs' = h /\ regs' = S
          /\ Complete(WritePc(cur, Top.target), Top.last_instr_was_movprfx)
      <3>1. PICK next_pc \in HookResults(Top.target) :
               \/ next_pc = Misaligned
               \/ /\ RestoreLr /\ gcs' = gcs
                  /\ Complete(WritePc(cur, next_pc), Top.last_instr_was_movprfx)
        BY <1>8 DEF ReturnFromHook
      <3>2. next_pc = Top.target
        BY <3>1, ConventionTyped DEF HookResults, PlainEmbedder
      <3>3. next_pc # Misaligned
        <4>1. \A w \in Words : w >= 0
          BY DEF Words
        <4>2. QED
          BY <1>2, <3>2, <4>1 DEF Misaligned
      <3>4. QED
        BY <1>4, <1>8, <3>1, <3>2, <3>3 DEF ReturnFromHook, RestoreLr
    <2>2. a = Top.target
      BY <1>4, <2>1 DEF Goes
    <2>3. PICK k : k = WritePc(cur, Top.target)
      OBVIOUS
    <2>4. k \in Cursor /\ k.pc_modified = TRUE
      BY <1>1, <1>2, <2>3, WritePcType
    <2>5. k.pc = Top.target
      BY <1>1, <2>3 DEF WritePc, Cursor
    <2>6. After(k) = a
      BY <2>2, <2>4, <2>5 DEF After
    <2>7. Complete(k, Top.last_instr_was_movprfx) /\ Course(c, Depth, gcs, regs, h, S, After(k))
      BY <1>6, <2>1, <2>3, <2>6
    <2>8. QED
      BY <1>1, <1>2, <2>1, <2>4, <2>7, CompleteMatched
  <1>9. QED
    BY <1>7, <1>8

\* A run starts at a function's entry with LR null, a nested call in side code.
LEMMA EnterMatched ==
    ASSUME CallsInv, aborted = "no", NEW c, CallingConvention(c),
           Matched(c, gcs, regs, frames, cur), NEW track \in {"cache", "debug"},
           NEW kind \in {"run", "step"}, NEW entry_pc \in DOMAIN Code,
           Enter(track, kind, entry_pc),
           \/ /\ frames = <<>> /\ kind = "run" /\ regs["lr"] = 0
              /\ entry_pc \in c.main /\ c.home[entry_pc] = "lr"
           \/ frames # <<>> /\ Top.phase \in Callout /\ entry_pc \in c.side
    PROVE  ReturnInv(c)'
  <1>1. CASE track = "cache" /\ ~config.cache
    BY <1>1, AbortReturns DEF Enter
  <1>2. CASE ~(track = "cache" /\ ~config.cache)
    <2>0. CallsTyped /\ cur \in Cursor /\ regs \in [Regs -> Words] /\ frames \in Seq(Frame)
      BY DEF CallsInv, CallsTyped
    <2>1. PICK f, l : f = NewFrame(track, kind) /\ l = WritePc(cur, entry_pc)
      OBVIOUS
    <2>2. entry_pc # None
      BY CodeWords, EmbedderAssumption
    <2>3. /\ frames' = Append(frames, f) /\ cur' = l /\ gcs' = gcs /\ regs' = regs
          /\ aborted' = "no"
      BY <1>2, <2>1, <2>2 DEF Enter
    <2>4. /\ f \in Frame /\ f.phase = "ready" /\ f.kind = kind
          /\ frames # <<>> => f.saved_cursor = cur
      <3>1. busy = (frames # <<>>)
        BY DEF CallsInv, ScopesNest
      <3>2. QED
        BY <2>1, <3>1, ZeroCursorType, CodeWords
        DEF CallsInv, NewFrame, Frame, CallsTyped, GabySaveCursor, Masks
    <2>5. l.pc = entry_pc
      BY <2>0, <2>1 DEF WritePc, Cursor
    <2>6. OnCourse(c, Len(frames) + 1, gcs, regs, f, l)
      <3>1. Goes(f, l) = entry_pc /\ LrOf(f, regs) = regs["lr"]
        BY <2>4, <2>5 DEF Goes, LrOf, Callout
      <3>2. regs["lr"] \in c.may["lr"]
        BY ProgramAssumption DEF Matched, Guest, Held
      <3>3. Landed(c, Len(frames) + 1, gcs, regs, entry_pc, regs["lr"])
        <4>1. CASE frames = <<>>
          <5>1. gcs = <<>> /\ Len(frames) = 0 /\ entry_pc # 0
            BY <4>1, CodeWords DEF Matched
          <5>2. Located(c, gcs, regs, entry_pc, regs["lr"])
            BY <4>1, <5>1 DEF Located, Peek
          <5>3. QED
            BY <5>1, <5>2 DEF Landed
        <4>2. CASE frames # <<>>
          <5>1. Len(frames) + 1 # 1
            BY <2>0, <4>2
          <5>2. QED
            BY <4>2, <5>1 DEF Landed
        <4>3. QED
          BY <4>1, <4>2
      <3>4. QED
        BY <3>1, <3>2, <3>3 DEF OnCourse
    <2>7. PICK F, g, R, i : F = frames /\ g = gcs /\ R = regs /\ i = cur
      OBVIOUS
    <2>8. /\ F \in Seq(Frame) /\ (F = <<>> => f.kind = "run")
          /\ F # <<>> => F[Len(F)].phase \in Callout /\ f.saved_cursor = i
          /\ Matched(c, g, R, F, i) /\ OnCourse(c, Len(F) + 1, g, R, f, l)
      BY <2>0, <2>4, <2>6, <2>7 DEF Top, Depth
    <2>9. Matched(c, g, R, Append(F, f), l)
      BY <2>4, <2>8, PushMatched
    <2>10. Matched(c, gcs', regs', frames', cur')
      BY <2>3, <2>7, <2>9
    <2>11. QED
      BY <2>3, <2>10 DEF ReturnInv
  <1>3. QED
    BY <1>1, <1>2

LEMMA LeaveMatched ==
    ASSUME CallsInv, aborted = "no", NEW c, CallingConvention(c),
           Matched(c, gcs, regs, frames, cur), Leave
    PROVE  ReturnInv(c)'
  <1>0. /\ CallsTyped /\ frames # <<>> /\ frames \in Seq(Frame)
        /\ Top.phase \notin Callout /\ Depth \in Nat \ {0} /\ Depth \in 1 .. Depth
        /\ Top.phase = "done" \/ cur.pc = 0
        /\ frames' = Front(frames) /\ gcs' = gcs /\ regs' = regs /\ aborted' = "no"
        /\ cur' = IF Top.nested THEN Top.saved_cursor ELSE cur
    BY TopType
    DEF CallsInv, CallsTyped, Leave, Callout, kEndOfSimAddress, GabyRestoreCursor
  <1>1. /\ frames' \in Seq(Frame) /\ Len(frames') = Depth - 1
        /\ \A d \in 1 .. Depth - 1 : frames'[d] = frames[d]
    BY <1>0, DropTop
  <1>2. Depth = 1 => cur.pc = 0
    <2>1. Depth = 1 => Top.kind = "run"
      BY <1>0 DEF Matched, Top
    <2>2. Top.kind = "run" => Top.phase # "done"
      BY <1>0 DEF CallsInv, RunsGoOn, Top
    <2>3. QED
      BY <1>0, <2>1, <2>2
  <1>3. Depth # 1 => cur' = Top.saved_cursor
    <2>1. Top.nested = (Depth # 1)
      BY <1>0 DEF CallsInv, ScopesNest, Top
    <2>2. QED
      BY <1>0, <2>1
  <1>4. PICK F, g, R, k, G, l :
           /\ F = frames /\ g = gcs /\ R = regs /\ k = cur /\ G = frames' /\ l = cur'
    OBVIOUS
  <1>5. /\ F \in Seq(Frame) /\ F # <<>> /\ F[Len(F)].phase \notin Callout
        /\ Len(F) = 1 => k.pc = 0
        /\ Len(F) # 1 => l = F[Len(F)].saved_cursor
        /\ Matched(c, g, R, F, k) /\ G \in Seq(Frame) /\ Len(G) = Len(F) - 1
        /\ \A d \in 1 .. Len(F) - 1 : G[d] = F[d]
    BY <1>0, <1>1, <1>2, <1>3, <1>4 DEF Top, Depth
  <1>6. Matched(c, g, R, G, l)
    BY <1>5, PopMatched
  <1>7. Matched(c, gcs', regs', frames', cur')
    BY <1>0, <1>4, <1>6
  <1>8. QED
    BY <1>0, <1>7 DEF ReturnInv

LEMMA ReturnStep ==
    ASSUME NEW c, CallingConvention(c)
    PROVE  CallsInv /\ RestTyped /\ ReturnInv(c) /\ [Next]_vars => ReturnInv(c)'
  <1> SUFFICES ASSUME CallsInv, RestTyped, ReturnInv(c), [Next]_vars
               PROVE  ReturnInv(c)'
    OBVIOUS
  <1>0. CallsTyped /\ gcs \in Seq(Words)
    BY DEF CallsInv, RestTyped
  <1>1. CASE aborted # "no"
    <2>1. UNCHANGED aborted
      BY <1>1
      DEF Next, TopLevelCall, NestedCall, Idle, InCallback, Leave, ExecuteInstruction,
          FetchFault, LandingFault, BtiFault, ExecutePlain, ExecuteMov, ExecuteStore, DoTrace,
          VisitUnallocated, VisitUnimplemented, VisitUnconditionalBranch,
          VisitConditionalBranch, VisitUnconditionalBranchToRegister, Executing,
          Stepping, ReturnFromHook, ReturnFromObserver, WriteLr, WritePcRegister,
          WriteBType, Configure, Dead, vars
    <2>2. QED
      BY <1>1, <2>1 DEF ReturnInv
  <1>2. CASE aborted = "no"
    <2>0. Matched(c, gcs, regs, frames, cur)
      BY <1>2 DEF ReturnInv
    <2>1. ASSUME NEW track \in Tracks, NEW kind \in TopCalls, TopLevelCall(track, kind)
          PROVE  ReturnInv(c)'
      <3>1. track \in {"cache", "debug"} /\ kind = "run"
        BY EmbedderAssumption, ConventionTyped DEF PlainEmbedder
      <3>2. PICK entry_pc \in Entries : Enter(track, kind, entry_pc)
        BY <2>1, <3>1 DEF TopLevelCall
      <3>3. /\ frames = <<>> /\ regs["lr"] = 0 /\ entry_pc \in DOMAIN Code
            /\ entry_pc \in c.main /\ c.home[entry_pc] = "lr"
        BY <2>1, <3>1, <3>2, EmbedderAssumption, ConventionTyped
        DEF TopLevelCall, Idle, Arranged, PlainEmbedder
      <3>4. QED
        BY <1>2, <2>0, <3>1, <3>2, <3>3, EnterMatched
    <2>2. ASSUME NEW track \in Tracks, NEW kind \in {"run", "step"}, NestedCall(track, kind)
          PROVE  ReturnInv(c)'
      <3>1. PICK entry_pc \in NestedEntries : Enter(track, kind, entry_pc)
        BY <2>2 DEF NestedCall
      <3>2. /\ track \in {"cache", "debug"} /\ entry_pc \in DOMAIN Code
            /\ entry_pc \in c.side /\ frames # <<>> /\ Top.phase \in Callout
        BY <2>2, <3>1, EmbedderAssumption, ConventionTyped
        DEF NestedCall, InCallback, Callout, PlainEmbedder
      <3>3. QED
        BY <1>2, <2>0, <3>1, <3>2, EnterMatched
    <2>3. CASE Leave
      BY <1>2, <2>0, <2>3, LeaveMatched
    <2>4. CASE ExecuteInstruction
      BY <1>0, <1>2, <2>0, <2>4, InstructionMatched
    <2>5. ASSUME NEW depth \in 1 .. MaxDepth,
                 ReturnFromHook(depth) \/ ReturnFromObserver(depth)
          PROVE  ReturnInv(c)'
      BY <1>0, <1>2, <2>0, <2>5, ReturnMatched
    <2>6. CASE WriteLr \/ WritePcRegister \/ WriteBType
      <3>1. /\ frames' = frames /\ gcs' = gcs /\ aborted' = "no"
            /\ regs' = regs \/ regs' = [regs EXCEPT !["lr"] = 0]
        BY <1>2, <2>6 DEF WriteLr, WritePcRegister, WriteBType
      <3>2. frames # <<>> => /\ Top.phase \in Callout
                             /\ cur'.pc = cur.pc /\ cur'.pc_modified = cur.pc_modified
        BY <2>6
        DEF WriteLr, WritePcRegister, WriteBType, Idle, InCallback, Callout,
            UpdateBType, CallsInv, CallsTyped, Cursor
      <3>3. PICK F, g, R, k, S, l :
               /\ F = frames /\ g = gcs /\ R = regs /\ k = cur /\ S = regs' /\ l = cur'
        OBVIOUS
      <3>4. /\ F \in Seq(Frame) /\ R \in [Regs -> Words] /\ Matched(c, g, R, F, k)
            /\ S = R \/ S = [R EXCEPT !["lr"] = 0]
            /\ F # <<>> => /\ F[Len(F)].phase \in Callout
                           /\ l.pc = k.pc /\ l.pc_modified = k.pc_modified
        BY <1>0, <2>0, <3>1, <3>2, <3>3 DEF CallsTyped, Top, Depth
      <3>5. Matched(c, g, S, F, l)
        BY <3>4, EmbedderMatched
      <3>6. Matched(c, gcs', regs', frames', cur')
        BY <3>1, <3>3, <3>5
      <3>7. QED
        BY <3>1, <3>6 DEF ReturnInv
    <2>7. CASE Configure \/ Dead \/ UNCHANGED vars
      <3>1. UNCHANGED <<cur, regs, gcs, frames, aborted>>
        BY <2>7 DEF Configure, Dead, vars
      <3>2. Matched(c, gcs', regs', frames', cur') /\ aborted' = "no"
        BY <1>2, <2>0, <3>1
      <3>3. QED
        BY <3>2 DEF ReturnInv
    <2>8. QED
      BY <2>1, <2>2, <2>3, <2>4, <2>5, <2>6, <2>7 DEF Next
  <1>3. QED
    BY <1>1, <1>2

\* A guest that keeps its calling convention never fails a check of the
\* Guarded Control Stack, whatever hooks and observers it runs under and
\* whatever its callbacks run, as long as what they run does not return with
\* RET: VisitUnconditionalBranchToRegister finds on the stack the address that
\* the guest returns to.  This holds for every program, register set and depth
\* of nested calls.
THEOREM ReturnsMatchCalls ==
    ASSUME NEW c, CallingConvention(c)
    PROVE  Spec => []NoGcsFailure
  <1>1. Init => CallsInv /\ RestTyped /\ ReturnInv(c)
    <2> SUFFICES ASSUME Init PROVE CallsInv /\ RestTyped /\ ReturnInv(c)
      OBVIOUS
    <2>1. gcs = <<>> /\ frames = <<>> /\ aborted = "no" /\ regs = InitRegs
      BY DEF Init
    <2>2. RestTyped
      BY <2>1 DEF RestTyped, Reasons
    <2>3. Matched(c, <<>>, InitRegs, <<>>, cur)
      <3>1. Held(c, InitRegs)
        BY ConventionTyped DEF Held, RegisterValues
      <3>2. Chained(c, <<>>, InitRegs)
        BY DEF Chained
      <3>3. Len(<<>>) = 0 /\ (\A d \in 1 .. 0 : FALSE) /\ (\A d \in 1 .. 0 - 1 : FALSE)
        OBVIOUS
      <3>4. QED
        BY <3>1, <3>2, <3>3 DEF Matched, Guest
    <2>4. ReturnInv(c)
      BY <2>1, <2>3 DEF ReturnInv
    <2>5. QED
      BY <2>2, <2>4, CallsInit
  <1>2. CallsInv /\ RestTyped /\ ReturnInv(c) /\ [Next]_vars
          => (CallsInv /\ RestTyped /\ ReturnInv(c))'
    BY CallsStep, RestStep, ReturnStep
  <1>3. ReturnInv(c) => NoGcsFailure
    BY DEF ReturnInv, NoGcsFailure
  <1>4. QED
    BY <1>1, <1>2, <1>3, PTL DEF Spec
=============================================================================
