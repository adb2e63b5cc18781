---------------------------- MODULE ShadowRunner ----------------------------
(***************************************************************************)
(* gaby_vm::testing::ShadowRunner: the cache track (fast_) and the decoder *)
(* track (ref_) execute the same guest code in lockstep over one shared    *)
(* memory and are compared after every instruction.                        *)
(*                                                                         *)
(* The tracks share their leaves, so what may differ is the entry the      *)
(* cache dispatches: fast_code is the program as it was predecoded, with   *)
(* at most one entry wrong.  Instructions are reduced to how they touch    *)
(* registers, flags, PC and shared memory.                                 *)
(***************************************************************************)
EXTENDS Integers, FiniteSets, SequencesExt

CONSTANTS
    RefCode,       \* the guest program, by word address
    WrongEntries,  \* instructions a wrong entry may hold; {} for none
    Cells,         \* shared memory cells
    Modulus,       \* values are 0 .. Modulus - 1
    Rerun,         \* whether the embedder runs on after a divergence
    MaxRuns        \* bound on RunFrom calls

Values == 0 .. Modulus - 1
Words == 0 .. Len(RefCode) + 1

\* The compared items, in CompareStep's order: X registers and SP, V
\* registers, then PC, NZCV and the control registers.
Items == <<"X0", "PC", "NZCV">>

Insn == [op : {"nop", "adds", "ldr", "str", "stp", "ldadd", "cbz", "b",
               "ret"},
         cell : Cells, target : Words]

\* The guest program does not run past its end, where both tracks would abort
\* the process.  No write has the address of the zero event, whose size is 0.
ASSUME ShadowAssumption ==
    /\ RefCode \in Seq(Insn) /\ RefCode # <<>>
    /\ \A a \in DOMAIN RefCode :
         /\ RefCode[a].target \in 0 .. Len(RefCode)
         /\ RefCode[a].op \notin {"b", "ret"} => a < Len(RefCode)
    /\ IsFiniteSet(Cells) /\ "none" \notin Cells
    /\ WrongEntries \subseteq Insn
    /\ Modulus \in Nat \ {0}
    /\ Rerun \in BOOLEAN
    /\ MaxRuns \in Nat

VARIABLES
    fast_code,    \* what the cache dispatches at each address
    fast, ref,    \* the tracks' architectural state
    mem,          \* the memory they share
    fast_writes,  \* this step's writes, per track
    ref_writes,
    alive,        \* what StepOnce and DebugStepOnce returned
    pc,           \* the instruction about to run
    phase,        \* where RunFrom is
    report,       \* the DivergenceReport handed to the handler
    runs          \* RunFrom calls so far

vars == <<fast_code, fast, ref, mem, fast_writes, ref_writes, alive, pc,
          phase, report, runs>>

NoReport == [kind |-> "none", pc |-> 0, item |-> "none"]

Init ==
    /\ fast_code \in {RefCode} \cup
         {[RefCode EXCEPT ![a] = insn] :
             a \in DOMAIN RefCode, insn \in WrongEntries}
    /\ fast = [X0 |-> 0, PC |-> 0, NZCV |-> 0]
    /\ ref = fast
    /\ mem = [c \in Cells |-> 0]
    /\ fast_writes = <<>> /\ ref_writes = <<>>
    /\ alive = [fast |-> TRUE, ref |-> TRUE]
    /\ pc = 0
    /\ phase = "idle"
    /\ report = NoReport
    /\ runs = 0

-----------------------------------------------------------------------------
(***************************************************************************)
(* One instruction of a track: the state, the memory and the writes the    *)
(* observer saw.                                                           *)
(***************************************************************************)
Result(state, memory, writes) ==
    [state |-> state, mem |-> memory, writes |-> writes]

Store(memory, cell, value) == [memory EXCEPT ![cell] = value]

Execute(insn, state, memory) ==
    LET next == [state EXCEPT !.PC = @ + 1]
        x == state.X0
        sum == (x + 1) % Modulus
        old == memory[insn.cell]
        added == (old + 1) % Modulus
    IN CASE insn.op = "nop" -> Result(next, memory, <<>>)
         [] insn.op = "adds" ->
              Result([next EXCEPT !.X0 = sum, !.NZCV = IF sum = 0 THEN 1 ELSE 0],
                     memory, <<>>)
         [] insn.op = "ldr" -> Result([next EXCEPT !.X0 = old], memory, <<>>)
         [] insn.op = "str" ->
              Result(next, Store(memory, insn.cell, x), <<<<insn.cell, x>>>>)
         [] insn.op = "stp" ->
              Result(next, [c \in Cells |-> x],
                     SetToSeq({<<c, x>> : c \in Cells}))
         [] insn.op = "ldadd" ->
              Result([next EXCEPT !.X0 = old], Store(memory, insn.cell, added),
                     <<<<insn.cell, added>>>>)
         [] insn.op = "cbz" ->
              Result([next EXCEPT !.PC = IF x = 0 THEN insn.target ELSE @],
                     memory, <<>>)
         [] insn.op = "b" -> Result([next EXCEPT !.PC = insn.target], memory, <<>>)
         [] insn.op = "ret" -> Result([next EXCEPT !.PC = 0], memory, <<>>)

-----------------------------------------------------------------------------
(***************************************************************************)
(* RunFrom.                                                                *)
(***************************************************************************)
\* Mutant: the write is not mirrored.
WriteXRegisterFastOnly ==
    /\ phase = "idle" /\ (Rerun \/ report = NoReport)
    /\ \E v \in Values : fast' = [fast EXCEPT !.X0 = v]
    /\ UNCHANGED <<fast_code, ref, mem, fast_writes, ref_writes, alive, pc,
                   phase, report, runs>>

\* WriteXRegister, mirrored to both Simulators.
WriteXRegister ==
    /\ phase = "idle" /\ (Rerun \/ report = NoReport)
    /\ \E v \in Values : /\ fast' = [fast EXCEPT !.X0 = v]
                         /\ ref' = [ref EXCEPT !.X0 = v]
    /\ UNCHANGED <<fast_code, mem, fast_writes, ref_writes, alive, pc, phase,
                   report, runs>>

RunFrom ==
    /\ phase = "idle" /\ runs < MaxRuns /\ (Rerun \/ report = NoReport)
    /\ fast' = [fast EXCEPT !.PC = 1]
    /\ ref' = [ref EXCEPT !.PC = 1]
    /\ phase' = "fast"
    /\ runs' = runs + 1
    /\ report' = NoReport
    /\ UNCHANGED <<fast_code, mem, fast_writes, ref_writes, alive, pc>>

\* Mutant: the decoder track's list is not cleared.
StepFastKeepingWrites ==
    /\ phase = "fast"
    /\ pc' = fast.PC
    /\ alive' = [alive EXCEPT !.fast = fast.PC # 0]
    /\ IF fast.PC = 0
       THEN fast_writes' = <<>> /\ UNCHANGED <<fast, mem>>
       ELSE LET r == Execute(fast_code[fast.PC], fast, mem)
            IN  /\ fast' = r.state
                /\ mem' = r.mem
                /\ fast_writes' = r.writes
    /\ phase' = "ref"
    /\ UNCHANGED <<fast_code, ref, ref_writes, report, runs>>

\* The loop top: the PC is noted and the write lists are cleared, then the
\* cache track makes its step, or finds that it is finished.
StepFast ==
    /\ phase = "fast"
    /\ pc' = fast.PC
    /\ ref_writes' = <<>>
    /\ alive' = [alive EXCEPT !.fast = fast.PC # 0]
    /\ IF fast.PC = 0
       THEN fast_writes' = <<>> /\ UNCHANGED <<fast, mem>>
       ELSE LET r == Execute(fast_code[fast.PC], fast, mem)
            IN  /\ fast' = r.state
                /\ mem' = r.mem
                /\ fast_writes' = r.writes
    /\ phase' = "ref"
    /\ UNCHANGED <<fast_code, ref, report, runs>>

StepRef ==
    /\ phase = "ref"
    /\ alive' = [alive EXCEPT !.ref = ref.PC # 0]
    /\ IF ref.PC = 0
       THEN UNCHANGED <<ref, mem, ref_writes>>
       ELSE LET r == Execute(RefCode[ref.PC], ref, mem)
            IN  /\ ref' = r.state
                /\ mem' = r.mem
                /\ ref_writes' = ref_writes \o r.writes
    /\ phase' = "compare"
    /\ UNCHANGED <<fast_code, fast, fast_writes, pc, report, runs>>

\* The i-th write of a list, or the zero event.
Write(writes, i) == IF i <= Len(writes) THEN writes[i] ELSE <<"none", 0>>

\* Mutant: only the writes both tracks made are compared.
WritesDifferInBoth ==
    \E i \in DOMAIN fast_writes \cap DOMAIN ref_writes :
        fast_writes[i] # ref_writes[i]

CompareMemoryWrites ==
    \E i \in DOMAIN fast_writes \cup DOMAIN ref_writes :
        Write(fast_writes, i) # Write(ref_writes, i)

Differing == {i \in DOMAIN Items : fast[Items[i]] # ref[Items[i]]}

\* Mutant: the loop ends on a divergence only.
CompareUntilDivergence ==
    /\ phase = "compare"
    /\ IF Differing # {}
       THEN /\ report' = [kind |-> "Register", pc |-> pc,
                          item |-> Items[Min(Differing)]]
            /\ phase' = "idle"
       ELSE UNCHANGED report /\ phase' = "fast"
    /\ UNCHANGED <<fast_code, fast, ref, mem, fast_writes, ref_writes, alive,
                   pc, runs>>

\* CompareStep, the handler, and the end of the loop body.  The custom handler
\* keeps the report and returns.
Compare ==
    /\ phase = "compare"
    /\ \/ /\ ~alive.fast /\ ~alive.ref
          /\ phase' = "idle" /\ UNCHANGED report
       \/ /\ alive.fast \/ alive.ref
          /\ IF Differing # {}
             THEN /\ report' = [kind |-> "Register", pc |-> pc,
                                item |-> Items[Min(Differing)]]
                  /\ phase' = "idle"
             ELSE IF CompareMemoryWrites
             THEN /\ report' = [kind |-> "MemoryWrite", pc |-> pc,
                                item |-> "none"]
                  /\ phase' = "idle"
             ELSE /\ UNCHANGED report
                  /\ phase' = IF alive.fast /\ alive.ref THEN "fast" ELSE "idle"
    /\ UNCHANGED <<fast_code, fast, ref, mem, fast_writes, ref_writes, alive,
                   pc, runs>>

\* The embedder has made all its calls.
Done ==
    /\ phase = "idle" /\ (runs = MaxRuns \/ (report # NoReport /\ ~Rerun))
    /\ UNCHANGED vars

Loop == StepFast \/ StepRef \/ Compare

Next == WriteXRegister \/ RunFrom \/ Loop \/ Done

Spec == Init /\ [][Next]_vars

\* RunFrom is a loop of one thread: it goes on until it returns.
LiveSpec == Spec /\ WF_vars(Loop)

-----------------------------------------------------------------------------
(***************************************************************************)
(* Properties.                                                             *)
(***************************************************************************)
Track == [X0 : Values, PC : Words, NZCV : {0, 1}]

\* Every variable keeps its type.
TypeOK ==
    /\ fast_code \in Seq(Insn)
    /\ fast \in Track /\ ref \in Track
    /\ mem \in [Cells -> Values]
    /\ fast_writes \in Seq(Cells \X Values)
    /\ ref_writes \in Seq(Cells \X Values)
    /\ alive \in [fast : BOOLEAN, ref : BOOLEAN]
    /\ pc \in Words
    /\ phase \in {"idle", "fast", "ref", "compare"}
    /\ report \in [kind : {"none", "Register", "MemoryWrite"}, pc : Words,
                   item : {"none", "X0", "PC", "NZCV"}]
    /\ runs \in 0 .. MaxRuns

\* At the loop top the two tracks agree, so a reported PC is the instruction
\* whose execution produced the divergence and not a later one.
LoopTopAgrees == phase = "fast" => fast = ref

\* A step after which the tracks disagree, in a compared item or in the
\* writes they made, ends the run with a report: the lockstep never goes on
\* from a difference.
DivergenceReported ==
    [][(Compare /\ (fast # ref \/ fast_writes # ref_writes))
          => (phase' = "idle" /\ report' # NoReport)]_vars

\* An instruction whose result depends on memory that it writes itself: the
\* decoder track executes it on what the cache track's execution left.
ReadsWhatItWrites(insn) == insn.op = "ldadd"

\* A correctly predecoded program is reported only at an instruction that
\* reads what it writes: over one shared memory RunFrom's two steps apply
\* it twice, and that is the only divergence the cache is not to blame for.
NoFalseAlarm ==
    fast_code = RefCode /\ report # NoReport =>
        report.pc \in DOMAIN RefCode /\ ReadsWhatItWrites(RefCode[report.pc])

\* Both tracks end together when nothing was reported: a run never returns
\* with one track finished and the other alive.
EndTogether ==
    (phase = "idle" /\ runs > 0 /\ report = NoReport) => fast = ref /\ fast.PC = 0

\* The lockstep invariant: the tracks are equal whenever nothing has been
\* reported and no step is half done, between instructions and between runs.
LockstepInv == TypeOK /\ LoopTopAgrees /\ EndTogether

\* RunFrom returns when the guest program terminates.
RunReturns == (phase = "fast") ~> (phase = "idle")
=============================================================================
