------------------------- MODULE ShadowRunnerProofs -------------------------
(***************************************************************************)
(* The lockstep of the two tracks, for every guest program and every wrong *)
(* entry of the cache: a difference is reported in the step that made it,  *)
(* runs end together, and a correctly predecoded program is reported only  *)
(* at a read-modify-write instruction.                                     *)
(***************************************************************************)
EXTENDS ShadowRunner, TLAPS, FiniteSetTheorems, SequenceTheorems

Size == Len(RefCode)

\* Executing an instruction a second time, on the memory its first execution
\* left, does the same: the decoder track runs on what the cache track wrote.
Repeatable == \A a \in DOMAIN RefCode : ~ReadsWhatItWrites(RefCode[a])

ReadsAt(k) == k \in DOMAIN RefCode /\ ReadsWhatItWrites(RefCode[k])

TracksTyped == fast \in Track /\ ref \in Track /\ ref.PC \in 0 .. Size
CodeTyped == fast_code \in Seq(Insn) /\ Len(fast_code) = Size
MemTyped == mem \in [Cells -> Values]
WritesTyped ==
    fast_writes \in Seq(Cells \X Values) /\ ref_writes \in Seq(Cells \X Values)
ControlTyped ==
    /\ alive \in [fast : BOOLEAN, ref : BOOLEAN]
    /\ pc \in Words
    /\ phase \in {"idle", "fast", "ref", "compare"}
    /\ report \in [kind : {"none", "Register", "MemoryWrite"}, pc : Words,
                   item : {"none", "X0", "PC", "NZCV"}]
    /\ runs \in 0 .. MaxRuns

Typed == TracksTyped /\ CodeTyped /\ MemTyped /\ WritesTyped /\ ControlTyped

\* Between runs without a report the tracks are equal, and finished.
Rest == phase = "idle" /\ report = NoReport => fast = ref /\ fast.PC = 0

\* During a run: the tracks are at the same instruction, and equal if they are
\* finished.  A finished track writes nothing.
Together ==
    /\ phase # "idle" => report = NoReport
    /\ phase = "fast" => fast.PC = ref.PC /\ (fast.PC = 0 => fast = ref)
    /\ phase = "ref" => /\ ref_writes = <<>>
                        /\ alive.fast <=> ref.PC # 0
                        /\ ~alive.fast => fast = ref /\ fast_writes = <<>>
    /\ phase = "compare" => /\ alive.fast <=> alive.ref
                            /\ ~alive.ref => /\ fast = ref /\ fast.PC = 0
                                             /\ fast_writes = ref_writes

\* A run starts from equal tracks unless the embedder goes on after a report.
Faithful == ~Rerun \/ (fast_code = RefCode /\ Repeatable)
LoopTop == Faithful => LoopTopAgrees

\* The cache track of a correctly predecoded program is one instruction ahead,
\* and the decoder track will do the same, unless that instruction reads what
\* it has written.
Clean ==
    fast_code = RefCode /\ Faithful =>
        /\ report # NoReport => ReadsAt(report.pc)
        /\ phase = "ref" /\ alive.fast =>
             /\ pc = ref.PC
             /\ \/ ReadsAt(ref.PC)
                \/ Execute(RefCode[ref.PC], ref, mem) = Result(fast, mem, fast_writes)
        /\ phase = "compare" /\ alive.fast =>
             ReadsAt(pc) \/ (fast = ref /\ fast_writes = ref_writes)

ShadowInv == Typed /\ Rest /\ Together /\ LoopTop /\ Clean

-----------------------------------------------------------------------------
(***************************************************************************)
(* The program and one instruction of it.                                  *)
(***************************************************************************)
LEMMA ProgramType ==
    /\ RefCode \in Seq(Insn) /\ Size \in Nat \ {0} /\ DOMAIN RefCode = 1 .. Size
    /\ Words = 0 .. Size + 1 /\ 0 .. Size \subseteq Words
    /\ Modulus \in Nat \ {0} /\ MaxRuns \in Nat
  <1>1. RefCode \in Seq(Insn) /\ RefCode # <<>> /\ Modulus \in Nat \ {0} /\ MaxRuns \in Nat
    BY ShadowAssumption
  <1>2. Size \in Nat \ {0} /\ DOMAIN RefCode = 1 .. Size
    BY <1>1 DEF Size
  <1>3. QED
    BY <1>1, <1>2 DEF Words, Size

\* The list of the writes of a store pair: all cells, in some order.
LEMMA ListType ==
    ASSUME NEW S, IsFiniteSet(S)
    PROVE  SetToSeq(S) \in Seq(S)
  <1>1. Cardinality(S) \in Nat /\ ExistsBijection(1 .. Cardinality(S), S)
    BY FS_CardinalityType
  <1>2. PICK f \in [1 .. Cardinality(S) -> S] : IsInjective(f)
    BY <1>1 DEF ExistsBijection, Bijection, Injection
  <1>3. SetToSeq(S) \in [1 .. Cardinality(S) -> S]
    BY <1>2 DEF SetToSeq
  <1>4. QED
    BY <1>1, <1>3, SeqDef

LEMMA PairWrites ==
    ASSUME NEW x \in Values
    PROVE  SetToSeq({<<c, x>> : c \in Cells}) \in Seq(Cells \X Values)
  <1> DEFINE W == {<<c, x>> : c \in Cells}
  <1>1. IsFiniteSet(Cells)
    BY ShadowAssumption
  <1>2. IsFiniteSet(W)
    <2> DEFINE f == [c \in Cells |-> <<c, x>>]
    <2>1. f \in [Cells -> W] /\ IsInjective(f) /\ \A w \in W : \E c \in Cells : f[c] = w
      BY DEF IsInjective
    <2>2. f \in Bijection(Cells, W)
      BY <2>1, Zenon DEF Bijection, Injection, Surjection
    <2>3. QED
      BY <1>1, <2>2, FS_Bijection DEF ExistsBijection
  <1>3. SetToSeq(W) \in Seq(W)
    BY <1>2, ListType
  <1>4. W \subseteq Cells \X Values
    OBVIOUS
  <1> HIDE DEF W
  <1>5. SetToSeq(W) \in Seq(Cells \X Values)
    BY <1>3, <1>4, SeqMonotonic
  <1>6. QED
    BY <1>5 DEF W

\* Where an instruction of the program leaves the PC: 0 ends the run.
NextPC(insn, k) ==
    IF insn.op = "ret" THEN {0}
    ELSE IF insn.op = "b" THEN {insn.target}
    ELSE {k + 1, insn.target}

LEMMA ExecuteType ==
    ASSUME NEW insn \in Insn, NEW st \in Track, NEW m \in [Cells -> Values], st.PC \in 1 .. Size
    PROVE  LET r == Execute(insn, st, m)
           IN  /\ r.state \in Track /\ r.mem \in [Cells -> Values]
               /\ r.writes \in Seq(Cells \X Values)
               /\ r.state.PC \in NextPC(insn, st.PC)
               /\ r = Result(r.state, r.mem, r.writes)
  <1> DEFINE r == Execute(insn, st, m)
             next == [st EXCEPT !.PC = @ + 1]
             x == st.X0
             sum == (x + 1) % Modulus
             old == m[insn.cell]
             added == (old + 1) % Modulus
             Good == /\ r.state \in Track /\ r.mem \in [Cells -> Values]
                     /\ r.writes \in Seq(Cells \X Values)
                     /\ r.state.PC \in NextPC(insn, st.PC)
                     /\ r = Result(r.state, r.mem, r.writes)
  <1>1. /\ x \in Values /\ insn.cell \in Cells /\ old \in Values
        /\ insn.target \in Words /\ st.PC + 1 \in Words /\ st.NZCV \in {0, 1}
    BY ProgramType DEF Track, Insn
  <1>2. sum \in Values /\ added \in Values
    <2>1. \A v \in Values : (v + 1) % Modulus \in Values
      BY ProgramType DEF Values
    <2>2. QED
      BY <1>1, <2>1
  <1>3. next \in Track /\ next.PC = st.PC + 1 /\ next.X0 = x
    BY <1>1 DEF Track
  <1>4. /\ <<>> \in Seq(Cells \X Values)
        /\ <<<<insn.cell, x>>>> \in Seq(Cells \X Values)
        /\ <<<<insn.cell, added>>>> \in Seq(Cells \X Values)
        /\ SetToSeq({<<c, x>> : c \in Cells}) \in Seq(Cells \X Values)
    BY <1>1, <1>2, PairWrites
  <1>5. /\ Store(m, insn.cell, x) \in [Cells -> Values]
        /\ Store(m, insn.cell, added) \in [Cells -> Values]
        /\ [c \in Cells |-> x] \in [Cells -> Values]
    BY <1>1, <1>2 DEF Store
  <1> HIDE DEF next, sum, old, added
  <1>6. ASSUME NEW a \in Track, NEW b \in [Cells -> Values], NEW w \in Seq(Cells \X Values),
               r = Result(a, b, w), a.PC \in NextPC(insn, st.PC)
        PROVE  Good
    <2> HIDE DEF r
    <2> QED BY <1>6 DEF Result
  <1>7. st.PC + 1 \in NextPC(insn, st.PC) \/ insn.op \in {"b", "ret"}
    BY DEF NextPC
  <1>8. CASE insn.op = "nop"
    <2>1. r = Result(next, m, <<>>)
      BY <1>8 DEF Execute, next
    <2>2. QED
      BY <1>3, <1>4, <1>6, <1>7, <1>8, <2>1
  <1>9. CASE insn.op = "adds"
    <2> DEFINE a == [next EXCEPT !.X0 = sum, !.NZCV = IF sum = 0 THEN 1 ELSE 0]
    <2>1. r = Result(a, m, <<>>)
      BY <1>9 DEF Execute, next, sum
    <2>2. a \in Track /\ a.PC = st.PC + 1
      BY <1>2, <1>3 DEF Track
    <2> HIDE DEF a
    <2>3. QED
      BY <1>4, <1>6, <1>7, <1>9, <2>1, <2>2
  <1>10. CASE insn.op = "ldr"
    <2> DEFINE a == [next EXCEPT !.X0 = old]
    <2>1. r = Result(a, m, <<>>)
      BY <1>10 DEF Execute, next, old
    <2>2. a \in Track /\ a.PC = st.PC + 1
      BY <1>1, <1>3 DEF Track
    <2> HIDE DEF a
    <2>3. QED
      BY <1>4, <1>6, <1>7, <1>10, <2>1, <2>2
  <1>11. CASE insn.op = "str"
    <2>1. r = Result(next, Store(m, insn.cell, x), <<<<insn.cell, x>>>>)
      BY <1>11 DEF Execute, next
    <2>2. QED
      BY <1>3, <1>4, <1>5, <1>6, <1>7, <1>11, <2>1
  <1>12. CASE insn.op = "stp"
    <2>1. r = Result(next, [c \in Cells |-> x], SetToSeq({<<c, x>> : c \in Cells}))
      BY <1>12 DEF Execute, next
    <2>2. QED
      BY <1>3, <1>4, <1>5, <1>6, <1>7, <1>12, <2>1
  <1>13. CASE insn.op = "ldadd"
    <2> DEFINE a == [next EXCEPT !.X0 = old]
    <2>1. r = Result(a, Store(m, insn.cell, added), <<<<insn.cell, added>>>>)
      BY <1>13 DEF Execute, next, old, added
    <2>2. a \in Track /\ a.PC = st.PC + 1
      BY <1>1, <1>3 DEF Track
    <2> HIDE DEF a
    <2>3. QED
      BY <1>4, <1>5, <1>6, <1>7, <1>13, <2>1, <2>2
  <1>14. CASE insn.op = "cbz"
    <2> DEFINE a == [next EXCEPT !.PC = IF x = 0 THEN insn.target ELSE @]
    <2>1. r = Result(a, m, <<>>)
      BY <1>14 DEF Execute, next
    <2>2. a \in Track /\ a.PC \in {st.PC + 1, insn.target}
      BY <1>1, <1>3 DEF Track
    <2>3. NextPC(insn, st.PC) = {st.PC + 1, insn.target}
      BY <1>14 DEF NextPC
    <2> HIDE DEF a
    <2>4. QED
      BY <1>4, <1>6, <2>1, <2>2, <2>3
  <1>15. CASE insn.op = "b"
    <2> DEFINE a == [next EXCEPT !.PC = insn.target]
    <2>1. r = Result(a, m, <<>>)
      BY <1>15 DEF Execute, next
    <2>2. a \in Track /\ a.PC = insn.target
      BY <1>1, <1>3 DEF Track
    <2>3. NextPC(insn, st.PC) = {insn.target}
      BY <1>15 DEF NextPC
    <2> HIDE DEF a
    <2>4. QED
      BY <1>4, <1>6, <2>1, <2>2, <2>3
  <1>16. CASE insn.op = "ret"
    <2> DEFINE a == [next EXCEPT !.PC = 0]
    <2>1. r = Result(a, m, <<>>)
      BY <1>16 DEF Execute, next
    <2>2. a \in Track /\ a.PC = 0
      BY <1>3, ProgramType DEF Track
    <2>3. NextPC(insn, st.PC) = {0}
      BY <1>16 DEF NextPC
    <2> HIDE DEF a
    <2>4. QED
      BY <1>4, <1>6, <2>1, <2>2, <2>3
  <1>17. QED
    <2>1. insn.op \in {"nop", "adds", "ldr", "str", "stp", "ldadd", "cbz", "b", "ret"}
      BY DEF Insn
    <2>2. Good
      BY <1>8, <1>9, <1>10, <1>11, <1>12, <1>13, <1>14, <1>15, <1>16, <2>1
    <2>3. QED
      BY <2>2

\* The decoder track stays in the program.
LEMMA StaysInProgram ==
    ASSUME NEW k \in 1 .. Size, NEW n \in NextPC(RefCode[k], k)
    PROVE  n \in 0 .. Size
  <1>1. /\ RefCode[k].target \in 0 .. Size
        /\ RefCode[k].op \notin {"b", "ret"} => k < Size
    BY ShadowAssumption, ProgramType DEF Size
  <1>2. QED
    BY <1>1, ProgramType DEF NextPC

\* The decoder track's execution of an instruction that the cache track has
\* executed already, on the memory that it left.
LEMMA ExecuteAgain ==
    ASSUME NEW insn \in Insn, NEW st \in Track, NEW m \in [Cells -> Values],
           ~ReadsWhatItWrites(insn)
    PROVE  Execute(insn, st, Execute(insn, st, m).mem) = Execute(insn, st, m)
  <1> DEFINE x == st.X0
             stored == Store(m, insn.cell, x)
             all == [c \in Cells |-> x]
  <1>1. insn.op \in {"nop", "adds", "ldr", "str", "stp", "cbz", "b", "ret"} /\ insn.cell \in Cells
    BY DEF Insn, ReadsWhatItWrites
  <1>2. Execute(insn, st, m).mem =
          IF insn.op = "str" THEN stored ELSE IF insn.op = "stp" THEN all ELSE m
    BY <1>1 DEF Execute, Result
  <1>3. CASE insn.op = "str"
    <2>1. Store(stored, insn.cell, x) = stored
      BY <1>1 DEF Store
    <2>2. \A h : Execute(insn, st, h) =
                   Result([st EXCEPT !.PC = @ + 1], Store(h, insn.cell, x), <<<<insn.cell, x>>>>)
      BY <1>3 DEF Execute
    <2> HIDE DEF stored
    <2>3. Execute(insn, st, stored) = Execute(insn, st, m)
      BY <2>1, <2>2 DEF stored
    <2>4. QED
      BY <1>2, <1>3, <2>3
  <1>4. CASE insn.op = "stp"
    <2>1. \A h : Execute(insn, st, h) =
                   Result([st EXCEPT !.PC = @ + 1], all, SetToSeq({<<c, x>> : c \in Cells}))
      BY <1>4 DEF Execute
    <2>2. QED
      BY <2>1
  <1>5. CASE insn.op \notin {"str", "stp"}
    BY <1>2, <1>5
  <1>6. QED
    BY <1>3, <1>4, <1>5

-----------------------------------------------------------------------------
(***************************************************************************)
(* Each step of the embedder and of RunFrom keeps the invariant.           *)
(***************************************************************************)
LEMMA ReportTypes ==
    /\ NoReport.kind = "none"
    /\ NoReport \in [kind : {"none", "Register", "MemoryWrite"}, pc : Words,
                     item : {"none", "X0", "PC", "NZCV"}]
  BY ProgramType DEF NoReport

LEMMA InitHolds == Init => ShadowInv
  <1> SUFFICES ASSUME Init
               PROVE  ShadowInv
    OBVIOUS
  <1>1. /\ fast = [X0 |-> 0, PC |-> 0, NZCV |-> 0] /\ ref = fast /\ phase = "idle"
        /\ report = NoReport /\ runs = 0 /\ pc = 0
        /\ fast_writes = <<>> /\ ref_writes = <<>> /\ mem = [c \in Cells |-> 0]
        /\ alive = [fast |-> TRUE, ref |-> TRUE]
    BY DEF Init
  <1>2. TracksTyped
    BY <1>1, ProgramType DEF TracksTyped, Track, Values
  <1>3. CodeTyped
    <2>1. CASE fast_code = RefCode
      BY <2>1, ProgramType DEF CodeTyped, Size
    <2>2. ASSUME NEW a \in DOMAIN RefCode, NEW insn \in WrongEntries,
                 fast_code = [RefCode EXCEPT ![a] = insn]
          PROVE  CodeTyped
      <3>1. insn \in Insn
        BY ShadowAssumption
      <3>2. QED
        BY <2>2, <3>1, ProgramType, ExceptSeq DEF CodeTyped, Size
    <2>3. QED
      BY <2>1, <2>2 DEF Init
  <1>4. MemTyped /\ WritesTyped
    BY <1>1, ProgramType DEF MemTyped, WritesTyped, Values
  <1>5. ControlTyped
    BY <1>1, ProgramType, ReportTypes DEF ControlTyped
  <1>6. Rest /\ Together /\ LoopTop /\ Clean
    BY <1>1 DEF Rest, Together, LoopTop, LoopTopAgrees, Clean
  <1>7. QED
    BY <1>2, <1>3, <1>4, <1>5, <1>6 DEF ShadowInv, Typed

LEMMA WriteKeeps ==
    ASSUME ShadowInv, WriteXRegister
    PROVE  ShadowInv'
  <1>1. PICK v \in Values : fast' = [fast EXCEPT !.X0 = v] /\ ref' = [ref EXCEPT !.X0 = v]
    BY DEF WriteXRegister
  <1>2. /\ phase = "idle"
        /\ UNCHANGED <<fast_code, mem, fast_writes, ref_writes, alive, pc, phase, report, runs>>
    BY DEF WriteXRegister
  <1>3. /\ fast' \in Track /\ ref' \in Track /\ fast'.PC = fast.PC /\ ref'.PC = ref.PC
        /\ fast = ref => fast' = ref'
    BY <1>1 DEF ShadowInv, Typed, TracksTyped, Track
  <1>4. Typed'
    BY <1>2, <1>3 DEF ShadowInv, Typed, TracksTyped, CodeTyped, MemTyped, WritesTyped, ControlTyped
  <1>5. Rest' /\ Together'
    BY <1>2, <1>3 DEF ShadowInv, Rest, Together
  <1>6. LoopTop' /\ Clean'
    BY <1>2 DEF ShadowInv, LoopTop, LoopTopAgrees, Clean, Faithful
  <1>7. QED
    BY <1>4, <1>5, <1>6 DEF ShadowInv

LEMMA RunKeeps ==
    ASSUME ShadowInv, RunFrom
    PROVE  ShadowInv'
  <1>1. /\ phase = "idle" /\ phase' = "fast" /\ report' = NoReport
        /\ runs < MaxRuns /\ runs' = runs + 1 /\ (Rerun \/ report = NoReport)
        /\ fast' = [fast EXCEPT !.PC = 1] /\ ref' = [ref EXCEPT !.PC = 1]
        /\ UNCHANGED <<fast_code, mem, fast_writes, ref_writes, alive, pc>>
    BY DEF RunFrom
  <1>2. /\ fast' \in Track /\ ref' \in Track /\ fast'.PC = 1 /\ ref'.PC = 1
        /\ fast = ref => fast' = ref'
    <2>1. 1 \in Words /\ 1 \in 0 .. Size
      BY ProgramType
    <2>2. QED
      BY <1>1, <2>1 DEF ShadowInv, Typed, TracksTyped, Track
  <1>3. Typed'
    <2>0. ControlTyped /\ MaxRuns \in Nat
      BY ProgramType DEF ShadowInv, Typed
    <2>1. ControlTyped'
      <3>1. runs' \in 0 .. MaxRuns
        BY <1>1, <2>0 DEF ControlTyped
      <3>2. QED
        BY <1>1, <2>0, <3>1, ReportTypes DEF ControlTyped
    <2>2. QED
      BY <1>1, <1>2, <2>1, ProgramType
      DEF ShadowInv, Typed, TracksTyped, CodeTyped, MemTyped, WritesTyped
  <1>4. Rest' /\ Together'
    BY <1>1, <1>2 DEF Rest, Together
  <1>5. LoopTop' /\ Clean'
    <2>1. Faithful => report = NoReport
      BY <1>1 DEF ShadowInv, Faithful, Clean, Repeatable, ReadsAt
    <2>2. Faithful => fast' = ref'
      BY <1>1, <1>2, <2>1 DEF ShadowInv, Rest
    <2>3. Faithful' => Faithful
      BY <1>1 DEF Faithful
    <2>4. QED
      BY <1>1, <2>2, <2>3 DEF LoopTop, LoopTopAgrees, Clean
  <1>6. QED
    BY <1>3, <1>4, <1>5 DEF ShadowInv

LEMMA StepFastKeeps ==
    ASSUME ShadowInv, StepFast
    PROVE  ShadowInv'
  <1>0. /\ fast \in Track /\ ref \in Track /\ ref.PC \in 0 .. Size /\ mem \in [Cells -> Values]
        /\ fast_code \in Seq(Insn) /\ Len(fast_code) = Size
        /\ alive \in [fast : BOOLEAN, ref : BOOLEAN]
    BY DEF ShadowInv, Typed, TracksTyped, MemTyped, CodeTyped, ControlTyped
  <1>1. /\ phase = "fast" /\ phase' = "ref" /\ pc' = fast.PC /\ ref_writes' = <<>>
        /\ alive' = [alive EXCEPT !.fast = fast.PC # 0]
        /\ UNCHANGED <<fast_code, ref, report, runs>>
    BY DEF StepFast
  <1>2. fast.PC = ref.PC /\ (fast.PC = 0 => fast = ref) /\ report = NoReport
    BY <1>1 DEF ShadowInv, Together
  <1>3. ControlTyped' /\ (alive'.fast <=> ref.PC # 0)
    <2>1. alive' \in [fast : BOOLEAN, ref : BOOLEAN] /\ (alive'.fast <=> fast.PC # 0)
      BY <1>0, <1>1
    <2>2. fast.PC \in Words
      BY <1>0 DEF Track
    <2>3. QED
      BY <1>1, <1>2, <2>1, <2>2 DEF ShadowInv, Typed, ControlTyped
  <1>4. CASE fast.PC = 0
    <2>1. fast_writes' = <<>> /\ UNCHANGED <<fast, mem>>
      BY <1>4 DEF StepFast
    <2>2. WritesTyped'
      BY <1>1, <2>1 DEF WritesTyped
    <2>3. Typed'
      BY <1>1, <1>3, <2>1, <2>2 DEF ShadowInv, Typed, TracksTyped, CodeTyped, MemTyped
    <2>4. Rest' /\ Together' /\ LoopTop' /\ Clean'
      BY <1>1, <1>2, <1>3, <1>4, <2>1 DEF Rest, Together, LoopTop, LoopTopAgrees, Clean
    <2>5. QED
      BY <2>3, <2>4 DEF ShadowInv
  <1>5. CASE fast.PC # 0
    <2> DEFINE insn == fast_code[fast.PC]
               r == Execute(insn, fast, mem)
    <2>1. fast' = r.state /\ mem' = r.mem /\ fast_writes' = r.writes
      BY <1>5 DEF StepFast
    <2>2. fast.PC \in 1 .. Size /\ insn \in Insn
      <3>1. fast.PC \in 1 .. Size
        BY <1>0, <1>2, <1>5, ProgramType
      <3>2. \A k \in 1 .. Size : fast_code[k] \in Insn
        BY <1>0, ProgramType
      <3>3. QED
        BY <3>1, <3>2
    <2>3. /\ r.state \in Track /\ r.mem \in [Cells -> Values]
          /\ r.writes \in Seq(Cells \X Values) /\ r = Result(r.state, r.mem, r.writes)
      BY <1>0, <2>2, ExecuteType
    <2>4. Faithful /\ fast_code = RefCode /\ ~ReadsAt(ref.PC) =>
            Execute(RefCode[ref.PC], ref, r.mem) = Result(r.state, r.mem, r.writes)
      <3> SUFFICES ASSUME Faithful, fast_code = RefCode, ~ReadsAt(ref.PC)
                   PROVE  Execute(RefCode[ref.PC], ref, r.mem) = Result(r.state, r.mem, r.writes)
        OBVIOUS
      <3>1. fast = ref
        BY <1>1 DEF ShadowInv, LoopTop, LoopTopAgrees
      <3>2. ~ReadsWhatItWrites(insn)
        BY <2>2, <3>1, ProgramType DEF ReadsAt
      <3>3. Execute(insn, fast, r.mem) = r
        BY <1>0, <2>2, <3>2, ExecuteAgain
      <3>4. QED
        BY <2>3, <3>1, <3>3
    <2> HIDE DEF insn, r
    <2>5. WritesTyped'
      BY <1>1, <2>1, <2>3 DEF WritesTyped
    <2>6. Typed'
      BY <1>1, <1>3, <2>1, <2>3, <2>5 DEF ShadowInv, Typed, TracksTyped, CodeTyped, MemTyped
    <2>7. Rest' /\ Together' /\ LoopTop'
      BY <1>1, <1>2, <1>3, <1>5 DEF Rest, Together, LoopTop, LoopTopAgrees
    <2>8. Clean'
      <3>1. Faithful' => Faithful
        BY <1>1 DEF Faithful
      <3>2. QED
        BY <1>1, <1>2, <2>1, <2>4, <3>1 DEF Clean
    <2>9. QED
      BY <2>6, <2>7, <2>8 DEF ShadowInv
  <1>6. QED
    BY <1>4, <1>5

LEMMA StepRefKeeps ==
    ASSUME ShadowInv, StepRef
    PROVE  ShadowInv'
  <1>0. /\ fast \in Track /\ ref \in Track /\ ref.PC \in 0 .. Size /\ mem \in [Cells -> Values]
        /\ alive \in [fast : BOOLEAN, ref : BOOLEAN]
    BY DEF ShadowInv, Typed, TracksTyped, MemTyped, ControlTyped
  <1>1. /\ phase = "ref" /\ phase' = "compare"
        /\ alive' = [alive EXCEPT !.ref = ref.PC # 0]
        /\ UNCHANGED <<fast_code, fast, fast_writes, pc, report, runs>>
    BY DEF StepRef
  <1>2. /\ ref_writes = <<>> /\ (alive.fast <=> ref.PC # 0) /\ report = NoReport
        /\ ~alive.fast => fast = ref /\ fast_writes = <<>>
    BY <1>1 DEF ShadowInv, Together
  <1>3. /\ ControlTyped' /\ alive'.fast = alive.fast /\ (alive'.ref <=> ref.PC # 0)
        /\ (alive'.fast <=> alive'.ref)
    <2>1. /\ alive' \in [fast : BOOLEAN, ref : BOOLEAN] /\ alive'.fast = alive.fast
          /\ (alive'.ref <=> ref.PC # 0)
      BY <1>0, <1>1
    <2>2. QED
      BY <1>1, <1>2, <2>1 DEF ShadowInv, Typed, ControlTyped
  <1>4. CASE ref.PC = 0
    <2>1. UNCHANGED <<ref, mem, ref_writes>>
      BY <1>4 DEF StepRef
    <2>2. Typed'
      BY <1>1, <1>3, <2>1 DEF ShadowInv, Typed, TracksTyped, CodeTyped, MemTyped, WritesTyped
    <2>3. Rest' /\ Together' /\ LoopTop' /\ Clean'
      BY <1>1, <1>2, <1>3, <1>4, <2>1 DEF Rest, Together, LoopTop, LoopTopAgrees, Clean
    <2>4. QED
      BY <2>2, <2>3 DEF ShadowInv
  <1>5. CASE ref.PC # 0
    <2> DEFINE insn == RefCode[ref.PC]
               r == Execute(insn, ref, mem)
    <2>1. ref' = r.state /\ mem' = r.mem /\ ref_writes' = ref_writes \o r.writes
      BY <1>5 DEF StepRef
    <2>2. ref.PC \in 1 .. Size /\ insn \in Insn
      <3>1. ref.PC \in 1 .. Size
        BY <1>0, <1>5, ProgramType
      <3>2. \A k \in 1 .. Size : RefCode[k] \in Insn
        BY ProgramType
      <3>3. QED
        BY <3>1, <3>2
    <2>3. /\ r.state \in Track /\ r.mem \in [Cells -> Values]
          /\ r.writes \in Seq(Cells \X Values) /\ r.state.PC \in NextPC(insn, ref.PC)
      BY <1>0, <2>2, ExecuteType
    <2>4. r.state.PC \in 0 .. Size
      BY <2>2, <2>3, StaysInProgram
    <2>5. fast_code = RefCode /\ Faithful =>
            pc = ref.PC /\ (ReadsAt(pc) \/ r = Result(fast, mem, fast_writes))
      BY <1>1, <1>2, <1>5 DEF ShadowInv, Clean
    <2> HIDE DEF insn, r
    <2>6. ref_writes' = r.writes
      BY <1>2, <2>1, <2>3
    <2>7. WritesTyped'
      BY <1>1, <2>3, <2>6 DEF ShadowInv, Typed, WritesTyped
    <2>8. Typed'
      BY <1>1, <1>3, <2>1, <2>3, <2>4, <2>7 DEF ShadowInv, Typed, TracksTyped, CodeTyped, MemTyped
    <2>9. Rest' /\ Together' /\ LoopTop'
      BY <1>1, <1>2, <1>3, <1>5 DEF Rest, Together, LoopTop, LoopTopAgrees
    <2>10. Clean'
      <3>1. Faithful' => Faithful
        BY <1>1 DEF Faithful
      <3>2. QED
        BY <1>1, <1>2, <2>1, <2>5, <2>6, <3>1 DEF Clean, Result
    <2>11. QED
      BY <2>8, <2>9, <2>10 DEF ShadowInv
  <1>6. QED
    BY <1>4, <1>5

\* CompareStep: no item differs exactly when the tracks are equal, and no write
\* differs exactly when the lists are equal.
LEMMA NothingDiffers ==
    ASSUME TracksTyped
    PROVE  Differing = {} <=> fast = ref
  <1>1. DOMAIN Items = {1, 2, 3} /\ Items[1] = "X0" /\ Items[2] = "PC" /\ Items[3] = "NZCV"
    BY DEF Items
  <1>2. Differing = {} <=> fast.X0 = ref.X0 /\ fast.PC = ref.PC /\ fast.NZCV = ref.NZCV
    BY <1>1 DEF Differing
  <1>3. QED
    BY <1>2 DEF TracksTyped, Track

LEMMA ItemType ==
    ASSUME Differing # {}
    PROVE  Items[Min(Differing)] \in {"X0", "PC", "NZCV"}
  <1>1. DOMAIN Items = {1, 2, 3} /\ Items[1] = "X0" /\ Items[2] = "PC" /\ Items[3] = "NZCV"
    BY DEF Items
  <1>2. Differing \subseteq {1, 2, 3}
    BY <1>1 DEF Differing
  <1>3. \E x \in Differing : \A y \in Differing : x <= y
    <2>1. CASE 1 \in Differing
      BY <1>2, <2>1
    <2>2. CASE 1 \notin Differing /\ 2 \in Differing
      BY <1>2, <2>2
    <2>3. CASE 1 \notin Differing /\ 2 \notin Differing
      <3>1. Differing = {3}
        BY <1>2, <2>3
      <3>2. QED
        BY <3>1
    <2>4. QED
      BY <2>1, <2>2, <2>3
  <1>4. Min(Differing) \in Differing
    BY <1>3 DEF Min
  <1>5. QED
    BY <1>1, <1>2, <1>4

LEMMA NoWriteDiffers ==
    ASSUME WritesTyped
    PROVE  ~CompareMemoryWrites => fast_writes = ref_writes
  <1> SUFFICES ASSUME ~CompareMemoryWrites
               PROVE  fast_writes = ref_writes
    OBVIOUS
  <1>1. \A i \in DOMAIN fast_writes \cup DOMAIN ref_writes :
           Write(fast_writes, i) = Write(ref_writes, i)
    BY DEF CompareMemoryWrites
  <1>2. "none" \notin Cells
    BY ShadowAssumption
  <1>3. ASSUME NEW w \in Seq(Cells \X Values), NEW i \in Nat \ {0}
        PROVE  (i \in DOMAIN w <=> Write(w, i) # <<"none", 0>>) /\ (i \in DOMAIN w => Write(w, i) = w[i])
    <2>1. i \in DOMAIN w <=> i <= Len(w)
      OBVIOUS
    <2>2. i \in DOMAIN w => w[i] \in Cells \X Values
      OBVIOUS
    <2>3. <<"none", 0>> \notin Cells \X Values
      BY <1>2
    <2>4. QED
      BY <2>1, <2>2, <2>3 DEF Write
  <1>4. fast_writes \in Seq(Cells \X Values) /\ ref_writes \in Seq(Cells \X Values)
    BY DEF WritesTyped
  <1>5. \A i \in Nat \ {0} : i \in DOMAIN fast_writes <=> i \in DOMAIN ref_writes
    BY <1>1, <1>3, <1>4
  <1>6. \A i \in DOMAIN fast_writes : fast_writes[i] = ref_writes[i]
    <2>1. \A i \in DOMAIN fast_writes : i \in Nat \ {0}
      BY <1>4
    <2>2. QED
      BY <1>1, <1>3, <1>4, <1>5, <2>1
  <1>7. Len(fast_writes) = Len(ref_writes)
    <2> DEFINE m == Len(fast_writes)
               n == Len(ref_writes)
    <2>1. m \in Nat /\ n \in Nat /\ \A i \in Nat \ {0} : i <= m <=> i <= n
      BY <1>4, <1>5
    <2> HIDE DEF m, n
    <2>2. m <= n /\ n <= m
      BY <2>1
    <2>3. m = n
      BY <2>1, <2>2
    <2>4. QED
      BY <2>3 DEF m, n
  <1>8. \A i \in 1 .. Len(fast_writes) : fast_writes[i] = ref_writes[i]
    BY <1>4, <1>6
  <1>9. QED
    BY <1>4, <1>7, <1>8, SeqEqual

LEMMA CompareKeeps ==
    ASSUME ShadowInv, Compare
    PROVE  ShadowInv'
  <1>0. Typed /\ TracksTyped /\ WritesTyped /\ ControlTyped
    BY DEF ShadowInv, Typed
  <1>1. /\ phase = "compare"
        /\ UNCHANGED <<fast_code, fast, ref, mem, fast_writes, ref_writes, alive, pc, runs>>
    BY DEF Compare
  <1>2. /\ report = NoReport /\ (alive.fast <=> alive.ref)
        /\ ~alive.ref => fast = ref /\ fast.PC = 0 /\ fast_writes = ref_writes
    BY <1>1 DEF ShadowInv, Together
  <1>3. /\ Faithful' => Faithful
        /\ fast_code = RefCode /\ Faithful /\ alive.fast =>
             ReadsAt(pc) \/ (fast = ref /\ fast_writes = ref_writes)
    BY <1>1 DEF ShadowInv, Clean, Faithful
  <1>4. ASSUME report' \in [kind : {"none", "Register", "MemoryWrite"}, pc : Words,
                            item : {"none", "X0", "PC", "NZCV"}],
               phase' \in {"idle", "fast"}
        PROVE  Typed'
    BY <1>0, <1>1, <1>4 DEF Typed, TracksTyped, CodeTyped, MemTyped, WritesTyped, ControlTyped
  <1>5. CASE ~alive.fast /\ ~alive.ref
    <2>1. phase' = "idle" /\ report' = report
      BY <1>5 DEF Compare
    <2>2. Typed'
      BY <1>2, <1>4, <2>1, ReportTypes
    <2>3. Rest' /\ Together' /\ LoopTop' /\ Clean'
      BY <1>1, <1>2, <1>5, <2>1 DEF Rest, Together, LoopTop, LoopTopAgrees, Clean
    <2>4. QED
      BY <2>2, <2>3 DEF ShadowInv
  <1>6. CASE alive.fast /\ alive.ref /\ Differing # {}
    <2>1. phase' = "idle"
          /\ report' = [kind |-> "Register", pc |-> pc, item |-> Items[Min(Differing)]]
      BY <1>6 DEF Compare
    <2>2. report' # NoReport
      BY <2>1, ReportTypes
    <2>3. Typed'
      <3>1. Items[Min(Differing)] \in {"X0", "PC", "NZCV"} /\ pc \in Words
        BY <1>0, <1>6, ItemType DEF ControlTyped
      <3> DEFINE it == Items[Min(Differing)]
      <3> HIDE DEF it
      <3>2. report' \in [kind : {"none", "Register", "MemoryWrite"}, pc : Words,
                         item : {"none", "X0", "PC", "NZCV"}]
        BY <2>1, <3>1
      <3>3. QED
        BY <1>4, <2>1, <3>2
    <2>4. fast_code = RefCode /\ Faithful => ReadsAt(report'.pc)
      BY <1>0, <1>3, <1>6, <2>1, NothingDiffers
    <2>5. Rest' /\ Together' /\ LoopTop' /\ Clean'
      BY <1>1, <1>3, <2>1, <2>2, <2>4 DEF Rest, Together, LoopTop, LoopTopAgrees, Clean
    <2>6. QED
      BY <2>3, <2>5 DEF ShadowInv
  <1>7. CASE alive.fast /\ alive.ref /\ Differing = {} /\ CompareMemoryWrites
    <2>1. phase' = "idle" /\ report' = [kind |-> "MemoryWrite", pc |-> pc, item |-> "none"]
      BY <1>7 DEF Compare
    <2>2. report' # NoReport
      BY <2>1, ReportTypes
    <2>3. Typed'
      BY <1>0, <1>4, <2>1 DEF ControlTyped
    <2>4. fast_code = RefCode /\ Faithful => ReadsAt(report'.pc)
      BY <1>3, <1>7, <2>1 DEF CompareMemoryWrites
    <2>5. Rest' /\ Together' /\ LoopTop' /\ Clean'
      BY <1>1, <1>3, <2>1, <2>2, <2>4 DEF Rest, Together, LoopTop, LoopTopAgrees, Clean
    <2>6. QED
      BY <2>3, <2>5 DEF ShadowInv
  <1>8. CASE alive.fast /\ alive.ref /\ Differing = {} /\ ~CompareMemoryWrites
    <2>1. phase' = "fast" /\ report' = report
      BY <1>8 DEF Compare
    <2>2. fast = ref
      BY <1>0, <1>8, NothingDiffers
    <2>3. Typed'
      BY <1>2, <1>4, <2>1, ReportTypes
    <2>4. Rest' /\ Together' /\ LoopTop' /\ Clean'
      BY <1>1, <1>2, <2>1, <2>2 DEF Rest, Together, LoopTop, LoopTopAgrees, Clean
    <2>5. QED
      BY <2>3, <2>4 DEF ShadowInv
  <1>9. QED
    <2>1. alive.fast \in BOOLEAN /\ alive.ref \in BOOLEAN
      BY <1>0 DEF ControlTyped
    <2>2. QED
      BY <1>2, <1>5, <1>6, <1>7, <1>8, <2>1

LEMMA StutterKeeps ==
    ASSUME ShadowInv, UNCHANGED vars
    PROVE  ShadowInv'
  <1>1. UNCHANGED <<fast_code, fast, ref, mem, fast_writes, ref_writes, alive, pc, phase, report, runs>>
    BY DEF vars
  <1>2. Typed'
    BY <1>1 DEF ShadowInv, Typed, TracksTyped, CodeTyped, MemTyped, WritesTyped, ControlTyped
  <1>3. Rest' /\ Together' /\ LoopTop' /\ Clean'
    BY <1>1 DEF ShadowInv, Rest, Together, LoopTop, LoopTopAgrees, Faithful, Clean
  <1>4. QED
    BY <1>2, <1>3 DEF ShadowInv

LEMMA NextKeeps ==
    ASSUME ShadowInv, [Next]_vars
    PROVE  ShadowInv'
  <1>1. CASE UNCHANGED vars
    BY <1>1, StutterKeeps
  <1>2. CASE Done
    BY <1>2, StutterKeeps DEF Done
  <1>3. QED
    BY <1>1, <1>2, WriteKeeps, RunKeeps, StepFastKeeps, StepRefKeeps, CompareKeeps DEF Next, Loop

-----------------------------------------------------------------------------
(***************************************************************************)
(* The theorems.                                                           *)
(***************************************************************************)
\* The inductive invariant: the cache track is at most one instruction ahead.
THEOREM ShadowInvariant == Spec => []ShadowInv
  <1>1. Init => ShadowInv
    BY InitHolds
  <1>2. ShadowInv /\ [Next]_vars => ShadowInv'
    BY NextKeeps
  <1>3. QED
    BY <1>1, <1>2, PTL DEF Spec

\* For every program and every wrong entry, if the embedder stops at the first
\* report: the tracks are equal at every loop top and after every run that ended
\* without one, so the reported PC is that of the instruction that diverged.
THEOREM LockstepHolds ==
    ASSUME ~Rerun
    PROVE  Spec => []LockstepInv
  <1>1. ShadowInv => LockstepInv
    <2> SUFFICES ASSUME ShadowInv
                 PROVE  LockstepInv
      OBVIOUS
    <2>1. TypeOK
      BY DEF ShadowInv, Typed, TracksTyped, CodeTyped, MemTyped, WritesTyped, ControlTyped, TypeOK
    <2>2. LoopTopAgrees
      BY DEF ShadowInv, LoopTop, Faithful
    <2>3. EndTogether
      BY DEF ShadowInv, Rest, EndTogether
    <2>4. QED
      BY <2>1, <2>2, <2>3 DEF LockstepInv
  <1>2. QED
    BY <1>1, ShadowInvariant, PTL

\* For every program, if the embedder stops at the first report: a correctly
\* predecoded program is reported only at an instruction that reads what it
\* writes, which RunFrom has the two tracks apply one after the other.
THEOREM NeverFalseAlarm ==
    ASSUME ~Rerun
    PROVE  Spec => []NoFalseAlarm
  <1>1. ShadowInv => NoFalseAlarm
    BY DEF ShadowInv, Clean, Faithful, NoFalseAlarm, ReadsAt
  <1>2. QED
    BY <1>1, ShadowInvariant, PTL

\* A correctly predecoded program without such an instruction is never
\* reported, however often the embedder runs it.
THEOREM RepeatableNeverReported ==
    ASSUME Repeatable
    PROVE  Spec => [](fast_code = RefCode => report = NoReport)
  <1>1. ShadowInv => (fast_code = RefCode => report = NoReport)
    BY DEF ShadowInv, Clean, Faithful, Repeatable, ReadsAt
  <1>2. QED
    BY <1>1, ShadowInvariant, PTL

\* A step after which the tracks differ, in a register, a flag, the PC or the
\* writes, ends the run with a report, also when the embedder runs on.
THEOREM DivergencesReported == Spec => DivergenceReported
  <1>1. ShadowInv /\ [Next]_vars =>
          [(Compare /\ (fast # ref \/ fast_writes # ref_writes))
              => (phase' = "idle" /\ report' # NoReport)]_vars
    <2> SUFFICES ASSUME ShadowInv, Compare, fast # ref \/ fast_writes # ref_writes
                 PROVE  phase' = "idle" /\ report' # NoReport
      OBVIOUS
    <2>1. TracksTyped /\ WritesTyped
      BY DEF ShadowInv, Typed
    <2>2. /\ alive.fast <=> alive.ref
          /\ ~alive.ref => fast = ref /\ fast_writes = ref_writes
      BY DEF ShadowInv, Together, Compare
    <2>3. alive.fast /\ alive.ref
      BY <2>2
    <2>4. CASE Differing # {}
      <3>1. phase' = "idle" /\ report' = [kind |-> "Register", pc |-> pc,
                                         item |-> Items[Min(Differing)]]
        BY <2>3, <2>4 DEF Compare
      <3>2. QED
        BY <3>1, ReportTypes
    <2>5. CASE Differing = {}
      <3>1. CompareMemoryWrites
        BY <2>1, <2>5, NothingDiffers, NoWriteDiffers
      <3>2. phase' = "idle" /\ report' = [kind |-> "MemoryWrite", pc |-> pc, item |-> "none"]
        BY <2>3, <2>5, <3>1 DEF Compare
      <3>3. QED
        BY <3>2, ReportTypes
    <2>6. QED
      BY <2>4, <2>5
  <1>2. QED
    BY <1>1, ShadowInvariant, PTL DEF Spec, DivergenceReported
=============================================================================
